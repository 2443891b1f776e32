------------------------------ MODULE XhrIoProofs ------------------------------
(***************************************************************************)
(* Proofs about XhrIo for any listeners, any number of requests and any    *)
(* bound on the arrays.                                                    *)
(***************************************************************************)
EXTENDS XhrIo, FiniteSetTheorems, SequenceTheorems, TLAPS

-----------------------------------------------------------------------------
(* A loop of the code is a recursive function: induction over Nat shows what it
   computes.  *)

Less == {p \in Nat \X Nat : p[1] < p[2]}

LEMMA LessIsWellFounded == IsWellFoundedOn(Less, Nat)
<1>1. Less = OpToRel(<, Nat) BY DEF OpToRel, Less
<1>2. IsWellFoundedOn(OpToRel(<, Nat), Nat) BY NatLessThanWellFounded
<1> QED BY <1>1, <1>2

LEMMA Induction ==
    ASSUME NEW S \in SUBSET Nat, 0 \in S, \A n \in S : n + 1 \in S PROVE S = Nat
<1>1. SUFFICES ASSUME Nat \ S # {} PROVE FALSE OBVIOUS
<1>2. PICK x \in Nat \ S : \A y \in Nat \ S : ~(<<y, x>> \in Less)
  <2>1. Nat \ S \subseteq Nat OBVIOUS
  <2> QED BY <1>1, <2>1, LessIsWellFounded, WFMin
<1>3. x - 1 \in Nat OBVIOUS
<1>4. <<x - 1, x>> \in Less BY <1>3 DEF Less
<1>5. x - 1 \in S BY <1>2, <1>3, <1>4
<1>6. x - 1 + 1 \in S BY <1>5
<1> QED BY <1>6

KeptStep(array, f, i) ==
    IF i = 0 THEN <<>>
    ELSE IF Present(array[i]) THEN Append(f[i - 1], array[i]) ELSE f[i - 1]

KeptUpTo(array, n, f) == f = [i \in 0..n |-> KeptStep(array, f, i)]

LEMMA KeptExists ==
    ASSUME NEW array PROVE \A n \in Nat : \E f : KeptUpTo(array, n, f)
<1> DEFINE S == {n \in Nat : \E f : KeptUpTo(array, n, f)}
<1>1. 0 \in S
  <2> DEFINE f == [i \in 0..0 |-> <<>>]
  <2>1. \A i \in 0..0 : i = 0 OBVIOUS
  <2>2. f = [i \in 0..0 |-> KeptStep(array, f, i)] BY <2>1 DEF KeptStep
  <2> HIDE DEF f
  <2> QED BY <2>2 DEF KeptUpTo
<1>2. ASSUME NEW n \in S PROVE n + 1 \in S
  <2>1. PICK f : KeptUpTo(array, n, f) OBVIOUS
  <2>2. PICK g : g = [i \in 0..(n + 1) |-> IF i = n + 1 THEN KeptStep(array, f, n + 1) ELSE f[i]] OBVIOUS
  <2>3. \A i \in 0..(n + 1) : i # n + 1 => i \in 0..n OBVIOUS
  <2>4. \A i \in 0..(n + 1) : i # 0 => i - 1 \in 0..n OBVIOUS
  <2>5. \A i \in 0..n : g[i] = f[i] BY <2>2
  <2>6. \A i \in 0..(n + 1) : KeptStep(array, g, i) = KeptStep(array, f, i) BY <2>4, <2>5 DEF KeptStep
  <2>7. \A i \in 0..n : f[i] = KeptStep(array, f, i) BY <2>1 DEF KeptUpTo
  <2>8. \A i \in 0..(n + 1) : g[i] = KeptStep(array, g, i) BY <2>2, <2>3, <2>6, <2>7
  <2>9. g = [i \in 0..(n + 1) |-> g[i]] BY <2>2
  <2>10. KeptUpTo(array, n + 1, g) BY <2>8, <2>9 DEF KeptUpTo
  <2> QED BY <2>10
<1> HIDE DEF S
<1>3. S = Nat BY <1>1, <1>2, Induction, S \in SUBSET Nat DEF S
<1> QED BY <1>3 DEF S

LEMMA PurgeIsKept ==
    ASSUME NEW array, Len(array) \in Nat
    PROVE \E f : KeptUpTo(array, Len(array), f) /\ Purge(array) = f[Len(array)]
<1> DEFINE g == CHOOSE f : f = [i \in 0..Len(array) |-> KeptStep(array, f, i)]
<1>1. \E f : f = [i \in 0..Len(array) |-> KeptStep(array, f, i)] BY KeptExists DEF KeptUpTo
<1>2. g = [i \in 0..Len(array) |-> KeptStep(array, g, i)] BY <1>1, Zenon
<1>3. Purge(array) = g[Len(array)] BY Zenon DEF Purge, KeptStep
<1> HIDE DEF g
<1> QED BY <1>2, <1>3 DEF KeptUpTo

LEMMA PurgeProperties ==
    ASSUME NEW array \in Seq(Listener)
    PROVE /\ Purge(array) \in Seq(Listener)
          /\ \A i \in DOMAIN Purge(array) : Present(Purge(array)[i])
          /\ (\A i \in DOMAIN array : ~Present(array[i])) => Purge(array) = <<>>
<1>1. Len(array) \in Nat /\ DOMAIN array = 1..Len(array) BY LenProperties
<1>2. PICK f : KeptUpTo(array, Len(array), f) /\ Purge(array) = f[Len(array)] BY <1>1, PurgeIsKept
<1> DEFINE Good(n) == /\ f[n] \in Seq(Listener)
                      /\ \A i \in DOMAIN f[n] : Present(f[n][i])
                      /\ (\A i \in 1..n : ~Present(array[i])) => f[n] = <<>>
           S == {n \in Nat : n <= Len(array) => Good(n)}
<1>3. 0 \in S
  <2>1. f[0] = <<>> BY <1>1, <1>2 DEF KeptUpTo, KeptStep
  <2>2. <<>> \in Seq(Listener) /\ \A i \in DOMAIN <<>> : Present(<<>>[i]) OBVIOUS
  <2>3. Good(0) BY <2>1, <2>2
  <2> QED BY <2>3
<1>4. ASSUME NEW n \in S PROVE n + 1 \in S
  <2> SUFFICES ASSUME n + 1 <= Len(array) PROVE Good(n + 1) OBVIOUS
  <2>1. Good(n) BY <1>1
  <2>2. f[n + 1] = KeptStep(array, f, n + 1)
    <3>1. n + 1 \in 0..Len(array) BY <1>1
    <3>2. \A i \in 0..Len(array) : f[i] = KeptStep(array, f, i) BY <1>2 DEF KeptUpTo
    <3> QED BY <3>1, <3>2
  <2>3. array[n + 1] \in Listener BY <1>1, ElementOfSeq
  <2>4. CASE Present(array[n + 1])
    <3>1. f[n + 1] = Append(f[n], array[n + 1]) BY <2>2, <2>4 DEF KeptStep
    <3>2. PICK s \in Seq(Listener) : s = f[n] BY <2>1
    <3>3. PICK a \in Listener : a = array[n + 1] BY <2>3
    <3> HIDE DEF Good
    <3>4. /\ Append(s, a) \in Seq(Listener)
          /\ DOMAIN Append(s, a) = 1..(Len(s) + 1)
          /\ \A i \in 1..Len(s) : Append(s, a)[i] = s[i]
          /\ Append(s, a)[Len(s) + 1] = a
      BY AppendProperties, LenProperties
    <3>5. \A i \in DOMAIN s : Present(s[i]) BY <2>1, <3>2 DEF Good
    <3>6. \A i \in 1..(Len(s) + 1) : Present(Append(s, a)[i])
      BY <2>4, <3>3, <3>4, <3>5, LenProperties
    <3>7. n + 1 \in 1..(n + 1) OBVIOUS
    <3> QED BY <2>4, <3>1, <3>2, <3>3, <3>4, <3>6, <3>7 DEF Good
  <2>5. CASE ~Present(array[n + 1])
    <3>1. f[n + 1] = f[n] BY <2>2, <2>5 DEF KeptStep
    <3> QED BY <2>1, <3>1
  <2> QED BY <2>4, <2>5
<1> HIDE DEF S
<1>5. S = Nat BY <1>3, <1>4, Induction, S \in SUBSET Nat DEF S
<1>6. Good(Len(array)) BY <1>1, <1>5 DEF S
<1> QED BY <1>1, <1>2, <1>6

-----------------------------------------------------------------------------
(* The stack of the script, and how walks and contexts on it are counted.  *)

Plain == {"change", "opened", "failed", "cleanUp", "complete", "pop", "sent",
          "timedOut"}

Frame ==
    [op : {"walk"}, type : Types, at : Nat \ {0}, len : Nat]
        \cup [op : {"once"}, type : Types, at : Nat \ {0}]
        \cup [op : {"dispatch"}, type : EventTypes, req : Nat]
        \cup [op : {"closed"}, req : Nat]
        \cup [op : Plain]

\* What is known of a stack with "p" pushed on "q".
Pushed(s, p, q) ==
    /\ s \in Seq(Frame)
    /\ Len(s) = Len(p) + Len(q)
    /\ \A i \in 1..Len(p) : s[i] = p[i]
    /\ \A i \in 1..Len(q) : s[i + Len(p)] = q[i]

LEMMA PushIsPushed ==
    ASSUME NEW p \in Seq(Frame), NEW q \in Seq(Frame)
    PROVE Pushed(p \o q, p, q)
<1> HIDE DEF Frame
<1> QED BY ConcatProperties, LenProperties DEF Pushed

LEMMA TailIsPopped ==
    ASSUME NEW s \in Seq(Frame), s # <<>>
    PROVE /\ s[1] \in Frame /\ Len(s) \in Nat \ {0}
          /\ Tail(s) \in Seq(Frame)
          /\ Pushed(s, <<s[1]>>, Tail(s))
          /\ Len(Tail(s)) = Len(s) - 1
          /\ \A i \in 1..(Len(s) - 1) : Tail(s)[i] = s[i + 1]
<1> HIDE DEF Frame
<1>1. s[1] \in Frame /\ Len(s) \in Nat \ {0} BY LenProperties, ElementOfSeq, EmptySeq
<1>2. /\ Tail(s) \in Seq(Frame) /\ Len(Tail(s)) = Len(s) - 1
      /\ \A i \in 1..(Len(s) - 1) : Tail(s)[i] = s[i + 1]
  BY HeadTailProperties
<1>3. Len(<<s[1]>>) = 1 /\ <<s[1]>>[1] = s[1] OBVIOUS
<1> QED BY <1>1, <1>2, <1>3, LenProperties DEF Pushed

\* Pops and walks are counted by the set of their places.
Places(s, f) == {i \in 1..Len(s) : s[i] \in f}

LEMMA PlacesFinite ==
    ASSUME NEW s \in Seq(Frame), NEW f
    PROVE IsFiniteSet(Places(s, f)) /\ Cardinality(Places(s, f)) \in Nat
<1>1. Len(s) \in Nat BY LenProperties
<1>2. IsFiniteSet(1..Len(s)) BY <1>1, FS_Interval
<1>3. Places(s, f) \subseteq 1..Len(s) BY DEF Places
<1> QED BY <1>2, <1>3, FS_Subset, FS_CardinalityType

LEMMA PlacesAdd ==
    ASSUME NEW s, NEW p \in Seq(Frame), NEW q \in Seq(Frame), Pushed(s, p, q), NEW f
    PROVE Cardinality(Places(s, f)) = Cardinality(Places(p, f)) + Cardinality(Places(q, f))
<1> HIDE DEF Frame
<1>1. Len(p) \in Nat /\ Len(q) \in Nat /\ s \in Seq(Frame) BY LenProperties DEF Pushed
<1> DEFINE moved == {i + Len(p) : i \in Places(q, f)}
           up == [i \in Places(q, f) |-> i + Len(p)]
<1>2. Places(s, f) = Places(p, f) \cup moved
  <2>1. ASSUME NEW i \in Places(s, f) PROVE i \in Places(p, f) \cup moved
    <3>1. i \in 1..(Len(p) + Len(q)) /\ s[i] \in f BY DEF Places, Pushed
    <3>2. CASE i <= Len(p) BY <1>1, <3>1, <3>2 DEF Places, Pushed
    <3>3. CASE i > Len(p)
      <4>1. i - Len(p) \in 1..Len(q) BY <1>1, <3>1, <3>3
      <4>2. s[i - Len(p) + Len(p)] = q[i - Len(p)] BY <4>1 DEF Pushed
      <4>3. i - Len(p) + Len(p) = i BY <1>1, <3>1
      <4>4. i - Len(p) \in Places(q, f) BY <3>1, <4>1, <4>2, <4>3 DEF Places
      <4> QED BY <4>3, <4>4
    <3> QED BY <1>1, <3>1, <3>2, <3>3
  <2>2. ASSUME NEW i \in Places(p, f) PROVE i \in Places(s, f)
    BY <1>1 DEF Places, Pushed
  <2>3. ASSUME NEW i \in Places(q, f) PROVE i + Len(p) \in Places(s, f)
    BY <1>1 DEF Places, Pushed
  <2> QED BY <2>1, <2>2, <2>3
<1>3. Places(p, f) \cap moved = {} BY <1>1 DEF Places
<1>4. up \in Bijection(Places(q, f), moved)
  <2>1. up \in [Places(q, f) -> moved] OBVIOUS
  <2>2. \A i, j \in Places(q, f) : up[i] = up[j] => i = j BY <1>1 DEF Places
  <2>3. \A m \in moved : \E i \in Places(q, f) : up[i] = m OBVIOUS
  <2> QED BY <2>1, <2>2, <2>3 DEF Bijection, Injection, Surjection, IsInjective
<1>5. IsFiniteSet(moved) /\ Cardinality(moved) = Cardinality(Places(q, f))
  BY <1>4, PlacesFinite, FS_Bijection DEF ExistsBijection
<1> HIDE DEF moved
<1>6. Cardinality(Places(p, f) \cup moved)
        = Cardinality(Places(p, f)) + Cardinality(moved) - Cardinality(Places(p, f) \cap moved)
  BY <1>5, PlacesFinite, FS_Union
<1>7. Cardinality(Places(p, f) \cap moved) = 0 BY <1>3, FS_EmptySet
<1>8. Cardinality(Places(p, f)) \in Nat /\ Cardinality(Places(q, f)) \in Nat BY PlacesFinite
<1> QED BY <1>2, <1>5, <1>6, <1>7, <1>8

LEMMA NoPlaces ==
    ASSUME NEW p, NEW f, \A i \in 1..Len(p) : p[i] \notin f
    PROVE Cardinality(Places(p, f)) = 0
<1>1. Places(p, f) = {} BY DEF Places
<1> QED BY <1>1, FS_EmptySet

LEMMA OnePlace ==
    ASSUME NEW p, NEW f, NEW k \in 1..Len(p), \A i \in 1..Len(p) : p[i] \in f <=> i = k
    PROVE Cardinality(Places(p, f)) = 1
<1>1. Places(p, f) = {k} BY DEF Places
<1> QED BY <1>1, FS_Singleton

\* The first frame, and the others.
LEMMA HeadCounts ==
    ASSUME NEW s \in Seq(Frame), s # <<>>, NEW f
    PROVE Cardinality(Places(s, f))
            = (IF s[1] \in f THEN 1 ELSE 0) + Cardinality(Places(Tail(s), f))
<1> HIDE DEF Frame
<1>1. /\ s[1] \in Frame /\ Tail(s) \in Seq(Frame) /\ Pushed(s, <<s[1]>>, Tail(s))
  BY TailIsPopped
<1>2. PICK p \in Seq(Frame) : p = <<s[1]>> BY <1>1
<1>3. PICK q \in Seq(Frame) : q = Tail(s) BY <1>1
<1>a. Pushed(s, p, q) BY <1>1, <1>2, <1>3
<1>b. Cardinality(Places(s, f)) = Cardinality(Places(p, f)) + Cardinality(Places(q, f))
  BY <1>a, PlacesAdd
<1>4. s[1] \in f => Cardinality(Places(<<s[1]>>, f)) = 1
  <2>1. Places(<<s[1]>>, f) = IF s[1] \in f THEN {1} ELSE {} BY DEF Places
  <2> QED BY <2>1, FS_Singleton
<1>5. s[1] \notin f => Cardinality(Places(<<s[1]>>, f)) = 0
  <2>1. Places(<<s[1]>>, f) = IF s[1] \in f THEN {1} ELSE {} BY DEF Places
  <2> QED BY <2>1, FS_EmptySet
<1> QED BY <1>2, <1>3, <1>b, <1>4, <1>5

-----------------------------------------------------------------------------
(* The parts of WalksAreLocked: what pushing, popping, locking and unlocking
   do to them, and the arrays of listeners.  *)

Walks(t) == [op : {"walk"}, type : {t}, at : Nat \ {0}, len : Nat]

\* The parts of WalksAreLocked, of a stack and arrays that may be new ones.
Counted(s, lk) == \A t \in Types : lk[t] = Cardinality(Places(s, Walks(t)))

Inside(s, ls) ==
    \A i \in 1..Len(s) : s[i].op = "walk" => s[i].len <= Len(ls[s[i].type])

Clean(ls, lk, d) ==
    \A t \in Types :
        /\ lk[t] = 0 => \A i \in DOMAIN ls[t] : Present(ls[t][i])
        /\ d => \A i \in DOMAIN ls[t] : ~Present(ls[t][i])

LEMMA WalkFrames ==
    ASSUME NEW x \in Frame, NEW t
    PROVE /\ x \in Walks(t) <=> x.op = "walk" /\ x.type = t
          /\ x.op = "walk" => x.type \in Types /\ x.at \in Nat \ {0} /\ x.len \in Nat
  BY DEF Frame, Walks, Plain

LEMMA CountedPop ==
    ASSUME NEW s \in Seq(Frame), s # <<>>, s[1].op # "walk", NEW lk, Counted(s, lk)
    PROVE Counted(Tail(s), lk)
<1>1. s[1] \in Frame BY TailIsPopped
<1>2. \A t : s[1] \notin Walks(t) BY <1>1, WalkFrames
<1>3. Tail(s) \in Seq(Frame) BY TailIsPopped
<1> HIDE DEF Frame
<1> SUFFICES ASSUME NEW t \in Types PROVE lk[t] = Cardinality(Places(Tail(s), Walks(t)))
  BY DEF Counted
<1>4. Cardinality(Places(s, Walks(t))) = 0 + Cardinality(Places(Tail(s), Walks(t)))
  BY <1>2, HeadCounts
<1>5. Cardinality(Places(Tail(s), Walks(t))) \in Nat BY <1>3, PlacesFinite
<1> QED BY <1>4, <1>5 DEF Counted

LEMMA CountedPush ==
    ASSUME NEW p \in Seq(Frame), NEW q \in Seq(Frame), NEW s, Pushed(s, p, q),
           \A i \in 1..Len(p) : p[i].op # "walk", NEW lk, Counted(q, lk)
    PROVE Counted(s, lk)
<1> SUFFICES ASSUME NEW t \in Types PROVE lk[t] = Cardinality(Places(s, Walks(t)))
  BY DEF Counted
<1>1. \A i \in 1..Len(p) : p[i] \notin Walks(t) BY ElementOfSeq, WalkFrames
<1> HIDE DEF Frame
<1>2. Cardinality(Places(p, Walks(t))) = 0 BY <1>1, NoPlaces
<1>3. Cardinality(Places(s, Walks(t)))
        = Cardinality(Places(p, Walks(t))) + Cardinality(Places(q, Walks(t))) BY PlacesAdd
<1>4. Cardinality(Places(q, Walks(t))) \in Nat BY PlacesFinite
<1> QED BY <1>2, <1>3, <1>4 DEF Counted

\* One walk among the frames that are pushed.
LEMMA OneWalk ==
    ASSUME NEW p \in Seq(Frame), NEW k \in 1..Len(p), p[k].op = "walk",
           \A i \in 1..Len(p) : i # k => p[i].op # "walk",
           NEW q \in Seq(Frame), NEW s, Pushed(s, p, q), NEW t
    PROVE Cardinality(Places(s, Walks(t)))
            = (IF t = p[k].type THEN 1 ELSE 0) + Cardinality(Places(q, Walks(t)))
<1>0. \A i \in 1..Len(p) : p[i] \in Frame BY ElementOfSeq
<1>1. \A i \in 1..Len(p) : p[i] \in Walks(t) <=> i = k /\ t = p[k].type
  BY <1>0, WalkFrames
<1> HIDE DEF Frame
<1>2. t = p[k].type => Cardinality(Places(p, Walks(t))) = 1
  <2> HAVE t = p[k].type
  <2>1. \A i \in 1..Len(p) : p[i] \in Walks(t) <=> i = k BY <1>1
  <2> HIDE DEF Walks
  <2> QED BY <2>1, OnePlace
<1>3. t # p[k].type => Cardinality(Places(p, Walks(t))) = 0 BY <1>1, NoPlaces
<1>4. Cardinality(Places(s, Walks(t)))
        = Cardinality(Places(p, Walks(t))) + Cardinality(Places(q, Walks(t))) BY PlacesAdd
<1> QED BY <1>2, <1>3, <1>4

LEMMA CountedReplace ==
    ASSUME NEW s \in Seq(Frame), s # <<>>, s[1].op = "walk",
           NEW p \in Seq(Frame), NEW k \in 1..Len(p), p[k].op = "walk",
           p[k].type = s[1].type, \A i \in 1..Len(p) : i # k => p[i].op # "walk",
           NEW r, Pushed(r, p, Tail(s)), NEW lk, Counted(s, lk)
    PROVE Counted(r, lk)
<1>1. s[1] \in Frame /\ Tail(s) \in Seq(Frame) BY TailIsPopped
<1> SUFFICES ASSUME NEW t \in Types PROVE lk[t] = Cardinality(Places(r, Walks(t)))
  BY DEF Counted
<1>2. s[1] \in Walks(t) <=> t = p[k].type BY <1>1, WalkFrames
<1> HIDE DEF Frame
<1>3. Cardinality(Places(s, Walks(t)))
        = (IF s[1] \in Walks(t) THEN 1 ELSE 0) + Cardinality(Places(Tail(s), Walks(t)))
  BY HeadCounts
<1>4. PICK q \in Seq(Frame) : q = Tail(s) BY <1>1
<1>5. Cardinality(Places(r, Walks(t)))
        = (IF t = p[k].type THEN 1 ELSE 0) + Cardinality(Places(q, Walks(t)))
  <2>1. Pushed(r, p, q) BY <1>4
  <2> QED BY <2>1, OneWalk
<1> QED BY <1>2, <1>3, <1>4, <1>5 DEF Counted

LEMMA CountedUnlock ==
    ASSUME NEW s \in Seq(Frame), s # <<>>, s[1].op = "walk",
           NEW lk \in [Types -> Nat], Counted(s, lk)
    PROVE /\ s[1].type \in Types /\ lk[s[1].type] - 1 \in Nat
          /\ Counted(Tail(s), [lk EXCEPT ![s[1].type] = @ - 1])
<1>1. s[1] \in Frame /\ Tail(s) \in Seq(Frame) BY TailIsPopped
<1>2. PICK u \in Types : u = s[1].type BY <1>1, WalkFrames
<1>3. \A t \in Types : s[1] \in Walks(t) <=> t = u BY <1>1, <1>2, WalkFrames
<1> HIDE DEF Frame
<1>4. \A t \in Types : /\ Cardinality(Places(s, Walks(t)))
                            = (IF s[1] \in Walks(t) THEN 1 ELSE 0)
                                + Cardinality(Places(Tail(s), Walks(t)))
                       /\ Cardinality(Places(Tail(s), Walks(t))) \in Nat
  BY <1>1, HeadCounts, PlacesFinite
<1> HIDE DEF Walks
<1>5. lk[u] - 1 \in Nat BY <1>3, <1>4 DEF Counted
<1>6. ASSUME NEW t \in Types
      PROVE [lk EXCEPT ![u] = @ - 1][t] = Cardinality(Places(Tail(s), Walks(t)))
  <2>1. CASE t = u BY <1>3, <1>4, <2>1 DEF Counted
  <2>2. CASE t # u BY <1>3, <1>4, <2>2 DEF Counted
  <2> QED BY <2>1, <2>2
<1> QED BY <1>2, <1>5, <1>6 DEF Counted

LEMMA CountedLock ==
    ASSUME NEW q \in Seq(Frame), NEW lk \in [Types -> Nat], Counted(q, lk),
           NEW p \in Seq(Frame), Len(p) >= 1, p[1].op = "walk",
           \A i \in 1..Len(p) : i # 1 => p[i].op # "walk",
           NEW r, Pushed(r, p, q)
    PROVE Counted(r, [lk EXCEPT ![p[1].type] = @ + 1])
<1>1. 1 \in 1..Len(p) /\ p[1] \in Frame BY ElementOfSeq, LenProperties
<1>2. PICK u \in Types : u = p[1].type BY <1>1, WalkFrames
<1> HIDE DEF Frame
<1>3. \A t \in Types :
        Cardinality(Places(r, Walks(t)))
            = (IF t = p[1].type THEN 1 ELSE 0) + Cardinality(Places(q, Walks(t)))
  BY <1>1, OneWalk
<1>4. \A t \in Types : Cardinality(Places(q, Walks(t))) \in Nat BY PlacesFinite
<1> HIDE DEF Walks
<1>5. ASSUME NEW t \in Types
      PROVE [lk EXCEPT ![u] = @ + 1][t] = Cardinality(Places(r, Walks(t)))
  BY <1>2, <1>3, <1>4 DEF Counted
<1> QED BY <1>2, <1>5 DEF Counted

LEMMA InsidePush ==
    ASSUME NEW p \in Seq(Frame), NEW q \in Seq(Frame), NEW s, Pushed(s, p, q),
           NEW ls, Inside(p, ls), Inside(q, ls)
    PROVE Inside(s, ls)
<1> HIDE DEF Frame
<1>1. Len(p) \in Nat /\ Len(q) \in Nat BY LenProperties
<1>2. ASSUME NEW i \in 1..Len(s), s[i].op = "walk" PROVE s[i].len <= Len(ls[s[i].type])
  <2>1. CASE i <= Len(p) BY <1>1, <1>2, <2>1 DEF Pushed, Inside
  <2>2. CASE i > Len(p)
    <3>1. i - Len(p) \in 1..Len(q) /\ i - Len(p) + Len(p) = i BY <1>1, <2>2 DEF Pushed
    <3>2. s[i] = q[i - Len(p)] BY <3>1 DEF Pushed
    <3> QED BY <1>2, <3>1, <3>2 DEF Inside
  <2> QED BY <1>1, <2>1, <2>2
<1> QED BY <1>2 DEF Inside

LEMMA InsidePop ==
    ASSUME NEW s \in Seq(Frame), s # <<>>, NEW ls, Inside(s, ls)
    PROVE Inside(Tail(s), ls)
<1>1. Len(s) \in Nat /\ Len(Tail(s)) = Len(s) - 1 /\ \A i \in 1..(Len(s) - 1) : Tail(s)[i] = s[i + 1]
  BY TailIsPopped, LenProperties
<1> HIDE DEF Frame
<1>2. ASSUME NEW i \in 1..Len(Tail(s)), Tail(s)[i].op = "walk"
      PROVE Tail(s)[i].len <= Len(ls[Tail(s)[i].type])
  <2>1. i + 1 \in 1..Len(s) /\ Tail(s)[i] = s[i + 1] BY <1>1
  <2>2. s[i + 1].op = "walk" BY <1>2, <2>1
  <2>3. s[i + 1].len <= Len(ls[s[i + 1].type]) BY <2>1, <2>2 DEF Inside
  <2> QED BY <2>1, <2>3
<1> QED BY <1>2 DEF Inside

-----------------------------------------------------------------------------
(* Arrays *)

LEMMA CleanUpArray ==
    ASSUME NEW array \in Seq(Listener), NEW walks \in Nat
    PROVE /\ CleanUp(array, walks) \in Seq(Listener)
          /\ walks # 0 => CleanUp(array, walks) = array
          /\ walks = 0 => \A i \in DOMAIN CleanUp(array, walks) :
                              Present(CleanUp(array, walks)[i])
          /\ (\A i \in DOMAIN array : ~Present(array[i])) =>
                \A i \in DOMAIN CleanUp(array, walks) : ~Present(CleanUp(array, walks)[i])
<1> HIDE DEF Listener
<1>1. DOMAIN <<>> = {} OBVIOUS
<1> QED BY <1>1, PurgeProperties DEF CleanUp

LEMMA UnlistenArray ==
    ASSUME NEW array \in Seq(Listener), NEW at
    PROVE /\ Unlisten(array, at) \in Seq(Listener)
          /\ Len(Unlisten(array, at)) = Len(array)
          /\ (\A i \in DOMAIN array : ~Present(array[i])) =>
                \A i \in DOMAIN Unlisten(array, at) : ~Present(Unlisten(array, at)[i])
<1>1. CASE at \in DOMAIN array
  <2>1. at \in 1..Len(array) BY <1>1, LenProperties
  <2>2. array[at] \in Listener BY <2>1, ElementOfSeq
  <2>3. PICK e : e = [array[at] EXCEPT !.removed = TRUE] OBVIOUS
  <2>4. e \in Listener /\ ~Present(e) BY <2>2, <2>3 DEF Listener, Present
  <2>5. Unlisten(array, at) = [array EXCEPT ![at] = e] BY <2>3 DEF Unlisten
  <2> HIDE DEF Listener
  <2>6. /\ [array EXCEPT ![at] = e] \in Seq(Listener)
        /\ Len([array EXCEPT ![at] = e]) = Len(array)
        /\ \A i \in 1..Len(array) : [array EXCEPT ![at] = e][i] = IF i = at THEN e ELSE array[i]
    BY <2>1, <2>4, ExceptSeq
  <2>7. DOMAIN [array EXCEPT ![at] = e] = DOMAIN array /\ DOMAIN array = 1..Len(array)
    BY LenProperties
  <2> QED BY <2>4, <2>5, <2>6, <2>7 DEF Present
<1>2. CASE at \notin DOMAIN array
  <2>1. Unlisten(array, at) = array BY <1>2, LenProperties, IsASeq DEF Unlisten
  <2> QED BY <2>1
<1> QED BY <1>1, <1>2

LEMMA FlaggedArray ==
    ASSUME NEW array \in Seq(Listener), NEW flagged,
           flagged = [i \in DOMAIN array |-> [array[i] EXCEPT !.removed = TRUE]]
    PROVE /\ flagged \in Seq(Listener) /\ Len(flagged) = Len(array)
          /\ \A i \in DOMAIN flagged : ~Present(flagged[i])
<1>1. Len(array) \in Nat /\ DOMAIN array = 1..Len(array) BY LenProperties
<1>2. \A i \in 1..Len(array) : array[i] \in Listener BY ElementOfSeq
<1>3. \A i \in 1..Len(array) : flagged[i] \in Listener /\ ~Present(flagged[i])
  BY <1>1, <1>2 DEF Listener, Present
<1> HIDE DEF Listener
<1>4. flagged = [i \in 1..Len(array) |-> flagged[i]] BY <1>1
<1>5. flagged \in Seq(Listener) BY <1>1, <1>3, <1>4, IsASeq
<1>6. DOMAIN flagged = 1..Len(array) BY <1>1
<1>7. Len(flagged) = Len(array) BY <1>1, <1>5, <1>6, LenProperties
<1> QED BY <1>3, <1>5, <1>6, <1>7

LEMMA ListenArray ==
    ASSUME NEW array \in Seq(Listener), NEW fn \in Fns
    PROVE /\ Listen(array, fn) \in Seq(Listener)
          /\ Len(Listen(array, fn)) >= Len(array)
          /\ (\A i \in DOMAIN array : Present(array[i])) =>
                \A i \in DOMAIN Listen(array, fn) : Present(Listen(array, fn)[i])
<1>1. PICK e : e = [fn |-> fn, once |-> FALSE, removed |-> FALSE] OBVIOUS
<1>2. e \in Listener /\ Present(e) BY <1>1 DEF Listener, Present
<1>3. Listen(array, fn) \in {array, Append(array, e)} BY <1>1 DEF Listen
<1> HIDE DEF Listener
<1>4. /\ Append(array, e) \in Seq(Listener)
      /\ Len(Append(array, e)) = Len(array) + 1
      /\ \A i \in 1..Len(array) : Append(array, e)[i] = array[i]
      /\ Append(array, e)[Len(array) + 1] = e
  BY <1>2, AppendProperties
<1>5. DOMAIN Append(array, e) = 1..(Len(array) + 1) /\ DOMAIN array = 1..Len(array)
      /\ Len(array) \in Nat
  BY <1>4, LenProperties
<1>6. \A i \in 1..(Len(array) + 1) : i \in 1..Len(array) \/ i = Len(array) + 1 BY <1>5
<1>7. (\A i \in DOMAIN array : Present(array[i])) =>
        \A i \in DOMAIN Append(array, e) : Present(Append(array, e)[i])
  BY <1>2, <1>4, <1>5, <1>6
<1> QED BY <1>3, <1>4, <1>5, <1>7

-----------------------------------------------------------------------------
(* The inductive invariant, for a stack that may be the rest of the present one.  *)

EventsOK ==
    /\ listeners \in [Types -> Seq(Listener)]
    /\ locked \in [Types -> Nat]

NumbersOK ==
    /\ xhr \in Nat /\ requests \in Nat
    /\ xhr <= requests /\ requests <= MaxRequests
    /\ timer \in Nat /\ rechecks \in Nat /\ state \in 0..4

FlagsOK ==
    /\ active \in BOOLEAN /\ inSend \in BOOLEAN /\ reported \in BOOLEAN
    /\ sent \in BOOLEAN /\ good \in BOOLEAN /\ disposed \in BOOLEAN
    /\ throwing \in BOOLEAN /\ thrown \in BOOLEAN

MonitorOK ==
    /\ contexts \in Seq(Requests)
    /\ blocked \subseteq Requests \X Requests

LogOK ==
    /\ log \in [Requests -> Seq(EventTypes)]
    /\ \A r \in timed : r \in Nat /\ r <= requests

VarsOK == EventsOK /\ NumbersOK /\ FlagsOK /\ MonitorOK /\ LogOK

Base(s) ==
    /\ VarsOK
    /\ s \in Seq(Frame)
    /\ Counted(s, locked) /\ Inside(s, listeners)
    /\ Clean(listeners, locked, disposed)

LEMMA Frames ==
    /\ \A n \in Plain : Op(n) \in Frame /\ Op(n).op = n
    /\ \A r \in Nat : /\ Ready(r) \in Frame /\ Ready(r).op = "dispatch"
                      /\ Ready(r).type = "ready" /\ Ready(r).req = r
                      /\ Closed(r) \in Frame /\ Closed(r).op = "closed" /\ Closed(r).req = r
    /\ xhr \in Nat => \A t \in EventTypes :
            /\ Dispatch(t) \in Frame /\ Dispatch(t).op = "dispatch"
            /\ Dispatch(t).type = t /\ Dispatch(t).req = xhr
  BY DEF Frame, Op, Ready, Closed, Dispatch, EventTypes

LEMMA Tuples ==
    /\ <<>> \in Seq(Frame) /\ Len(<<>>) = 0
    /\ \A a \in Frame : <<a>> \in Seq(Frame) /\ Len(<<a>>) = 1 /\ <<a>>[1] = a
    /\ \A a, b \in Frame : /\ <<a, b>> \in Seq(Frame) /\ Len(<<a, b>>) = 2
                           /\ <<a, b>>[1] = a /\ <<a, b>>[2] = b
    /\ \A a, b, c \in Frame :
            /\ <<a, b, c>> \in Seq(Frame) /\ Len(<<a, b, c>>) = 3
            /\ <<a, b, c>>[1] = a /\ <<a, b, c>>[2] = b /\ <<a, b, c>>[3] = c
<1> HIDE DEF Frame
<1> QED OBVIOUS

Quiet(p) == p \in Seq(Frame) /\ \A i \in 1..Len(p) : p[i].op # "walk"

LEMMA QuietTuples ==
    /\ Quiet(<<>>)
    /\ \A a \in Frame : a.op # "walk" => Quiet(<<a>>)
    /\ \A a, b \in Frame : a.op # "walk" /\ b.op # "walk" => Quiet(<<a, b>>)
    /\ \A a, b, c \in Frame :
            a.op # "walk" /\ b.op # "walk" /\ c.op # "walk" => Quiet(<<a, b, c>>)
<1>1. Quiet(<<>>) BY Tuples DEF Quiet
<1>2. ASSUME NEW a \in Frame, a.op # "walk" PROVE Quiet(<<a>>)
  BY <1>2, Tuples DEF Quiet
<1>3. ASSUME NEW a \in Frame, NEW b \in Frame, a.op # "walk", b.op # "walk" PROVE Quiet(<<a, b>>)
  <2>1. \A i \in 1..2 : i = 1 \/ i = 2 OBVIOUS
  <2> QED BY <1>3, <2>1, Tuples DEF Quiet
<1>4. ASSUME NEW a \in Frame, NEW b \in Frame, NEW c \in Frame,
             a.op # "walk", b.op # "walk", c.op # "walk"
      PROVE Quiet(<<a, b, c>>)
  <2>1. \A i \in 1..3 : i = 1 \/ i = 2 \/ i = 3 OBVIOUS
  <2> QED BY <1>4, <2>1, Tuples DEF Quiet
<1> QED BY <1>1, <1>2, <1>3, <1>4

LEMMA QuietBase ==
    ASSUME NEW r, Base(r), NEW p, Quiet(p), todo' = p \o r, VarsOK',
           UNCHANGED <<listeners, locked>>, disposed' => disposed
    PROVE Base(todo)' /\ Pushed(todo', p, r)
<1>1. p \in Seq(Frame) /\ r \in Seq(Frame) BY DEF Quiet, Base
<1>2. PICK s \in Seq(Frame) : s = p \o r /\ Pushed(s, p, r)
  <2> HIDE DEF Frame
  <2> QED BY <1>1, PushIsPushed, ConcatProperties
<1>3. Counted(s, locked) BY <1>1, <1>2, CountedPush DEF Quiet, Base
<1>4. Inside(p, listeners) BY DEF Inside, Quiet
<1>5. Inside(s, listeners) BY <1>1, <1>2, <1>4, InsidePush DEF Base
<1>6. Clean(listeners, locked, disposed') BY DEF Base, Clean
<1> QED BY <1>2, <1>3, <1>5, <1>6 DEF Base

LEMMA PopBase ==
    ASSUME Base(todo), todo # <<>>, todo[1].op # "walk"
    PROVE Base(Tail(todo))
<1>1. todo \in Seq(Frame) BY DEF Base
<1>2. Tail(todo) \in Seq(Frame) BY <1>1, TailIsPopped
<1>3. Counted(Tail(todo), locked) BY <1>1, CountedPop DEF Base
<1>4. Inside(Tail(todo), listeners) BY <1>1, InsidePop DEF Base
<1> QED BY <1>2, <1>3, <1>4 DEF Base

\* A step that takes off the head and pushes "p".
LEMMA ReplaceBase ==
    ASSUME Base(todo), todo # <<>>, todo[1].op # "walk", NEW p, Quiet(p),
           todo' = p \o Tail(todo), VarsOK', UNCHANGED <<listeners, locked, disposed>>
    PROVE Base(todo)' /\ Pushed(todo', p, Tail(todo))
<1>1. PICK r : r = Tail(todo) OBVIOUS
<1>2. Base(r) BY <1>1, PopBase
<1>3. todo' = p \o r BY <1>1
<1> HIDE DEF Base, VarsOK
<1>4. Base(todo)' /\ Pushed(todo', p, r) BY <1>2, <1>3, QuietBase
<1> QED BY <1>1, <1>4

LEMMA DropBase ==
    ASSUME Base(todo), todo # <<>>, todo[1].op # "walk",
           todo' = Tail(todo), VarsOK', UNCHANGED <<listeners, locked, disposed>>
    PROVE Base(todo)'
<1>1. Base(Tail(todo)) BY PopBase
<1> QED BY <1>1 DEF Base

\* What a listener leaves behind when it returns.
LEMMA AfterCallFrames ==
    ASSUME Base(todo), todo # <<>>, todo[1].op = "walk", ~AtEnd(todo[1])
    PROVE LET p == AfterCall(todo[1])
          IN  /\ p \in Seq(Frame) /\ Len(p) \in {1, 2}
              /\ p[Len(p)] = [todo[1] EXCEPT !.at = @ + 1]
              /\ p[Len(p)].op = "walk" /\ p[Len(p)].type = todo[1].type
              /\ p[Len(p)].len = todo[1].len
              /\ Len(p) = 2 => p[1].op = "once"
<1>1. PICK w : w = todo[1] OBVIOUS
<1>2. w \in Frame /\ w.op = "walk" BY <1>1, TailIsPopped DEF Base
<1>3. w \in [op : {"walk"}, type : Types, at : Nat \ {0}, len : Nat]
  BY <1>2 DEF Frame, Plain
<1>4. PICK v : v = [w EXCEPT !.at = @ + 1] OBVIOUS
<1>5. /\ v \in [op : {"walk"}, type : Types, at : Nat \ {0}, len : Nat]
      /\ v.op = "walk" /\ v.type = w.type /\ v.len = w.len
  BY <1>3, <1>4
<1>6. PICK o : o = Once(w.type, w.at) OBVIOUS
<1>7. o \in Frame /\ o.op = "once" BY <1>3, <1>6 DEF Once, Frame
<1>8. v \in Frame BY <1>5 DEF Frame
<1> HIDE DEF Frame
<1>9. AfterCall(w) = (IF listeners[w.type][w.at].once THEN <<o>> ELSE <<>>) \o <<v>>
  BY <1>4, <1>6 DEF AfterCall
<1>a. PICK a \in Seq(Frame) : a = <<o>> /\ Len(a) = 1 /\ a[1] = o
  <2>1. <<o>> \in Seq(Frame) /\ Len(<<o>>) = 1 /\ <<o>>[1] = o BY <1>7, Tuples
  <2> QED BY <2>1, Zenon
<1>b. PICK b \in Seq(Frame) : b = <<v>> /\ Len(b) = 1 /\ b[1] = v
  <2>1. <<v>> \in Seq(Frame) /\ Len(<<v>>) = 1 /\ <<v>>[1] = v BY <1>8, Tuples
  <2> QED BY <2>1, Zenon
<1>11. /\ a \o b \in Seq(Frame) /\ Len(a \o b) = 2
       /\ (a \o b)[1] = o /\ (a \o b)[2] = v
  <2>1. /\ a \o b \in Seq(Frame) /\ Len(a \o b) = Len(a) + Len(b)
        /\ \A i \in 1..Len(a) : (a \o b)[i] = a[i]
        /\ \A i \in 1..Len(b) : (a \o b)[i + Len(a)] = b[i]
    BY PushIsPushed, ConcatProperties DEF Pushed
  <2>2. 1 \in 1..1 /\ 1 + 1 = 2 OBVIOUS
  <2> QED BY <1>a, <1>b, <2>1, <2>2
<1>12. <<>> \o b = b BY ConcatEmptySeq
<1>13. AfterCall(w) = a \o b \/ AfterCall(w) = b BY <1>9, <1>a, <1>b, <1>12
<1>14. CASE AfterCall(w) = a \o b BY <1>1, <1>4, <1>5, <1>7, <1>11, <1>14
<1>15. CASE AfterCall(w) = b BY <1>1, <1>4, <1>5, <1>a, <1>b, <1>15
<1> QED BY <1>13, <1>14, <1>15

LEMMA WalkBase ==
    ASSUME Base(todo), todo # <<>>, todo[1].op = "walk",
           NEW p \in Seq(Frame), Len(p) \in {1, 2}, p[Len(p)].op = "walk",
           p[Len(p)].type = todo[1].type, p[Len(p)].len = todo[1].len,
           Len(p) = 2 => p[1].op = "once"
    PROVE Base(p \o Tail(todo)) /\ Pushed(p \o Tail(todo), p, Tail(todo))
<1>1. todo \in Seq(Frame) /\ Tail(todo) \in Seq(Frame) BY TailIsPopped DEF Base
<1>2. PICK s \in Seq(Frame) : s = p \o Tail(todo) /\ Pushed(s, p, Tail(todo))
  <2> HIDE DEF Frame
  <2> QED BY <1>1, PushIsPushed, ConcatProperties
<1>3. PICK k \in 1..Len(p) : k = Len(p) OBVIOUS
<1>4. \A i \in 1..Len(p) : i # k => p[i].op # "walk" BY <1>3
<1>5. Counted(s, locked) BY <1>1, <1>2, <1>3, <1>4, CountedReplace DEF Base
<1>6. todo[1].len <= Len(listeners[todo[1].type])
  BY <1>1, LenProperties, EmptySeq DEF Base, Inside
<1>7. Inside(p, listeners) BY <1>3, <1>4, <1>6 DEF Inside
<1>8. Inside(Tail(todo), listeners) BY <1>1, InsidePop DEF Base
<1>9. Inside(s, listeners) BY <1>1, <1>2, <1>7, <1>8, InsidePush
<1> QED BY <1>2, <1>5, <1>9 DEF Base

LEMMA ReturnBase ==
    ASSUME Base(todo), Doing("walk"), ~AtEnd(todo[1])
    PROVE /\ Base(AfterCall(todo[1]) \o Tail(todo))
          /\ Pushed(AfterCall(todo[1]) \o Tail(todo), AfterCall(todo[1]), Tail(todo))
<1>0. todo # <<>> /\ todo[1].op = "walk" BY DEF Doing
<1>1. PICK p : p = AfterCall(todo[1]) OBVIOUS
<1>2. /\ p \in Seq(Frame) /\ Len(p) \in {1, 2}
      /\ p[Len(p)].op = "walk" /\ p[Len(p)].type = todo[1].type
      /\ p[Len(p)].len = todo[1].len
      /\ Len(p) = 2 => p[1].op = "once"
  BY <1>0, <1>1, AfterCallFrames
<1> HIDE DEF Base
<1>3. Base(p \o Tail(todo)) /\ Pushed(p \o Tail(todo), p, Tail(todo)) BY <1>0, <1>2, WalkBase
<1> QED BY <1>1, <1>3

-----------------------------------------------------------------------------
(* The beginning, and the calls of the application.  *)

LEMMA InsideKept ==
    ASSUME NEW r \in Seq(Frame), NEW lk, Counted(r, lk), NEW ls, NEW new,
           Inside(r, ls), ls \in [Types -> Seq(Listener)], new \in [Types -> Seq(Listener)],
           \A t \in Types : lk[t] # 0 => Len(new[t]) >= Len(ls[t])
    PROVE Inside(r, new)
<1> SUFFICES ASSUME NEW i \in 1..Len(r), r[i].op = "walk"
             PROVE r[i].len <= Len(new[r[i].type])
  BY DEF Inside
<1>1. r[i] \in Frame BY ElementOfSeq
<1>2. PICK t \in Types : t = r[i].type BY <1>1, WalkFrames
<1>3. i \in Places(r, Walks(t)) BY <1>1, <1>2, WalkFrames DEF Places
<1>4. r[i].len \in Nat BY <1>1, WalkFrames
<1> HIDE DEF Frame, Listener
<1>5. Cardinality(Places(r, Walks(t))) # 0 BY <1>3, PlacesFinite, FS_EmptySet
<1>6. Len(new[t]) >= Len(ls[t]) BY <1>5 DEF Counted
<1>7. Len(new[t]) \in Nat /\ Len(ls[t]) \in Nat BY LenProperties
<1> QED BY <1>2, <1>4, <1>6, <1>7 DEF Inside

LEMMA InitBase == Init => Base(todo)
<1> SUFFICES ASSUME Init PROVE Base(todo) OBVIOUS
<1> USE DEF Init, InitEvents
<1>1. VarsOK
  <2>1. EventsOK BY RegisteredAssumption DEF EventsOK
  <2>2. NumbersOK BY BoundsAssumption DEF NumbersOK, None
  <2>3. FlagsOK BY DEF FlagsOK
  <2>4. MonitorOK BY DEF MonitorOK
  <2>5. LogOK BY DEF LogOK
  <2> QED BY <2>1, <2>2, <2>3, <2>4, <2>5 DEF VarsOK
<1>2. Places(todo, {}) = {} BY DEF Places
<1>3. Counted(todo, locked)
  <2>1. \A t \in Types : Places(todo, Walks(t)) = {} BY DEF Places
  <2> QED BY <2>1, FS_EmptySet DEF Counted
<1>4. Inside(todo, listeners) BY DEF Inside
<1>5. Clean(listeners, locked, disposed) BY RegisteredAssumption DEF Clean, Present
<1>6. todo \in Seq(Frame) BY Tuples
<1> QED BY <1>1, <1>3, <1>4, <1>5, <1>6 DEF Base

-----------------------------------------------------------------------------
(* Calls of the application: "r" is what the script does afterwards.         *)

LEMMA ThrowBase == ASSUME NEW r, Base(r), Throw(r) PROVE Base(todo)'
  BY DEF Throw, Base, VarsOK, EventsOK, NumbersOK, FlagsOK, MonitorOK, LogOK,
         events, io, native, monitor, history, Clean

LEMMA MarkOpenType ==
    ASSUME MonitorOK, NEW q \in Requests PROVE MarkOpen(q) \subseteq Requests \X Requests
<1>1. \A i \in DOMAIN contexts : contexts[i] \in Requests
  BY ElementOfSeq, LenProperties DEF MonitorOK
<1> QED BY <1>1 DEF MarkOpen, MonitorOK

LEMMA SendBase ==
    ASSUME NEW r, Base(r), Send(r), xhr = None
    PROVE /\ Base(todo)'
          /\ \E p : /\ Pushed(todo', p, r)
                    /\ p \in {<<Op("change"), Op("opened")>>, <<Op("failed")>>}
<1>1. requests + 1 \in Requests BY BoundsAssumption DEF Send, Base, VarsOK, NumbersOK, Requests
<1>2. MarkOpen(requests + 1) \subseteq Requests \X Requests
  BY <1>1, MarkOpenType DEF Base, VarsOK
<1>3. VarsOK'
  <2>1. EventsOK' BY <1>1, <1>2, BoundsAssumption DEF Base, VarsOK, EventsOK, Send, events, fault, Requests, None
  <2>2. NumbersOK' BY <1>1, <1>2, BoundsAssumption DEF Base, VarsOK, NumbersOK, Send, events, fault, Requests, None
  <2>3. FlagsOK' BY <1>1, <1>2, BoundsAssumption DEF Base, VarsOK, FlagsOK, Send, events, fault, Requests, None
  <2>4. MonitorOK' BY <1>1, <1>2, BoundsAssumption DEF Base, VarsOK, MonitorOK, Send, events, fault, Requests, None
  <2>5. LogOK'
    <3>1. requests \in Nat BY DEF Base, VarsOK, NumbersOK
    <3>2. requests' = requests + 1 /\ UNCHANGED <<log, timed>> BY DEF Send
    <3>3. LogOK BY DEF Base, VarsOK
    <3> QED BY <3>1, <3>2, <3>3 DEF LogOK
  <2> QED BY <2>1, <2>2, <2>3, <2>4, <2>5 DEF VarsOK
<1>4. PICK p : /\ p \in {<<Op("change"), Op("opened")>>, <<Op("failed")>>}
               /\ todo' = p \o r
  BY DEF Send
<1>5. Quiet(p) BY <1>4, Frames, QuietTuples DEF Plain
<1>6. UNCHANGED <<listeners, locked, disposed>> BY DEF Send, events
<1> HIDE DEF Base
<1>7. Base(todo)' /\ Pushed(todo', p, r) BY <1>3, <1>4, <1>5, <1>6, QuietBase
<1> QED BY <1>4, <1>7

AbortEvents == <<Dispatch("complete"), Dispatch("abort"), Op("cleanUp")>>

LEMMA AbortBase ==
    ASSUME NEW r, Base(r), Abort(r)
    PROVE Base(todo)' /\ Pushed(todo', AbortEvents, r)
<1>1. VarsOK'
  <2>1. EventsOK' BY DEF Base, VarsOK, EventsOK, Abort, events, fault, monitor, history
  <2>2. NumbersOK' BY DEF Base, VarsOK, NumbersOK, Abort, events, fault, monitor, history
  <2>3. FlagsOK' BY DEF Base, VarsOK, FlagsOK, Abort, events, fault, monitor, history
  <2>4. MonitorOK' BY DEF Base, VarsOK, MonitorOK, Abort, events, fault, monitor, history
  <2>5. LogOK' BY DEF Base, VarsOK, LogOK, Abort, events, fault, monitor, history
  <2> QED BY <2>1, <2>2, <2>3, <2>4, <2>5 DEF VarsOK
<1>2. PICK p : p = AbortEvents /\ todo' = p \o r BY DEF Abort, AbortEvents
<1>3. Quiet(p) BY <1>2, Frames, QuietTuples DEF Plain, AbortEvents, EventTypes, Base, VarsOK, NumbersOK
<1>4. UNCHANGED <<listeners, locked, disposed>> BY DEF Abort, events
<1> HIDE DEF Base
<1>5. Base(todo)' /\ Pushed(todo', p, r) BY <1>1, <1>2, <1>3, <1>4, QuietBase
<1> QED BY <1>2, <1>5

LEMMA DisposeBase == ASSUME NEW r, Base(r), Dispose(r) PROVE Base(todo)'
<1>1. \A t \in Types : listeners[t] \in Seq(Listener) /\ locked[t] \in Nat
  BY DEF Base, VarsOK, EventsOK
<1> DEFINE flagged(t) == [i \in DOMAIN listeners[t] |->
                             [listeners[t][i] EXCEPT !.removed = TRUE]]
<1>2. ASSUME NEW t \in Types
      PROVE /\ flagged(t) \in Seq(Listener) /\ Len(flagged(t)) = Len(listeners[t])
            /\ \A i \in DOMAIN flagged(t) : ~Present(flagged(t)[i])
  <2>1. PICK f : f = flagged(t) OBVIOUS
  <2>2. /\ f \in Seq(Listener) /\ Len(f) = Len(listeners[t])
        /\ \A i \in DOMAIN f : ~Present(f[i])
    BY <1>1, <2>1, FlaggedArray
  <2> QED BY <2>1, <2>2
<1>3. listeners' = [t \in Types |-> CleanUp(flagged(t), locked[t])] BY DEF Dispose, RemoveAll
<1> HIDE DEF flagged
<1>4. ASSUME NEW t \in Types
      PROVE /\ listeners'[t] \in Seq(Listener)
            /\ locked[t] # 0 => Len(listeners'[t]) >= Len(listeners[t])
            /\ \A i \in DOMAIN listeners'[t] : ~Present(listeners'[t][i])
            /\ locked[t] = 0 => \A i \in DOMAIN listeners'[t] : Present(listeners'[t][i])
  <2>1. listeners'[t] = CleanUp(flagged(t), locked[t]) BY <1>3
  <2>2. Len(listeners[t]) \in Nat BY <1>1, LenProperties
  <2>3. PICK f \in Seq(Listener) : f = flagged(t) BY <1>2
  <2>4. Len(f) = Len(listeners[t]) /\ \A i \in DOMAIN f : ~Present(f[i]) BY <1>2, <2>3
  <2>5. PICK n \in Nat : n = locked[t] BY <1>1
  <2> HIDE DEF Listener
  <2>6. PICK c : c = CleanUp(f, n) OBVIOUS
  <2>7. /\ c \in Seq(Listener)
        /\ n # 0 => c = f
        /\ n = 0 => \A i \in DOMAIN c : Present(c[i])
        /\ \A i \in DOMAIN c : ~Present(c[i])
    BY <2>4, <2>6, CleanUpArray
  <2>8. listeners'[t] = c BY <2>1, <2>3, <2>5, <2>6
  <2>9. locked[t] # 0 => Len(c) >= Len(listeners[t]) BY <2>2, <2>4, <2>5, <2>7
  <2> QED BY <2>5, <2>7, <2>8, <2>9
<1>5. listeners' \in [Types -> Seq(Listener)]
  <2>1. listeners' = [t \in Types |-> listeners'[t]] BY <1>3
  <2> HIDE DEF Listener
  <2> QED BY <1>4, <2>1
<1>6. UNCHANGED locked /\ disposed' = TRUE /\ todo' = r BY DEF Dispose
<1>7. MonitorOK' BY DEF Dispose, Base, VarsOK, MonitorOK, MarkClosed
<1>8. VarsOK'
  <2>1. EventsOK' BY <1>5, <1>7 DEF Base, VarsOK, EventsOK, Dispose, fault, history, None
  <2>2. NumbersOK' BY <1>5, <1>7 DEF Base, VarsOK, NumbersOK, Dispose, fault, history, None
  <2>3. FlagsOK' BY <1>5, <1>7 DEF Base, VarsOK, FlagsOK, Dispose, fault, history, None
  <2>4. MonitorOK' BY <1>5, <1>7 DEF Base, VarsOK, MonitorOK, Dispose, fault, history, None
  <2>5. LogOK' BY <1>5, <1>7 DEF Base, VarsOK, LogOK, Dispose, fault, history, None
  <2> QED BY <2>1, <2>2, <2>3, <2>4, <2>5 DEF VarsOK
<1>9. Inside(r, listeners')
  <2>1. listeners \in [Types -> Seq(Listener)] BY DEF Base, VarsOK, EventsOK
  <2> QED BY <1>4, <1>5, <2>1, InsideKept DEF Base
<1>10. Clean(listeners', locked', disposed') BY <1>4, <1>6 DEF Clean
<1> QED BY <1>6, <1>8, <1>9, <1>10 DEF Base

LEMMA RelistenBase ==
    ASSUME NEW r, Base(r), NEW t \in Types, NEW fn \in Fns, Relisten(t, fn, r), ~disposed
    PROVE Base(todo)'
<1>1. \A u \in Types : listeners[u] \in Seq(Listener) /\ Len(listeners[u]) \in Nat
  BY LenProperties DEF Base, VarsOK, EventsOK
<1>2. listeners' = [listeners EXCEPT ![t] = Listen(listeners[t], fn)] /\ todo' = r
      /\ UNCHANGED <<locked, disposed>>
  BY DEF Relisten
<1>3. listeners \in [Types -> Seq(Listener)] BY DEF Base, VarsOK, EventsOK
<1>4. /\ Listen(listeners[t], fn) \in Seq(Listener)
      /\ Len(Listen(listeners[t], fn)) >= Len(listeners[t])
      /\ (\A i \in DOMAIN listeners[t] : Present(listeners[t][i])) =>
            \A i \in DOMAIN Listen(listeners[t], fn) : Present(Listen(listeners[t], fn)[i])
  BY <1>1, ListenArray
<1>5. listeners' \in [Types -> Seq(Listener)]
  <2> HIDE DEF Listener
  <2> QED BY <1>2, <1>3, <1>4
<1>6. \A u \in Types : listeners'[u] = IF u = t THEN Listen(listeners[t], fn) ELSE listeners[u]
  BY <1>2, <1>3
<1>7. Inside(r, listeners')
  <2>1. \A u \in Types : Len(listeners'[u]) >= Len(listeners[u]) BY <1>1, <1>4, <1>6
  <2>2. r \in Seq(Frame) /\ Counted(r, locked) /\ Inside(r, listeners) BY DEF Base
  <2> QED BY <1>3, <1>5, <2>1, <2>2, InsideKept
<1>8. Clean(listeners', locked', disposed') BY <1>2, <1>4, <1>6 DEF Clean, Base
<1>9. VarsOK'
  BY <1>5 DEF Relisten, Base, VarsOK, EventsOK, NumbersOK, FlagsOK, MonitorOK, LogOK,
              io, native, monitor, fault, history
<1> QED BY <1>2, <1>7, <1>8, <1>9 DEF Base

-----------------------------------------------------------------------------
(* The steps of a walk.  *)

Others == NumbersOK /\ FlagsOK /\ MonitorOK /\ LogOK

LEMMA SkipBase ==
    ASSUME Base(todo), Skip, UNCHANGED <<io, native, disposed, monitor, fault, history>>
    PROVE /\ Base(todo)'
          /\ \E p : p.op = "walk" /\ Pushed(todo', <<p>>, Tail(todo))
<1>1. todo # <<>> /\ todo[1].op = "walk" BY DEF Skip, Doing
<1>2. PICK w : w = todo[1] OBVIOUS
<1>3. w \in Frame BY <1>1, <1>2, TailIsPopped DEF Base
<1>4. w \in [op : {"walk"}, type : Types, at : Nat \ {0}, len : Nat]
  BY <1>1, <1>2, <1>3 DEF Frame, Plain
<1>5. PICK v : v = [w EXCEPT !.at = w.at + 1] OBVIOUS
<1>6. v \in Frame /\ v.op = "walk" /\ v.type = w.type /\ v.len = w.len BY <1>4, <1>5 DEF Frame
<1> HIDE DEF Frame
<1>7. PICK p \in Seq(Frame) : p = <<v>> /\ Len(p) = 1 /\ p[1] = v
  <2>1. <<v>> \in Seq(Frame) /\ Len(<<v>>) = 1 /\ <<v>>[1] = v BY <1>6, Tuples
  <2> QED BY <2>1, Zenon
<1>8. Base(p \o Tail(todo)) /\ Pushed(p \o Tail(todo), p, Tail(todo))
  <2>1. /\ Len(p) \in {1, 2} /\ p[Len(p)].op = "walk" /\ p[Len(p)].type = todo[1].type
        /\ p[Len(p)].len = todo[1].len
        /\ Len(p) = 2 => p[1].op = "once"
    BY <1>2, <1>6, <1>7
  <2> HIDE DEF Base
  <2> QED BY <1>1, <2>1, WalkBase
<1>9. todo' = p \o Tail(todo) BY <1>2, <1>5, <1>7 DEF Skip, Push
<1>10. VarsOK'
  <2>1. EventsOK' BY DEF Base, VarsOK, EventsOK, Skip, events, io, native, monitor, fault, history
  <2>2. NumbersOK' BY DEF Base, VarsOK, NumbersOK, Skip, events, io, native, monitor, fault, history
  <2>3. FlagsOK' BY DEF Base, VarsOK, FlagsOK, Skip, events, io, native, monitor, fault, history
  <2>4. MonitorOK' BY DEF Base, VarsOK, MonitorOK, Skip, events, io, native, monitor, fault, history
  <2>5. LogOK' BY DEF Base, VarsOK, LogOK, Skip, events, io, native, monitor, fault, history
  <2> QED BY <2>1, <2>2, <2>3, <2>4, <2>5 DEF VarsOK
<1>11. UNCHANGED <<listeners, locked, disposed>> BY DEF Skip, events
<1> QED BY <1>6, <1>7, <1>8, <1>9, <1>10, <1>11 DEF Base

LEMMA UnlockBase ==
    ASSUME Base(todo), Doing("walk"), Unlock(todo[1].type), todo' = Tail(todo),
           Others', disposed' = disposed
    PROVE Base(todo)'
<1>1. todo # <<>> /\ todo[1].op = "walk" /\ todo \in Seq(Frame) /\ Tail(todo) \in Seq(Frame)
  BY TailIsPopped DEF Doing, Base
<1>2. PICK t : t = todo[1].type OBVIOUS
<1>3. locked \in [Types -> Nat] /\ listeners \in [Types -> Seq(Listener)]
  BY DEF Base, VarsOK, EventsOK
<1>4. /\ t \in Types /\ locked[t] - 1 \in Nat
      /\ Counted(Tail(todo), [locked EXCEPT ![t] = @ - 1])
  BY <1>1, <1>2, <1>3, CountedUnlock DEF Base
<1>5. locked' = [locked EXCEPT ![t] = @ - 1] BY <1>2 DEF Unlock
<1>6. locked' \in [Types -> Nat] /\ locked'[t] = locked[t] - 1 BY <1>3, <1>4, <1>5
<1>7. PICK a \in Seq(Listener) : a = listeners[t] BY <1>3, <1>4
<1>8. PICK n \in Nat : n = locked[t] - 1 BY <1>4
<1> HIDE DEF Listener, Frame
<1>9. PICK c : c = CleanUp(a, n) OBVIOUS
<1>10. /\ c \in Seq(Listener)
       /\ n # 0 => c = a
       /\ n = 0 => \A i \in DOMAIN c : Present(c[i])
       /\ (\A i \in DOMAIN a : ~Present(a[i])) => \A i \in DOMAIN c : ~Present(c[i])
  BY <1>9, CleanUpArray
<1>11. listeners' = [listeners EXCEPT ![t] = c] BY <1>2, <1>7, <1>8, <1>9 DEF Unlock
<1>12. listeners' \in [Types -> Seq(Listener)] BY <1>3, <1>4, <1>10, <1>11
<1>13. \A u \in Types : /\ listeners'[u] = IF u = t THEN c ELSE listeners[u]
                        /\ locked'[u] = IF u = t THEN n ELSE locked[u]
  BY <1>3, <1>5, <1>8, <1>11
<1>14. Inside(Tail(todo), listeners')
  <2>1. Inside(Tail(todo), listeners) BY <1>1, InsidePop DEF Base
  <2>2. \A u \in Types : Len(listeners[u]) \in Nat BY <1>3, LenProperties
  <2>3. \A u \in Types : locked'[u] # 0 => Len(listeners'[u]) >= Len(listeners[u])
    BY <1>7, <1>10, <1>13, <2>2
  <2>4. Counted(Tail(todo), locked') BY <1>4, <1>5
  <2> QED BY <1>1, <1>3, <1>12, <2>1, <2>3, <2>4, InsideKept
<1>15. Clean(listeners', locked', disposed') BY <1>7, <1>10, <1>13 DEF Clean, Base
<1>16. VarsOK' BY <1>6, <1>12 DEF VarsOK, EventsOK, Others
<1> QED BY <1>1, <1>4, <1>5, <1>14, <1>15, <1>16 DEF Base

LEMMA RemoveOnceBase ==
    ASSUME Base(todo), RemoveOnce, UNCHANGED <<io, native, disposed, monitor, fault, history>>
    PROVE Base(todo)'
<1>1. todo # <<>> /\ todo[1].op = "once" /\ todo \in Seq(Frame) BY DEF RemoveOnce, Doing, Base
<1>2. PICK o : o = todo[1] OBVIOUS
<1>3. o \in Frame BY <1>1, <1>2, TailIsPopped
<1>4. PICK t \in Types : t = o.type BY <1>1, <1>2, <1>3 DEF Frame, Plain
<1>5. locked \in [Types -> Nat] /\ listeners \in [Types -> Seq(Listener)]
  BY DEF Base, VarsOK, EventsOK
<1>6. PICK a \in Seq(Listener) : a = listeners[t] BY <1>5
<1>7. PICK n \in Nat : n = locked[t] BY <1>5
<1> HIDE DEF Listener, Frame
<1>8. PICK b : b = Unlisten(a, o.at) OBVIOUS
<1>9. /\ b \in Seq(Listener) /\ Len(b) = Len(a)
      /\ (\A i \in DOMAIN a : ~Present(a[i])) => \A i \in DOMAIN b : ~Present(b[i])
  BY <1>8, UnlistenArray
<1>10. PICK c : c = CleanUp(b, n) OBVIOUS
<1>11. /\ c \in Seq(Listener)
       /\ n # 0 => c = b
       /\ n = 0 => \A i \in DOMAIN c : Present(c[i])
       /\ (\A i \in DOMAIN b : ~Present(b[i])) => \A i \in DOMAIN c : ~Present(c[i])
  BY <1>9, <1>10, CleanUpArray
<1>12. listeners' = [listeners EXCEPT ![t] = c] /\ todo' = Tail(todo) /\ UNCHANGED <<locked, disposed>>
  BY <1>2, <1>4, <1>6, <1>7, <1>8, <1>10 DEF RemoveOnce
<1>13. \A u \in Types : listeners'[u] = IF u = t THEN c ELSE listeners[u]
  BY <1>5, <1>12
<1>14. listeners' \in [Types -> Seq(Listener)] BY <1>5, <1>11, <1>12
<1>15. Base(Tail(todo)) BY <1>1, PopBase
<1>16. Inside(Tail(todo), listeners')
  <2>1. \A u \in Types : Len(listeners[u]) \in Nat BY <1>5, LenProperties
  <2>2. \A u \in Types : locked[u] # 0 => Len(listeners'[u]) >= Len(listeners[u])
    BY <1>6, <1>7, <1>9, <1>11, <1>13, <2>1
  <2> QED BY <1>5, <1>14, <1>15, <2>2, InsideKept DEF Base
<1>17. Clean(listeners', locked', disposed') BY <1>6, <1>7, <1>9, <1>11, <1>12, <1>13 DEF Clean, Base
<1>18. EventsOK' BY <1>5, <1>12, <1>14 DEF EventsOK
<1>19. NumbersOK' BY DEF RemoveOnce, Base, VarsOK, NumbersOK, io, native, history
<1>20. FlagsOK' BY DEF RemoveOnce, Base, VarsOK, FlagsOK, io, native, fault
<1>21. MonitorOK' /\ LogOK' BY DEF RemoveOnce, Base, VarsOK, MonitorOK, LogOK, monitor, history
<1> QED BY <1>12, <1>15, <1>16, <1>17, <1>18, <1>19, <1>20, <1>21 DEF Base, VarsOK

LEMMA DispatchBase ==
    ASSUME Base(todo), DispatchEvent
    PROVE /\ Base(todo)'
          /\ \E p \in Seq(Frame) :
                /\ Pushed(todo', p, Tail(todo))
                /\ Len(p) = IF xhr = None THEN 1 ELSE 2
                /\ p[1].op = "walk"
                /\ xhr # None => p[2] = Op("pop")
<1>1. todo # <<>> /\ todo[1].op = "dispatch" /\ todo \in Seq(Frame) BY DEF DispatchEvent, Doing, Base
<1>2. PICK d : d = todo[1] OBVIOUS
<1>3. d \in Frame BY <1>1, <1>2, TailIsPopped
<1>4. d.type \in EventTypes /\ d.req \in Nat BY <1>1, <1>2, <1>3 DEF Frame, Plain
<1>5. PICK t \in Types : t = d.type BY <1>4, TypesAssumption
<1>6. PICK s : s = Start(t) OBVIOUS
<1>7. listeners \in [Types -> Seq(Listener)] /\ locked \in [Types -> Nat]
  BY DEF Base, VarsOK, EventsOK
<1>8. Len(listeners[t]) \in Nat BY <1>7, LenProperties
<1>9. /\ s \in Frame /\ s.op = "walk" /\ s.type = t /\ s.len = Len(listeners[t])
  BY <1>6, <1>8 DEF Start, Walk, Frame
<1>10. PICK o \in Frame : o = Op("pop") /\ o.op = "pop" BY Frames DEF Plain
<1> HIDE DEF Frame, Listener
<1>11. PICK a \in Seq(Frame) : a = <<s>> /\ Len(a) = 1 /\ a[1] = s
  <2>1. <<s>> \in Seq(Frame) /\ Len(<<s>>) = 1 /\ <<s>>[1] = s BY <1>9, Tuples
  <2> QED BY <2>1, Zenon
<1>12. PICK b \in Seq(Frame) :
            /\ xhr = None => b = <<>> /\ Len(b) = 0
            /\ xhr # None => b = <<o>> /\ Len(b) = 1 /\ b[1] = o
  <2>1. CASE xhr = None
    <3>1. <<>> \in Seq(Frame) /\ Len(<<>>) = 0 BY Tuples
    <3>2. PICK e \in Seq(Frame) : e = <<>> /\ Len(e) = 0 BY <3>1, Zenon
    <3> QED BY <2>1, <3>2, Zenon
  <2>2. CASE xhr # None
    <3>1. <<o>> \in Seq(Frame) /\ Len(<<o>>) = 1 /\ <<o>>[1] = o BY <1>10, Tuples
    <3>2. PICK e \in Seq(Frame) : e = <<o>> /\ Len(e) = 1 /\ e[1] = o BY <3>1, Zenon
    <3> QED BY <2>2, <3>2, Zenon
  <2> QED BY <2>1, <2>2
<1>13. PICK p \in Seq(Frame) : p = a \o b /\ Pushed(p, a, b)
  BY PushIsPushed, ConcatProperties
<1>14. /\ Len(p) = IF xhr = None THEN 1 ELSE 2
       /\ p[1] = s
       /\ xhr # None => p[2] = o
  <2>1. Len(p) = Len(a) + Len(b) /\ \A i \in 1..Len(a) : p[i] = a[i]
    BY <1>13 DEF Pushed
  <2>2. \A i \in 1..Len(b) : p[i + Len(a)] = b[i] BY <1>13 DEF Pushed
  <2>3. 1 \in 1..1 /\ 1 + 1 = 2 OBVIOUS
  <2>4. Len(a) = 1 /\ a[1] = s BY <1>11, Zenon
  <2>5. (xhr = None => Len(b) = 0) /\ (xhr # None => Len(b) = 1 /\ b[1] = o) BY <1>12, Zenon
  <2> QED BY <2>1, <2>2, <2>3, <2>4, <2>5
<1>15. PICK q \in Seq(Frame) : q = Tail(todo) BY <1>1, TailIsPopped
<1>16. PICK r \in Seq(Frame) : r = p \o q /\ Pushed(r, p, q) BY PushIsPushed, ConcatProperties
<1>17. todo' = r
  BY <1>2, <1>5, <1>6, <1>10, <1>11, <1>12, <1>13, <1>15, <1>16 DEF DispatchEvent, Push
<1>18. Base(q) BY <1>1, <1>15, PopBase
<1>19. locked' = [locked EXCEPT ![t] = @ + 1] /\ UNCHANGED <<listeners, disposed>>
  BY <1>2, <1>5 DEF DispatchEvent, Lock
<1>20. \A i \in 1..Len(p) : i # 1 => p[i].op # "walk" BY <1>10, <1>14
<1>21. Counted(r, locked')
  <2>0. Len(p) >= 1 /\ p[1].op = "walk" /\ Counted(q, locked)
    BY <1>9, <1>14, <1>18 DEF Base
  <2>1. Counted(r, [locked EXCEPT ![p[1].type] = @ + 1])
    BY <1>7, <1>16, <1>20, <2>0, CountedLock
  <2> QED BY <1>9, <1>14, <1>19, <2>1
<1>22. Inside(p, listeners) BY <1>8, <1>9, <1>14, <1>20 DEF Inside
<1>23. Inside(r, listeners') BY <1>16, <1>18, <1>19, <1>22, InsidePush DEF Base
<1>24. locked' \in [Types -> Nat] BY <1>7, <1>19
<1>25. Clean(listeners', locked', disposed')
  <2>1. \A u \in Types : locked'[u] = 0 => locked[u] = 0 BY <1>7, <1>19
  <2> QED BY <1>19, <2>1 DEF Clean, Base
<1>26. EventsOK' BY <1>7, <1>19, <1>24 DEF EventsOK
<1>27. NumbersOK' BY DEF DispatchEvent, Base, VarsOK, NumbersOK, io, native, history
<1>28. FlagsOK' BY DEF DispatchEvent, Base, VarsOK, FlagsOK, io, native, fault
<1>29. MonitorOK'
  <2>1. xhr # None => xhr \in Requests
    BY BoundsAssumption DEF Base, VarsOK, NumbersOK, Requests, None
  <2>2. xhr # None => Append(contexts, xhr) \in Seq(Requests)
    BY <2>1, AppendProperties DEF Base, VarsOK, MonitorOK
  <2> QED BY <2>2 DEF DispatchEvent, Base, VarsOK, MonitorOK
<1>30. LogOK'
  <2>0. \A k \in timed' : k \in Nat /\ k <= requests'
    BY DEF DispatchEvent, Base, VarsOK, LogOK
  <2>1. CASE d.type = "change" \/ disposed BY <1>2, <2>1 DEF DispatchEvent, Base, VarsOK, LogOK
  <2>2. CASE ~(d.type = "change" \/ disposed)
    <3>1. log' = [log EXCEPT ![d.req] = Append(@, d.type)] BY <1>2, <2>2 DEF DispatchEvent
    <3>2. log \in [Requests -> Seq(EventTypes)] BY DEF Base, VarsOK, LogOK
    <3>3. d.req \in Requests => Append(log[d.req], d.type) \in Seq(EventTypes)
      BY <1>4, <3>2, AppendProperties
    <3> QED BY <2>0, <3>1, <3>2, <3>3 DEF LogOK
  <2> QED BY <2>1, <2>2
<1>31. VarsOK' BY <1>26, <1>27, <1>28, <1>29, <1>30 DEF VarsOK
<1>32. Base(todo)' BY <1>17, <1>21, <1>23, <1>25, <1>31 DEF Base
<1> QED BY <1>9, <1>10, <1>14, <1>15, <1>16, <1>17, <1>32

-----------------------------------------------------------------------------
(* The steps of XhrIo.  *)

LEMMA FrontType ==
    ASSUME NEW s \in Seq(Requests) PROVE Front(s) \in Seq(Requests)
<1>1. Len(s) \in Nat BY LenProperties
<1>2. \A i \in 1..Len(s) - 1 : s[i] \in Requests BY <1>1, ElementOfSeq
<1> HIDE DEF Requests
<1>3. SubSeq(s, 1, Len(s) - 1) \in Seq(Requests) BY <1>1, <1>2, SubSeqProperties
<1> QED BY <1>3 DEF Front

LEMMA PoppedType ==
    ASSUME MonitorOK PROVE Popped \subseteq Requests \X Requests
  BY DEF MonitorOK, Popped

LEMMA StackStep ==
    ASSUME Base(todo), todo # <<>>, NEW p \in Seq(Frame), todo' = p \o Tail(todo)
    PROVE Pushed(todo', p, Tail(todo))
<1>1. PICK q \in Seq(Frame) : q = Tail(todo) BY TailIsPopped DEF Base
<1> HIDE DEF Frame, Base
<1>2. Pushed(p \o q, p, q) BY PushIsPushed
<1> QED BY <1>1, <1>2

LEMMA PopContextBase == ASSUME Base(todo), PopContext PROVE Base(todo)'
<1>1. Popped \subseteq Requests \X Requests /\ Front(contexts) \in Seq(Requests)
  BY PoppedType, FrontType DEF Base, VarsOK, MonitorOK
<1>2. VarsOK'
  <2>1. EventsOK' BY <1>1 DEF Base, VarsOK, EventsOK, PopContext, events, io, native, fault, history
  <2>2. NumbersOK' BY <1>1 DEF Base, VarsOK, NumbersOK, PopContext, events, io, native, fault, history
  <2>3. FlagsOK' BY <1>1 DEF Base, VarsOK, FlagsOK, PopContext, events, io, native, fault, history
  <2>4. MonitorOK' BY <1>1 DEF Base, VarsOK, MonitorOK, PopContext, events, io, native, fault, history
  <2>5. LogOK' BY <1>1 DEF Base, VarsOK, LogOK, PopContext, events, io, native, fault, history
  <2> QED BY <2>1, <2>2, <2>3, <2>4, <2>5 DEF VarsOK
<1>3. todo # <<>> /\ todo[1].op # "walk" /\ todo' = Tail(todo)
  BY DEF PopContext, Doing
<1>4. UNCHANGED <<listeners, locked, disposed>> BY DEF PopContext, events
<1> HIDE DEF Base, VarsOK
<1> QED BY <1>2, <1>3, <1>4, DropBase

LEMMA StateChangeBase ==
    ASSUME Base(todo), StateChange
    PROVE /\ Base(todo)'
          /\ <<Dispatch("change"), Op("complete")>> \in Seq(Frame)
<1>1. VarsOK'
  <2>1. EventsOK' BY DEF Base, VarsOK, EventsOK, StateChange, events, io, monitor, fault, history
  <2>2. NumbersOK' BY DEF Base, VarsOK, NumbersOK, StateChange, events, io, monitor, fault, history
  <2>3. FlagsOK' BY DEF Base, VarsOK, FlagsOK, StateChange, events, io, monitor, fault, history
  <2>4. MonitorOK' BY DEF Base, VarsOK, MonitorOK, StateChange, events, io, monitor, fault, history
  <2>5. LogOK' BY DEF Base, VarsOK, LogOK, StateChange, events, io, monitor, fault, history
  <2> QED BY <2>1, <2>2, <2>3, <2>4, <2>5 DEF VarsOK
<1>2. todo # <<>> /\ todo[1].op # "walk" /\ UNCHANGED <<listeners, locked, disposed>>
  BY DEF StateChange, Doing, events
<1>3. PICK p : p = <<Dispatch("change"), Op("complete")>> OBVIOUS
<1>4. Quiet(p) BY <1>3, Frames, QuietTuples DEF Plain, EventTypes, Base, VarsOK, NumbersOK
<1>5. todo' = Tail(todo) \/ todo' = p \o Tail(todo) BY <1>3 DEF StateChange, Push
<1> HIDE DEF Base, VarsOK
<1>6. Base(todo)' BY <1>1, <1>2, <1>4, <1>5, DropBase, ReplaceBase
<1> QED BY <1>3, <1>4, <1>6 DEF Quiet

LEMMA QuietConcat ==
    ASSUME NEW p, Quiet(p), NEW q, Quiet(q) PROVE Quiet(p \o q)
<1>1. p \in Seq(Frame) /\ q \in Seq(Frame) BY DEF Quiet
<1> HIDE DEF Frame
<1>2. Pushed(p \o q, p, q) BY <1>1, PushIsPushed
<1>3. Len(p) \in Nat /\ Len(q) \in Nat BY <1>1, LenProperties
<1>4. ASSUME NEW i \in 1..Len(p \o q) PROVE (p \o q)[i].op # "walk"
  <2>1. CASE i <= Len(p) BY <1>2, <1>3, <2>1 DEF Pushed, Quiet
  <2>2. CASE i > Len(p)
    <3>1. i - Len(p) \in 1..Len(q) /\ i - Len(p) + Len(p) = i BY <1>2, <1>3, <2>2 DEF Pushed
    <3>2. (p \o q)[i] = q[i - Len(p)] BY <1>2, <3>1 DEF Pushed
    <3> QED BY <3>1, <3>2 DEF Quiet
  <2> QED BY <1>2, <1>3, <2>1, <2>2 DEF Pushed
<1> QED BY <1>2, <1>4 DEF Quiet, Pushed

LEMMA EndFrames ==
    ASSUME xhr \in Nat, NEW t \in EventTypes
    PROVE /\ Quiet(<<Dispatch("complete"), Dispatch(t)>>) /\ Quiet(<<>>)
          /\ Quiet(<<Op("cleanUp")>>)
  BY Frames, QuietTuples DEF Plain, EventTypes

LEMMA CheckCompleteBase == ASSUME Base(todo), CheckComplete PROVE Base(todo)'
<1>1. VarsOK'
  <2>1. EventsOK' BY DEF Base, VarsOK, EventsOK, CheckComplete, events, native, monitor, fault, history
  <2>2. NumbersOK' BY DEF Base, VarsOK, NumbersOK, CheckComplete, events, native, monitor, fault, history
  <2>3. FlagsOK' BY DEF Base, VarsOK, FlagsOK, CheckComplete, events, native, monitor, fault, history
  <2>4. MonitorOK' BY DEF Base, VarsOK, MonitorOK, CheckComplete, events, native, monitor, fault, history
  <2>5. LogOK' BY DEF Base, VarsOK, LogOK, CheckComplete, events, native, monitor, fault, history
  <2> QED BY <2>1, <2>2, <2>3, <2>4, <2>5 DEF VarsOK
<1>2. todo # <<>> /\ todo[1].op # "walk" /\ UNCHANGED <<listeners, locked, disposed>>
  BY DEF CheckComplete, Doing, events, native
<1>3. xhr \in Nat BY DEF Base, VarsOK, NumbersOK
<1> HIDE DEF Base, VarsOK
<1>4. CASE todo' = Tail(todo) BY <1>1, <1>2, <1>4, DropBase
<1>5. CASE todo' # Tail(todo)
  <2>1. PICK p : /\ p \in {<<Dispatch("complete"), Dispatch("success")>>, <<>>,
                            <<Dispatch("complete"), Dispatch("error")>>}
                 /\ todo' = (p \o <<Op("cleanUp")>>) \o Tail(todo)
    BY <1>5 DEF CheckComplete, Push
  <2>2. Quiet(p \o <<Op("cleanUp")>>)
    <3>1. Quiet(p) /\ Quiet(<<Op("cleanUp")>>) BY <1>3, <2>1, EndFrames DEF EventTypes
    <3> QED BY <3>1, QuietConcat
  <2> QED BY <1>1, <1>2, <2>1, <2>2, ReplaceBase
<1> QED BY <1>4, <1>5

LEMMA FailBase == ASSUME Base(todo), Fail PROVE Base(todo)'
<1>1. VarsOK'
  <2>1. EventsOK' BY DEF Base, VarsOK, EventsOK, Fail, events, monitor, fault, history
  <2>2. NumbersOK' BY DEF Base, VarsOK, NumbersOK, Fail, events, monitor, fault, history
  <2>3. FlagsOK' BY DEF Base, VarsOK, FlagsOK, Fail, events, monitor, fault, history
  <2>4. MonitorOK' BY DEF Base, VarsOK, MonitorOK, Fail, events, monitor, fault, history
  <2>5. LogOK' BY DEF Base, VarsOK, LogOK, Fail, events, monitor, fault, history
  <2> QED BY <2>1, <2>2, <2>3, <2>4, <2>5 DEF VarsOK
<1>2. todo # <<>> /\ todo[1].op # "walk" /\ UNCHANGED <<listeners, locked, disposed>>
  BY DEF Fail, Doing, events
<1>3. xhr \in Nat BY DEF Base, VarsOK, NumbersOK
<1> HIDE DEF Base, VarsOK
<1>4. PICK p : /\ p \in {<<>>, <<Dispatch("complete"), Dispatch("error")>>}
               /\ todo' = (p \o <<Op("cleanUp")>>) \o Tail(todo)
  BY DEF Fail, Push
<1>5. Quiet(p \o <<Op("cleanUp")>>)
  <2>1. Quiet(p) /\ Quiet(<<Op("cleanUp")>>) BY <1>3, <1>4, EndFrames DEF EventTypes
  <2> QED BY <2>1, QuietConcat
<1> QED BY <1>1, <1>2, <1>4, <1>5, ReplaceBase

LEMMA SendOpenedBase == ASSUME Base(todo), SendOpened PROVE Base(todo)'
<1>1. VarsOK'
  <2>1. EventsOK' BY DEF Base, VarsOK, EventsOK, SendOpened, SendThrows, SendsRequest, NativeSend, events, monitor, history
  <2>0. NumbersOK /\ LogOK BY DEF Base, VarsOK
  <2>a. /\ timer' \in {timer, xhr, None} /\ state' \in {state, 4}
        /\ \A k \in timed' : k \in timed \/ k = xhr
        /\ UNCHANGED <<xhr, requests, rechecks, log>>
    <3>1. CASE SendThrows BY <3>1 DEF SendOpened, SendThrows
    <3>2. CASE SendsRequest BY <3>2 DEF SendOpened, SendsRequest, NativeSend
    <3> QED BY <3>1, <3>2 DEF SendOpened
  <2>2. NumbersOK' BY <2>0, <2>a DEF NumbersOK, None
  <2>3. FlagsOK' BY DEF Base, VarsOK, FlagsOK, SendOpened, SendThrows, SendsRequest, NativeSend, events, monitor, history
  <2>4. MonitorOK' BY DEF Base, VarsOK, MonitorOK, SendOpened, SendThrows, SendsRequest, NativeSend, events, monitor, history
  <2>5. LogOK' BY <2>0, <2>a DEF NumbersOK, LogOK
  <2> QED BY <2>1, <2>2, <2>3, <2>4, <2>5 DEF VarsOK
<1>2. todo # <<>> /\ todo[1].op # "walk" /\ UNCHANGED <<listeners, locked, disposed>>
  BY DEF SendOpened, Doing, events
<1> HIDE DEF Base, VarsOK
<1>3. CASE SendThrows
  <2>1. todo' = Tail(todo) BY <1>3 DEF SendThrows
  <2> QED BY <1>1, <1>2, <2>1, DropBase
<1>4. CASE SendsRequest
  <2>1. PICK p : /\ p \in {<<Op("failed")>>, <<Op("sent")>>, <<Op("change"), Op("sent")>>}
                 /\ todo' = p \o Tail(todo)
    BY <1>4 DEF SendsRequest, NativeSend, Push
  <2>2. Quiet(p) BY <2>1, Frames, QuietTuples DEF Plain
  <2> QED BY <1>1, <1>2, <2>1, <2>2, ReplaceBase
<1> QED BY <1>3, <1>4 DEF SendOpened

LEMMA SendReturnsBase == ASSUME Base(todo), SendReturns PROVE Base(todo)'
<1>1. VarsOK'
  <2>1. EventsOK' BY DEF Base, VarsOK, EventsOK, SendReturns, events, native, monitor, history
  <2>2. NumbersOK' BY DEF Base, VarsOK, NumbersOK, SendReturns, events, native, monitor, history
  <2>3. FlagsOK' BY DEF Base, VarsOK, FlagsOK, SendReturns, events, native, monitor, history
  <2>4. MonitorOK' BY DEF Base, VarsOK, MonitorOK, SendReturns, events, native, monitor, history
  <2>5. LogOK' BY DEF Base, VarsOK, LogOK, SendReturns, events, native, monitor, history
  <2> QED BY <2>1, <2>2, <2>3, <2>4, <2>5 DEF VarsOK
<1>2. /\ todo # <<>> /\ todo[1].op # "walk" /\ UNCHANGED <<listeners, locked, disposed>>
      /\ todo' = Tail(todo)
  BY DEF SendReturns, Doing, events
<1> HIDE DEF Base, VarsOK
<1> QED BY <1>1, <1>2, DropBase

LEMMA CleanUpXhrBase == ASSUME Base(todo), CleanUpXhr PROVE Base(todo)'
<1>1. xhr \in Nat /\ (xhr # None => xhr \in Requests)
  BY BoundsAssumption DEF Base, VarsOK, NumbersOK, Requests, None
<1>2. xhr # None => Append(contexts, xhr) \in Seq(Requests)
  BY <1>1, AppendProperties DEF Base, VarsOK, MonitorOK
<1>3. VarsOK'
  <2>1. EventsOK' BY <1>2 DEF Base, VarsOK, EventsOK, CleanUpXhr, events, native, fault, history, None
  <2>2. NumbersOK' BY <1>2 DEF Base, VarsOK, NumbersOK, CleanUpXhr, events, native, fault, history, None
  <2>3. FlagsOK' BY <1>2 DEF Base, VarsOK, FlagsOK, CleanUpXhr, events, native, fault, history, None
  <2>4. MonitorOK' BY <1>2 DEF Base, VarsOK, MonitorOK, CleanUpXhr, events, native, fault, history, None
  <2>5. LogOK' BY <1>2 DEF Base, VarsOK, LogOK, CleanUpXhr, events, native, fault, history, None
  <2> QED BY <2>1, <2>2, <2>3, <2>4, <2>5 DEF VarsOK
<1>4. todo # <<>> /\ todo[1].op # "walk" /\ UNCHANGED <<listeners, locked, disposed>>
  BY DEF CleanUpXhr, Doing, events
<1> HIDE DEF Base, VarsOK
<1>5. PICK p : p = <<Ready(xhr), Closed(xhr)>> OBVIOUS
<1>6. Quiet(p) BY <1>1, <1>5, Frames, QuietTuples
<1>7. todo' = Tail(todo) \/ todo' = p \o Tail(todo) BY <1>5 DEF CleanUpXhr, Push
<1> QED BY <1>3, <1>4, <1>6, <1>7, DropBase, ReplaceBase

LEMMA CloseXhrBase == ASSUME Base(todo), CloseXhr PROVE Base(todo)'
<1>1. Popped \subseteq Requests \X Requests /\ Front(contexts) \in Seq(Requests)
  BY PoppedType, FrontType DEF Base, VarsOK, MonitorOK
<1>2. VarsOK'
  <2>1. EventsOK' BY <1>1 DEF Base, VarsOK, EventsOK, CloseXhr, MarkClosed, events, io, native, fault, history
  <2>2. NumbersOK' BY <1>1 DEF Base, VarsOK, NumbersOK, CloseXhr, MarkClosed, events, io, native, fault, history
  <2>3. FlagsOK' BY <1>1 DEF Base, VarsOK, FlagsOK, CloseXhr, MarkClosed, events, io, native, fault, history
  <2>4. MonitorOK' BY <1>1 DEF Base, VarsOK, MonitorOK, CloseXhr, MarkClosed, events, io, native, fault, history
  <2>5. LogOK' BY <1>1 DEF Base, VarsOK, LogOK, CloseXhr, MarkClosed, events, io, native, fault, history
  <2> QED BY <2>1, <2>2, <2>3, <2>4, <2>5 DEF VarsOK
<1>3. /\ todo # <<>> /\ todo[1].op # "walk" /\ todo' = Tail(todo)
      /\ UNCHANGED <<listeners, locked, disposed>>
  BY DEF CloseXhr, Doing, events
<1> HIDE DEF Base, VarsOK
<1> QED BY <1>2, <1>3, DropBase

LEMMA AbortTimedOutBase == ASSUME Base(todo), AbortTimedOut PROVE Base(todo)'
<1>1. todo # <<>> /\ todo[1].op # "walk" BY DEF AbortTimedOut, Doing
<1>2. CASE Abort(Tail(todo))
  <2>1. PICK r : r = Tail(todo) OBVIOUS
  <2> HIDE DEF Base
  <2>2. Base(r) /\ Abort(r) BY <1>1, <1>2, <2>1, PopBase
  <2> QED BY <2>2, AbortBase
<1>3. CASE /\ todo' = Tail(todo)
           /\ UNCHANGED <<events, io, native, disposed, monitor, fault, history>>
  <2>1. VarsOK'
    <3>1. EventsOK' BY <1>3 DEF Base, VarsOK, EventsOK, events, io, native, monitor, fault, history
    <3>2. NumbersOK' BY <1>3 DEF Base, VarsOK, NumbersOK, events, io, native, monitor, fault, history
    <3>3. FlagsOK' BY <1>3 DEF Base, VarsOK, FlagsOK, events, io, native, monitor, fault, history
    <3>4. MonitorOK' BY <1>3 DEF Base, VarsOK, MonitorOK, events, io, native, monitor, fault, history
    <3>5. LogOK' BY <1>3 DEF Base, VarsOK, LogOK, events, io, native, monitor, fault, history
    <3> QED BY <3>1, <3>2, <3>3, <3>4, <3>5 DEF VarsOK
  <2>2. UNCHANGED <<listeners, locked, disposed>> BY <1>3 DEF events
  <2> HIDE DEF Base, VarsOK
  <2> QED BY <1>1, <1>3, <2>1, <2>2, DropBase
<1> QED BY <1>2, <1>3 DEF AbortTimedOut

-----------------------------------------------------------------------------
(* Every step keeps the invariant.  *)

LEMMA OthersKept ==
    ASSUME Base(todo), UNCHANGED <<io, native, disposed, monitor, history>>,
           throwing' \in BOOLEAN, thrown' \in BOOLEAN
    PROVE Others'
<1>1. NumbersOK' BY DEF Base, VarsOK, NumbersOK, io, native, history
<1>2. FlagsOK' BY DEF Base, VarsOK, FlagsOK, io, native
<1>3. MonitorOK' BY DEF Base, VarsOK, MonitorOK, monitor
<1>4. LogOK' BY DEF Base, VarsOK, LogOK, history
<1> QED BY <1>1, <1>2, <1>3, <1>4 DEF Others

LEMMA EventStepBase == ASSUME Base(todo), EventStep PROVE Base(todo)'
<1>1. UNCHANGED <<io, native, disposed, monitor, fault, history>> BY DEF EventStep
<1>2. throwing' \in BOOLEAN /\ thrown' \in BOOLEAN
  BY <1>1 DEF fault, Base, VarsOK, FlagsOK
<1>3. Others' BY <1>1, <1>2, OthersKept
<1> HIDE DEF Base
<1>4. CASE Skip BY <1>1, <1>4, SkipBase
<1>5. CASE RemoveOnce BY <1>1, <1>5, RemoveOnceBase
<1>6. CASE EndWalk BY <1>1, <1>3, <1>6, UnlockBase DEF EndWalk
<1> QED BY <1>4, <1>5, <1>6 DEF EventStep

LEMMA UnwindBase == ASSUME Base(todo), Unwind PROVE Base(todo)'
<1>1. UNCHANGED <<io, native, disposed, monitor, thrown, history>> BY DEF Unwind
<1>2. throwing' \in BOOLEAN /\ thrown' \in BOOLEAN
  <2>1. throwing' = FALSE \/ throwing' = throwing BY DEF Unwind
  <2>2. throwing \in BOOLEAN /\ thrown \in BOOLEAN
    BY DEF Base, VarsOK, FlagsOK
  <2>3. thrown' = thrown BY <1>1
  <2>4. CASE throwing' = FALSE BY <2>2, <2>3, <2>4
  <2>5. CASE throwing' = throwing BY <2>2, <2>3, <2>5
  <2> QED BY <2>1, <2>4, <2>5
<1>3. Others' BY <1>1, <1>2, OthersKept
<1>4. CASE UNCHANGED <<events, todo>>
  BY <1>1, <1>3, <1>4 DEF Base, VarsOK, EventsOK, Others, events
<1>5. CASE ~UNCHANGED <<events, todo>>
  <2>1. todo # <<>> /\ todo' = Tail(todo) /\ UNCHANGED disposed
    BY <1>1, <1>5 DEF Unwind, Idle
  <2>2. CASE Doing("walk")
    <3>1. Unlock(todo[1].type) BY <1>5, <2>2 DEF Unwind
    <3> HIDE DEF Base
    <3> QED BY <1>3, <2>1, <2>2, <3>1, UnlockBase
  <2>3. CASE ~Doing("walk")
    <3>1. UNCHANGED events BY <1>5, <2>3 DEF Unwind
    <3>2. todo[1].op # "walk" /\ UNCHANGED <<listeners, locked, disposed>>
      BY <2>1, <2>3, <3>1 DEF Doing, events
    <3>3. VarsOK' BY <1>3, <3>2 DEF Base, VarsOK, EventsOK, Others
    <3> HIDE DEF Base, VarsOK
    <3> QED BY <2>1, <3>2, <3>3, DropBase
  <2> QED BY <2>2, <2>3
<1> QED BY <1>4, <1>5

\* A call that leaves the arrays alone.
LEMMA QuietStep ==
    ASSUME NEW r, Base(r), todo' = r,
           UNCHANGED <<events, io, native, disposed, monitor, fault, history>>
    PROVE Base(todo)'
  BY DEF Base, VarsOK, EventsOK, NumbersOK, FlagsOK, MonitorOK, LogOK,
         events, io, native, monitor, fault, history

LEMMA ApplicationBase ==
    ASSUME NEW r, Base(r), Send(r) \/ Abort(r) \/ Dispose(r) \/ Throw(r)
    PROVE Base(todo)'
<1> HIDE DEF Base
<1>1. CASE Send(r)
  <2>1. CASE xhr = None BY <1>1, <2>1, SendBase
  <2>2. CASE xhr # None BY <1>1, <2>2, ThrowBase DEF Send
  <2> QED BY <2>1, <2>2
<1> QED BY <1>1, AbortBase, DisposeBase, ThrowBase

\* A listener is called while it is registered, and not after dispose.
LEMMA CalledListener ==
    ASSUME Base(todo), Call
    PROVE /\ Doing("walk") /\ ~AtEnd(todo[1]) /\ ~disposed
          /\ listeners[todo[1].type][todo[1].at].fn \in Fns
<1>1. PICK w : w = todo[1] OBVIOUS
<1>2. Doing("walk") /\ Callable(w) /\ ~AtEnd(w) /\ w.op = "walk"
  BY <1>1 DEF Call, Callable, Doing
<1>3. w \in Frame BY <1>1, <1>2, TailIsPopped DEF Doing, Base
<1>4. w.type \in Types /\ w.at \in Nat \ {0} /\ w.len \in Nat BY <1>2, <1>3, WalkFrames
<1>5. w.len <= Len(listeners[w.type])
  <2>1. 1 \in 1..Len(todo) BY <1>2, LenProperties, EmptySeq DEF Doing, Base
  <2> QED BY <1>1, <1>2, <2>1 DEF Base, Inside
<1>6. PICK a \in Seq(Listener) : a = listeners[w.type] BY <1>4 DEF Base, VarsOK, EventsOK
<1>7. w.at \in 1..Len(a) BY <1>2, <1>4, <1>5, <1>6, LenProperties DEF AtEnd
<1>8. a[w.at] \in Listener BY <1>7, ElementOfSeq
<1>9. a[w.at].fn \in Fns BY <1>8 DEF Listener
<1>10. ~disposed
  <2>1. DOMAIN a = 1..Len(a) BY LenProperties
  <2>2. Present(a[w.at]) BY <1>2, <1>6 DEF Callable
  <2> QED BY <1>4, <1>6, <1>7, <2>1, <2>2 DEF Base, Clean
<1> QED BY <1>1, <1>2, <1>6, <1>9, <1>10

LEMMA CallBase == ASSUME Base(todo), Call PROVE Base(todo)'
<1>1. PICK w : w = todo[1] OBVIOUS
<1>2. Doing("walk") /\ ~AtEnd(w) /\ ~disposed BY <1>1, CalledListener
<1>3. PICK r : r = AfterCall(todo[1]) \o Tail(todo) OBVIOUS
<1>4. Base(r)
  <2> HIDE DEF Base
  <2> QED BY <1>1, <1>2, <1>3, ReturnBase
<1>5. PICK fn \in Fns : fn = listeners[w.type][w.at].fn BY <1>1, CalledListener
<1> HIDE DEF Base
<1>6. CASE todo' = r /\ UNCHANGED <<events, io, native, disposed, monitor, fault, history>>
  BY <1>4, <1>6, QuietStep
<1>7. CASE Send(r) \/ Abort(r) \/ Dispose(r) \/ Throw(r) BY <1>4, <1>7, ApplicationBase
<1>8. ASSUME NEW t \in Again, Relisten(t, fn, r) PROVE Base(todo)'
  <2>1. t \in Types BY TypesAssumption
  <2> QED BY <1>2, <1>4, <1>8, <2>1, RelistenBase
<1> QED BY <1>1, <1>3, <1>5, <1>6, <1>7, <1>8 DEF Call

LEMMA IdleBase ==
    ASSUME Base(todo), Idle, NEW p, Quiet(p), todo' = p, VarsOK',
           UNCHANGED <<listeners, locked, disposed>>
    PROVE Base(todo)'
<1>1. todo = <<>> BY DEF Idle
<1>2. PICK r : r = todo OBVIOUS
<1>3. p \in Seq(Frame) BY DEF Quiet
<1> HIDE DEF Frame
<1>4. p \o <<>> = p BY <1>3, ConcatEmptySeq
<1>5. Base(r) /\ todo' = p \o r BY <1>1, <1>2, <1>4
<1> HIDE DEF Base, VarsOK
<1> QED BY <1>5, QuietBase

LEMMA OutsideBase ==
    ASSUME Base(todo), Application \/ NetworkChange \/ TimerFires \/ Recheck
    PROVE Base(todo)'
<1>1. xhr \in Nat BY DEF Base, VarsOK, NumbersOK
<1>2. CASE Application
  <2>1. PICK r : r = <<>> OBVIOUS
  <2>2. Base(r) BY <1>2, <2>1 DEF Application, Idle
  <2> HIDE DEF Base
  <2> QED BY <1>2, <2>1, <2>2, ApplicationBase DEF Application
<1>3. CASE NetworkChange
  <2>1. VarsOK'
    <3>1. EventsOK' BY <1>3 DEF Base, VarsOK, EventsOK, NetworkChange, events, io, monitor, fault, history
    <3>2. NumbersOK' BY <1>3 DEF Base, VarsOK, NumbersOK, NetworkChange, events, io, monitor, fault, history
    <3>3. FlagsOK' BY <1>3 DEF Base, VarsOK, FlagsOK, NetworkChange, events, io, monitor, fault, history
    <3>4. MonitorOK' BY <1>3 DEF Base, VarsOK, MonitorOK, NetworkChange, events, io, monitor, fault, history
    <3>5. LogOK' BY <1>3 DEF Base, VarsOK, LogOK, NetworkChange, events, io, monitor, fault, history
    <3> QED BY <3>1, <3>2, <3>3, <3>4, <3>5 DEF VarsOK
  <2>2. Idle /\ todo' = <<Op("change")>> /\ UNCHANGED <<listeners, locked, disposed>>
    BY <1>3 DEF NetworkChange, events
  <2>3. Quiet(<<Op("change")>>) BY Frames, QuietTuples DEF Plain
  <2> HIDE DEF Base, VarsOK
  <2> QED BY <2>1, <2>2, <2>3, IdleBase
<1>4. CASE TimerFires
  <2>1. VarsOK'
    <3>1. EventsOK' BY <1>4 DEF Base, VarsOK, EventsOK, TimerFires, events, native, monitor, fault, history, None
    <3>2. NumbersOK' BY <1>4 DEF Base, VarsOK, NumbersOK, TimerFires, events, native, monitor, fault, history, None
    <3>3. FlagsOK' BY <1>4 DEF Base, VarsOK, FlagsOK, TimerFires, events, native, monitor, fault, history, None
    <3>4. MonitorOK' BY <1>4 DEF Base, VarsOK, MonitorOK, TimerFires, events, native, monitor, fault, history, None
    <3>5. LogOK' BY <1>4 DEF Base, VarsOK, LogOK, TimerFires, events, native, monitor, fault, history, None
    <3> QED BY <3>1, <3>2, <3>3, <3>4, <3>5 DEF VarsOK
  <2>2. Idle /\ UNCHANGED <<listeners, locked, disposed>> BY <1>4 DEF TimerFires, events
  <2>3. PICK p : todo' = p /\ p \in {<<>>, <<Dispatch("timeout"), Op("timedOut")>>}
    BY <1>4 DEF TimerFires
  <2>4. Quiet(p) BY <1>1, <2>3, Frames, QuietTuples DEF Plain, EventTypes
  <2> HIDE DEF Base, VarsOK
  <2> QED BY <2>1, <2>2, <2>3, <2>4, IdleBase
<1>5. CASE Recheck
  <2>1. VarsOK'
    <3>1. EventsOK' BY <1>5 DEF Base, VarsOK, EventsOK, Recheck, events, io, monitor, fault, history
    <3>2. NumbersOK' BY <1>5 DEF Base, VarsOK, NumbersOK, Recheck, events, io, monitor, fault, history
    <3>3. FlagsOK' BY <1>5 DEF Base, VarsOK, FlagsOK, Recheck, events, io, monitor, fault, history
    <3>4. MonitorOK' BY <1>5 DEF Base, VarsOK, MonitorOK, Recheck, events, io, monitor, fault, history
    <3>5. LogOK' BY <1>5 DEF Base, VarsOK, LogOK, Recheck, events, io, monitor, fault, history
    <3> QED BY <3>1, <3>2, <3>3, <3>4, <3>5 DEF VarsOK
  <2>2. Idle /\ todo' = <<Op("change")>> /\ UNCHANGED <<listeners, locked, disposed>>
    BY <1>5 DEF Recheck, events
  <2>3. Quiet(<<Op("change")>>) BY Frames, QuietTuples DEF Plain
  <2> HIDE DEF Base, VarsOK
  <2> QED BY <2>1, <2>2, <2>3, IdleBase
<1> QED BY <1>2, <1>3, <1>4, <1>5

LEMMA BaseInductive == ASSUME Base(todo), [Next]_vars PROVE Base(todo)'
<1> HIDE DEF Base
<1>1. CASE Script
  <2>1. CASE DispatchEvent BY <2>1, DispatchBase
  <2>2. CASE StateChange BY <2>2, StateChangeBase
  <2> QED BY <1>1, <2>1, <2>2, CallBase, EventStepBase, PopContextBase,
             CheckCompleteBase, FailBase, SendOpenedBase, SendReturnsBase,
             CleanUpXhrBase, CloseXhrBase, AbortTimedOutBase, UnwindBase DEF Script
<1>2. CASE Application \/ NetworkChange \/ TimerFires \/ Recheck BY <1>2, OutsideBase
<1>3. CASE UNCHANGED vars
  BY <1>3, QuietStep DEF vars
<1> QED BY <1>1, <1>2, <1>3 DEF Next

\* The stack, the locks and the arrays agree, in every state.
THEOREM BaseHolds == Spec => []Base(todo)
<1>1. Init => Base(todo) BY InitBase
<1>2. Base(todo) /\ [Next]_vars => Base(todo)' BY BaseInductive
<1> QED BY <1>1, <1>2, PTL DEF Spec

LEMMA BaseGivesLocks == Base(todo) => WalksAreLocked
<1> SUFFICES ASSUME Base(todo), NEW t \in Types
             PROVE LET walks == {i \in DOMAIN todo : todo[i].op = "walk" /\ todo[i].type = t}
                   IN  /\ locked[t] = Cardinality(walks)
                       /\ \A i \in walks : todo[i].len <= Len(listeners[t])
                       /\ locked[t] = 0 => \A i \in DOMAIN listeners[t] : Present(listeners[t][i])
                       /\ disposed => \A i \in DOMAIN listeners[t] : ~Present(listeners[t][i])
  BY DEF WalksAreLocked
<1> DEFINE walks == {i \in DOMAIN todo : todo[i].op = "walk" /\ todo[i].type = t}
<1>1. todo \in Seq(Frame) /\ DOMAIN todo = 1..Len(todo) BY LenProperties DEF Base
<1>2. \A i \in 1..Len(todo) : todo[i] \in Frame BY <1>1, ElementOfSeq
<1>3. walks = Places(todo, Walks(t)) BY <1>1, <1>2, WalkFrames DEF Places
<1>4. \A i \in walks : todo[i].len <= Len(listeners[t]) BY <1>1 DEF Base, Inside
<1> HIDE DEF walks
<1>5. locked[t] = Cardinality(walks) BY <1>3 DEF Base, Counted
<1> QED BY <1>4, <1>5 DEF Base, Clean, walks

\* Whatever listeners add, remove, dispatch or throw, an array is locked as often
\* as it is walked through, and flagged entries are gone with the last walk.
THEOREM WalksLocked == Spec => []WalksAreLocked
<1> QED BY BaseHolds, BaseGivesLocks, PTL

-----------------------------------------------------------------------------
(* Which frames lie on the stack, and in which order.  *)

Has(s, ops) == \E i \in 1..Len(s) : s[i].op \in ops

\* What never lies above a pending clean-up: only listeners run there.
Heavy == Plain \ {"pop"}

Above(s) ==
    \A i \in 1..Len(s) : s[i].op = "cleanUp" =>
        \A j \in 1..(i - 1) : s[j].op \notin Heavy

\* The failure of open or send is dealt with at once.
FailedFirst(s, a) == \A i \in 1..Len(s) : s[i].op = "failed" => i = 1 /\ a

LEMMA PushedAt ==
    ASSUME NEW p \in Seq(Frame), NEW q \in Seq(Frame), NEW s, Pushed(s, p, q)
    PROVE /\ Len(p) \in Nat /\ Len(q) \in Nat /\ Len(s) = Len(p) + Len(q)
          /\ \A i \in 1..Len(p) : i \in 1..Len(s) /\ s[i] = p[i]
          /\ \A i \in 1..Len(q) : i + Len(p) \in 1..Len(s) /\ s[i + Len(p)] = q[i]
          /\ \A i \in 1..Len(s) : i > Len(p) => i - Len(p) \in 1..Len(q) /\ s[i] = q[i - Len(p)]
<1>1. Len(p) \in Nat /\ Len(q) \in Nat BY LenProperties
<1> HIDE DEF Frame
<1>2. ASSUME NEW i \in 1..Len(s), i > Len(p)
      PROVE i - Len(p) \in 1..Len(q) /\ s[i] = q[i - Len(p)]
  <2>1. i - Len(p) \in 1..Len(q) /\ i - Len(p) + Len(p) = i BY <1>1, <1>2 DEF Pushed
  <2> QED BY <2>1 DEF Pushed
<1> QED BY <1>1, <1>2 DEF Pushed

LEMMA PopIsPushed == ASSUME NEW q \in Seq(Frame) PROVE Pushed(q, <<>>, q)
<1>1. Len(<<>>) = 0 /\ Len(q) \in Nat BY LenProperties
<1> HIDE DEF Frame
<1> QED BY <1>1 DEF Pushed

LEMMA PushHas ==
    ASSUME NEW p \in Seq(Frame), NEW q \in Seq(Frame), NEW s, Pushed(s, p, q), NEW ops
    PROVE Has(s, ops) <=> Has(p, ops) \/ Has(q, ops)
<1> HIDE DEF Frame
<1>1. ASSUME Has(s, ops) PROVE Has(p, ops) \/ Has(q, ops)
  <2>1. PICK i \in 1..Len(s) : s[i].op \in ops BY <1>1 DEF Has
  <2>2. CASE i <= Len(p)
    <3>1. i \in 1..Len(p) BY <2>2
    <3> QED BY <2>1, <3>1, PushedAt DEF Has
  <2>3. CASE i > Len(p) BY <2>1, <2>3, PushedAt DEF Has
  <2> QED BY <2>2, <2>3, PushedAt
<1>2. Has(p, ops) => Has(s, ops) BY PushedAt DEF Has
<1>3. ASSUME Has(q, ops) PROVE Has(s, ops)
  <2>1. PICK i \in 1..Len(q) : q[i].op \in ops BY <1>3 DEF Has
  <2>2. i + Len(p) \in 1..Len(s) /\ s[i + Len(p)] = q[i] BY PushedAt
  <2> QED BY <2>1, <2>2 DEF Has
<1> QED BY <1>1, <1>2, <1>3

LEMMA TupleHas ==
    ASSUME NEW ops
    PROVE /\ ~Has(<<>>, ops)
          /\ \A a \in Frame : Has(<<a>>, ops) <=> a.op \in ops
          /\ \A a, b \in Frame : Has(<<a, b>>, ops) <=> a.op \in ops \/ b.op \in ops
          /\ \A a, b, c \in Frame :
                Has(<<a, b, c>>, ops) <=> a.op \in ops \/ b.op \in ops \/ c.op \in ops
<1>1. ~Has(<<>>, ops) BY Tuples DEF Has
<1>2. ASSUME NEW a \in Frame PROVE Has(<<a>>, ops) <=> a.op \in ops
  BY Tuples DEF Has
<1>3. ASSUME NEW a \in Frame, NEW b \in Frame
      PROVE Has(<<a, b>>, ops) <=> a.op \in ops \/ b.op \in ops
  <2>1. \A i \in 1..2 : i = 1 \/ i = 2 OBVIOUS
  <2>2. 1 \in 1..2 /\ 2 \in 1..2 OBVIOUS
  <2> QED BY <2>1, <2>2, Tuples DEF Has
<1>4. ASSUME NEW a \in Frame, NEW b \in Frame, NEW c \in Frame
      PROVE Has(<<a, b, c>>, ops) <=> a.op \in ops \/ b.op \in ops \/ c.op \in ops
  <2>1. \A i \in 1..3 : i = 1 \/ i = 2 \/ i = 3 OBVIOUS
  <2>2. 1 \in 1..3 /\ 2 \in 1..3 /\ 3 \in 1..3 OBVIOUS
  <2> QED BY <2>1, <2>2, Tuples DEF Has
<1> QED BY <1>1, <1>2, <1>3, <1>4

LEMMA AbovePush ==
    ASSUME NEW p \in Seq(Frame), NEW q \in Seq(Frame), NEW s, Pushed(s, p, q),
           Above(p), Above(q), Has(q, {"cleanUp"}) => ~Has(p, Heavy)
    PROVE Above(s)
<1> HIDE DEF Frame
<1> SUFFICES ASSUME NEW i \in 1..Len(s), s[i].op = "cleanUp", NEW j \in 1..(i - 1)
             PROVE s[j].op \notin Heavy
  BY DEF Above
<1>1. Len(p) \in Nat /\ Len(q) \in Nat BY PushedAt
<1>2. CASE i <= Len(p)
  <2>1. i \in 1..Len(p) /\ j \in 1..Len(p) BY <1>1, <1>2
  <2>2. s[i] = p[i] /\ s[j] = p[j] BY <2>1, PushedAt
  <2> QED BY <2>1, <2>2 DEF Above
<1>3. CASE i > Len(p)
  <2>1. i - Len(p) \in 1..Len(q) /\ q[i - Len(p)].op = "cleanUp" BY <1>3, PushedAt
  <2>2. ~Has(p, Heavy) BY <2>1 DEF Has
  <2>3. CASE j <= Len(p)
    <3>1. j \in 1..Len(p) BY <1>1, <2>3
    <3> QED BY <2>2, <3>1, PushedAt DEF Has
  <2>4. CASE j > Len(p)
    <3>1. j \in 1..Len(s) BY PushedAt
    <3>2. s[j] = q[j - Len(p)] BY <2>4, <3>1, PushedAt
    <3>3. j - Len(p) \in 1..(i - Len(p) - 1) BY <1>1, <2>4
    <3> QED BY <2>1, <3>2, <3>3 DEF Above
  <2> QED BY <1>1, <2>3, <2>4
<1> QED BY <1>1, <1>2, <1>3

LEMMA AboveTuples ==
    /\ \A p : ~Has(p, {"cleanUp"}) => Above(p)
    /\ \A a \in Frame : Above(<<a>>)
    /\ \A a, b, c \in Frame : a.op \notin Heavy /\ b.op \notin Heavy => Above(<<a, b, c>>)
<1>1. \A p : ~Has(p, {"cleanUp"}) => Above(p) BY DEF Above, Has
<1>2. ASSUME NEW a \in Frame PROVE Above(<<a>>)
  <2>1. \A i \in 1..1 : ~\E j \in 1..(i - 1) : TRUE OBVIOUS
  <2> QED BY <2>1, Tuples DEF Above
<1>3. ASSUME NEW a \in Frame, NEW b \in Frame, NEW c \in Frame,
             a.op \notin Heavy, b.op \notin Heavy
      PROVE Above(<<a, b, c>>)
  <2>1. \A i \in 1..3 : \A j \in 1..(i - 1) : j = 1 \/ j = 2 OBVIOUS
  <2> QED BY <1>3, <2>1, Tuples DEF Above
<1> QED BY <1>1, <1>2, <1>3

\* Nothing of the rest is cleaned up when a heavy step is on top.
LEMMA AbovePop ==
    ASSUME NEW s \in Seq(Frame), s # <<>>, Above(s)
    PROVE /\ Above(Tail(s))
          /\ s[1].op \in Heavy => ~Has(Tail(s), {"cleanUp"})
          /\ \A ops : Has(s, ops) <=> s[1].op \in ops \/ Has(Tail(s), ops)
<1>0. s[1] \in Frame /\ Tail(s) \in Seq(Frame) BY TailIsPopped
<1>1. /\ Len(s) \in Nat \ {0} /\ Len(Tail(s)) = Len(s) - 1
      /\ \A i \in 1..(Len(s) - 1) : Tail(s)[i] = s[i + 1]
  BY TailIsPopped
<1>2. ASSUME NEW ops PROVE Has(s, ops) <=> s[1].op \in ops \/ Has(Tail(s), ops)
  <2>1. PICK p \in Seq(Frame) : p = <<s[1]>> BY <1>0, Tuples
  <2>2. Pushed(s, p, Tail(s)) BY <2>1, TailIsPopped
  <2>3. Has(p, ops) <=> s[1].op \in ops BY <1>0, <2>1, TupleHas
  <2> HIDE DEF Frame
  <2> QED BY <1>0, <2>2, <2>3, PushHas
<1> HIDE DEF Frame
<1>3. ASSUME NEW i \in 1..Len(Tail(s)), Tail(s)[i].op = "cleanUp"
      PROVE /\ s[1].op \notin Heavy
            /\ \A j \in 1..(i - 1) : Tail(s)[j].op \notin Heavy
  <2>1. i + 1 \in 1..Len(s) /\ s[i + 1].op = "cleanUp" BY <1>1, <1>3
  <2>2. \A j \in 1..(i + 1 - 1) : s[j].op \notin Heavy BY <2>1 DEF Above
  <2>3. \A j \in 1..(i - 1) : j + 1 \in 1..(i + 1 - 1) /\ Tail(s)[j] = s[j + 1] BY <1>1
  <2>4. 1 \in 1..(i + 1 - 1) OBVIOUS
  <2> QED BY <2>2, <2>3, <2>4
<1> QED BY <1>2, <1>3 DEF Above, Has

LEMMA FailedPush ==
    ASSUME NEW p \in Seq(Frame), NEW q \in Seq(Frame), NEW s, Pushed(s, p, q),
           ~Has(q, {"failed"}), NEW a, Has(p, {"failed"}) => Len(p) = 1 /\ a
    PROVE FailedFirst(s, a)
<1> HIDE DEF Frame
<1> SUFFICES ASSUME NEW i \in 1..Len(s), s[i].op = "failed" PROVE i = 1 /\ a
  BY DEF FailedFirst
<1>1. CASE i > Len(p) BY <1>1, PushedAt DEF Has
<1>2. CASE i <= Len(p)
  <2>1. i \in 1..Len(p) BY <1>2
  <2>2. Has(p, {"failed"}) BY <2>1, PushedAt DEF Has
  <2>3. Len(p) = 1 BY <2>2, Zenon
  <2>4. a BY <2>2, Zenon
  <2>5. i = 1 BY <2>1, <2>3
  <2> QED BY <2>4, <2>5, Zenon
<1> QED BY <1>1, <1>2, PushedAt

LEMMA FailedPop ==
    ASSUME NEW s \in Seq(Frame), s # <<>>, NEW a, FailedFirst(s, a)
    PROVE /\ ~Has(Tail(s), {"failed"})
          /\ s[1].op = "failed" => a
<1>1. /\ Len(s) \in Nat \ {0} /\ Len(Tail(s)) = Len(s) - 1
      /\ \A i \in 1..(Len(s) - 1) : Tail(s)[i] = s[i + 1]
  BY TailIsPopped
<1> HIDE DEF Frame
<1>2. ASSUME NEW i \in 1..Len(Tail(s)) PROVE Tail(s)[i].op # "failed"
  <2>1. i + 1 \in 1..Len(s) /\ i + 1 # 1 /\ Tail(s)[i] = s[i + 1] BY <1>1
  <2> QED BY <2>1 DEF FailedFirst
<1>3. 1 \in 1..Len(s) BY <1>1
<1> QED BY <1>2, <1>3 DEF Has, FailedFirst

-----------------------------------------------------------------------------
(* A request that ends waits for its clean-up.  *)

\* What ends a request that was given a timeout and has none any more.
Enders == {"cleanUp", "timedOut"}

\* Of a stack, and of active_, xhr_, the timeout and disposed_ with it: a request
\* that is not active any more waits for its clean-up, which is the only one.
EndsProperly(s, a, x, t, d, m) ==
    /\ a => x # None
    /\ t # None => t = x /\ t \in m
    /\ d => x = None
    /\ Has(s, {"cleanUp"}) => ~a
    /\ Has(s, {"cleanUp"}) => (x # None \/ d)
    /\ x # None => (~a => Has(s, {"cleanUp"}))
    /\ x # None => (x \in m => (t = None => Has(s, Enders)))
    /\ Above(s)

Free(s) ==
    /\ EndsProperly(s, active, xhr, timer, disposed, timed)
    /\ FailedFirst(s, active)

\* What "p" must be to be pushed on "q", and what is known then of the four.
Fits(p, q, a, x, t, d, m) ==
    /\ Above(p) /\ Above(q)
    /\ Has(q, {"cleanUp"}) => ~Has(p, Heavy)
    /\ ~Has(q, {"failed"})
    /\ Has(p, {"failed"}) => Len(p) = 1
    /\ Has(p, {"failed"}) => a
    /\ a => x # None
    /\ t # None => t = x /\ t \in m
    /\ d => x = None
    /\ Has(p, {"cleanUp"}) \/ Has(q, {"cleanUp"}) => ~a
    /\ Has(p, {"cleanUp"}) \/ Has(q, {"cleanUp"}) => (x # None \/ d)
    /\ x # None => (~a => Has(p, {"cleanUp"}) \/ Has(q, {"cleanUp"}))
    /\ x # None => (x \in m => (t = None => Has(p, Enders) \/ Has(q, Enders)))

LEMMA PushFree ==
    ASSUME NEW p \in Seq(Frame), NEW q \in Seq(Frame), NEW s, Pushed(s, p, q),
           NEW a, NEW x, NEW t, NEW d, NEW m, Fits(p, q, a, x, t, d, m)
    PROVE EndsProperly(s, a, x, t, d, m) /\ FailedFirst(s, a)
<1>a. Above(p) /\ Above(q) /\ (Has(q, {"cleanUp"}) => ~Has(p, Heavy)) BY Zenon DEF Fits
<1>1. Above(s) BY <1>a, AbovePush
<1>b. ~Has(q, {"failed"}) BY Zenon DEF Fits
<1>c. Has(p, {"failed"}) => Len(p) = 1 /\ a BY Zenon DEF Fits
<1>2. FailedFirst(s, a) BY <1>b, <1>c, FailedPush, Zenon
<1>3. \A ops : Has(s, ops) <=> Has(p, ops) \/ Has(q, ops) BY PushHas
<1> HIDE DEF Frame
<1> QED BY <1>1, <1>2, <1>3, Zenon DEF EndsProperly, Fits

LEMMA PopFree ==
    ASSUME Base(todo), Free(todo), todo # <<>>
    PROVE /\ Tail(todo) \in Seq(Frame) /\ todo[1] \in Frame
          /\ Above(Tail(todo)) /\ ~Has(Tail(todo), {"failed"})
          /\ todo[1].op = "failed" => active
          /\ todo[1].op \in Heavy => ~Has(Tail(todo), {"cleanUp"})
          /\ Has(todo, {"cleanUp"}) <=> todo[1].op = "cleanUp" \/ Has(Tail(todo), {"cleanUp"})
          /\ Has(todo, Enders) <=> todo[1].op \in Enders \/ Has(Tail(todo), Enders)
<1>0. todo \in Seq(Frame) BY DEF Base
<1>1. Tail(todo) \in Seq(Frame) /\ todo[1] \in Frame BY <1>0, TailIsPopped
<1>2. Above(todo) /\ FailedFirst(todo, active) BY DEF Free, EndsProperly
<1> HIDE DEF Frame, Base, Free
<1>3. /\ Above(Tail(todo))
      /\ todo[1].op \in Heavy => ~Has(Tail(todo), {"cleanUp"})
      /\ \A ops : Has(todo, ops) <=> todo[1].op \in ops \/ Has(Tail(todo), ops)
  BY <1>0, <1>2, AbovePop
<1>4. ~Has(Tail(todo), {"failed"}) BY <1>0, <1>2, FailedPop
<1>5. todo[1].op = "failed" => active BY <1>0, <1>2, FailedPop
<1>6. Has(todo, {"cleanUp"}) <=> todo[1].op = "cleanUp" \/ Has(Tail(todo), {"cleanUp"})
  BY <1>3
<1> QED BY <1>1, <1>3, <1>4, <1>5, <1>6

\* A step that changes none of the four.
LEMMA SameFree ==
    ASSUME Base(todo), Free(todo), todo # <<>>, todo[1].op \notin Enders,
           NEW p \in Seq(Frame), ~Has(p, {"cleanUp"}), ~Has(p, {"failed"}),
           Has(Tail(todo), {"cleanUp"}) => ~Has(p, Heavy), NEW r, Pushed(r, p, Tail(todo))
    PROVE Free(r) /\ ~Has(r, {"failed"}) /\ r \in Seq(Frame)
<1>1. PICK q \in Seq(Frame) :
        /\ q = Tail(todo) /\ Above(q) /\ ~Has(q, {"failed"})
        /\ Has(todo, {"cleanUp"}) <=> Has(q, {"cleanUp"})
        /\ Has(todo, Enders) <=> Has(q, Enders)
  BY PopFree DEF Enders
<1>2. Above(p) BY AboveTuples
<1> HIDE DEF Base, Frame
<1>p. Pushed(r, p, q) BY <1>1
<1>3. /\ EndsProperly(r, active, xhr, timer, disposed, timed)
      /\ FailedFirst(r, active)
  <2>1. Has(q, {"cleanUp"}) => ~Has(p, Heavy) BY <1>1
  <2>2. EndsProperly(todo, active, xhr, timer, disposed, timed) BY DEF Free
  <2>3. Fits(p, q, active, xhr, timer, disposed, timed)
    BY <1>1, <1>2, <2>1, <2>2, Zenon DEF EndsProperly, Fits
  <2> QED BY <1>p, <2>3, PushFree
<1>4. ~Has(r, {"failed"}) BY <1>p, <1>1, PushHas
<1> QED BY <1>3, <1>4, <1>p DEF Free, Pushed

LEMMA SameStep ==
    ASSUME Base(todo), Free(todo), todo # <<>>, todo[1].op \notin Enders,
           NEW p \in Seq(Frame), ~Has(p, {"cleanUp"}), ~Has(p, {"failed"}),
           Has(Tail(todo), {"cleanUp"}) => ~Has(p, Heavy),
           Pushed(todo', p, Tail(todo)), UNCHANGED <<active, xhr, timer, disposed, timed>>
    PROVE Free(todo)'
<1>1. PICK r : r = todo' OBVIOUS
<1> HIDE DEF Base, Free, Frame
<1>2. Free(r) BY <1>1, SameFree
<1> QED BY <1>1, <1>2 DEF Free

LEMMA DropStep ==
    ASSUME Base(todo), Free(todo), todo # <<>>, todo[1].op \notin Enders,
           todo' = Tail(todo), UNCHANGED <<active, xhr, timer, disposed, timed>>
    PROVE Free(todo)'
<1>1. <<>> \in Seq(Frame) /\ \A ops : ~Has(<<>>, ops) BY Tuples, TupleHas
<1>2. Tail(todo) \in Seq(Frame) BY PopFree
<1>3. Pushed(todo', <<>>, Tail(todo)) BY <1>2, PopIsPushed
<1> HIDE DEF Base, Free, Frame
<1> QED BY <1>1, <1>3, SameStep

LEMMA EventStepFree == ASSUME Base(todo), Free(todo), EventStep PROVE Free(todo)'
<1>1. UNCHANGED <<active, xhr, timer, disposed, timed>> BY DEF EventStep, history, io
<1> HIDE DEF Base, Free
<1>2. CASE Skip
  <2>1. PICK w : w = todo[1] OBVIOUS
  <2>2. todo # <<>> /\ w.op = "walk" /\ w \in Frame
    BY <1>2, <2>1, PopFree DEF Skip, Doing
  <2>3. PICK v : v = [w EXCEPT !.at = @ + 1] OBVIOUS
  <2>4. v \in Frame /\ v.op = "walk"
    <3>1. w \in [op : {"walk"}, type : Types, at : Nat \ {0}, len : Nat]
      BY <2>2 DEF Frame, Plain
    <3>2. v \in [op : {"walk"}, type : Types, at : Nat \ {0}, len : Nat] BY <2>3, <3>1
    <3> QED BY <3>2 DEF Frame
  <2>5. PICK p \in Seq(Frame) : p = <<v>> /\ \A ops : Has(p, ops) <=> v.op \in ops
    <3>1. <<v>> \in Seq(Frame) BY <2>4, Tuples
    <3>2. \A ops : Has(<<v>>, ops) <=> v.op \in ops BY <2>4, TupleHas
    <3> QED BY <3>1, <3>2
  <2>6. todo' = p \o Tail(todo) BY <1>2, <2>1, <2>3, <2>5 DEF Skip, Push
  <2>7. Pushed(todo', p, Tail(todo)) BY <2>2, <2>6, StackStep
  <2>8. ~Has(p, {"cleanUp"}) /\ ~Has(p, {"failed"}) /\ ~Has(p, Heavy)
    BY <2>4, <2>5 DEF Heavy, Plain
  <2>9. todo[1].op \notin Enders BY <2>1, <2>2 DEF Enders
  <2> QED BY <1>1, <2>2, <2>7, <2>8, <2>9, SameStep
<1>3. CASE RemoveOnce
  <2>1. todo # <<>> /\ todo[1].op \notin Enders /\ todo' = Tail(todo)
    BY <1>3 DEF RemoveOnce, Doing, Enders
  <2> QED BY <1>1, <2>1, DropStep
<1>4. CASE EndWalk
  <2>1. todo # <<>> /\ todo[1].op \notin Enders /\ todo' = Tail(todo)
    BY <1>4 DEF EndWalk, Doing, Enders
  <2> QED BY <1>1, <2>1, DropStep
<1> QED BY <1>2, <1>3, <1>4 DEF EventStep

LEMMA DispatchFree == ASSUME Base(todo), Free(todo), DispatchEvent PROVE Free(todo)'
<1>1. todo # <<>> /\ todo[1].op \notin Enders /\ UNCHANGED <<active, xhr, timer, disposed, timed>>
  BY DEF DispatchEvent, Doing, Enders, io
<1>2. PICK p \in Seq(Frame) :
        /\ Pushed(todo', p, Tail(todo))
        /\ Len(p) = IF xhr = None THEN 1 ELSE 2
        /\ p[1].op = "walk"
        /\ xhr # None => p[2] = Op("pop")
  BY DispatchBase
<1>3. ASSUME NEW ops, "walk" \notin ops, "pop" \notin ops PROVE ~Has(p, ops)
  <2>1. \A i \in 1..Len(p) : i = 1 \/ (i = 2 /\ xhr # None) BY <1>2
  <2> QED BY <1>2, <1>3, <2>1 DEF Has, Op
<1>4. ~Has(p, {"cleanUp"}) /\ ~Has(p, {"failed"}) /\ ~Has(p, Heavy)
  BY <1>3 DEF Heavy, Plain
<1> HIDE DEF Base, Free
<1> QED BY <1>1, <1>2, <1>4, SameStep

LEMMA PlainFree ==
    ASSUME Base(todo), Free(todo), PopContext \/ SendReturns \/ CloseXhr PROVE Free(todo)'
<1>1. /\ todo # <<>> /\ todo[1].op \notin Enders /\ todo' = Tail(todo)
      /\ UNCHANGED <<active, xhr, timer, disposed, timed>>
  BY DEF PopContext, history, SendReturns, CloseXhr, Doing, Enders, io
<1> HIDE DEF Base, Free
<1> QED BY <1>1, DropStep

LEMMA StateChangeFree == ASSUME Base(todo), Free(todo), StateChange PROVE Free(todo)'
<1>1. /\ todo # <<>> /\ todo[1].op \notin Enders /\ todo[1].op \in Heavy
      /\ UNCHANGED <<active, xhr, timer, disposed, timed>>
  BY DEF StateChange, history, Doing, Enders, io, Heavy, Plain
<1>2. PICK a, b \in Frame : /\ a = Dispatch("change") /\ b = Op("complete")
                            /\ a.op = "dispatch" /\ b.op = "complete"
  BY Frames DEF Base, VarsOK, NumbersOK, EventTypes, Plain
<1> HIDE DEF Base, Free
<1>3. CASE todo' = Tail(todo) BY <1>1, <1>3, DropStep
<1>4. CASE todo' # Tail(todo)
  <2>1. PICK p \in Seq(Frame) : p = <<a, b>> BY Tuples
  <2>2. todo' = p \o Tail(todo) BY <1>2, <1>4, <2>1 DEF StateChange, Push
  <2>3. Pushed(todo', p, Tail(todo)) BY <1>1, <2>2, StackStep
  <2>4. \A ops : Has(p, ops) <=> a.op \in ops \/ b.op \in ops BY <2>1, TupleHas
  <2>5. ~Has(p, {"cleanUp"}) /\ ~Has(p, {"failed"}) BY <1>2, <2>4
  <2>6. ~Has(Tail(todo), {"cleanUp"}) BY <1>1, PopFree
  <2> QED BY <1>1, <2>3, <2>5, <2>6, SameStep
<1> QED BY <1>3, <1>4

-----------------------------------------------------------------------------
(* The steps of XhrIo that begin or end a request.  *)

\* "p" is pushed, and the four may change.
LEMMA FitsStep ==
    ASSUME NEW p \in Seq(Frame), NEW q \in Seq(Frame), Pushed(todo', p, q),
           Fits(p, q, active', xhr', timer', disposed', timed')
    PROVE Free(todo)'
<1>1. PICK s : s = todo' OBVIOUS
<1>2. PICK a : a = active' OBVIOUS
<1>3. PICK x : x = xhr' OBVIOUS
<1>4. PICK t : t = timer' OBVIOUS
<1>5. PICK d, m : d = disposed' /\ m = timed' OBVIOUS
<1> HIDE DEF Frame
<1>6. Pushed(s, p, q) /\ Fits(p, q, a, x, t, d, m) BY <1>1, <1>2, <1>3, <1>4, <1>5
<1>7. EndsProperly(s, a, x, t, d, m) /\ FailedFirst(s, a) BY <1>6, PushFree
<1> QED BY <1>1, <1>2, <1>3, <1>4, <1>5, <1>7 DEF Free

LEMMA DropFits ==
    ASSUME NEW q \in Seq(Frame), todo' = q, Fits(<<>>, q, active', xhr', timer', disposed', timed')
    PROVE Free(todo)'
<1>1. Pushed(todo', <<>>, q) BY PopIsPushed
<1>2. <<>> \in Seq(Frame) BY Tuples
<1> HIDE DEF Frame
<1> QED BY <1>1, <1>2, FitsStep

\* Frames as a stack of their own.
LEMMA Stacks ==
    /\ \A a \in Frame : \E p \in Seq(Frame) :
        p = <<a>> /\ Len(p) = 1 /\ Above(p) /\ \A ops : Has(p, ops) <=> a.op \in ops
    /\ \A a, b \in Frame : \E p \in Seq(Frame) :
        p = <<a, b>> /\ \A ops : Has(p, ops) <=> a.op \in ops \/ b.op \in ops
<1>1. ASSUME NEW a \in Frame
      PROVE \E p \in Seq(Frame) : p = <<a>> /\ Len(p) = 1 /\ Above(p) /\ \A ops : Has(p, ops) <=> a.op \in ops
  <2>1. <<a>> \in Seq(Frame) /\ Len(<<a>>) = 1 BY Tuples
  <2>2. Above(<<a>>) BY AboveTuples
  <2>3. \A ops : Has(<<a>>, ops) <=> a.op \in ops BY TupleHas
  <2> QED BY <2>1, <2>2, <2>3, Zenon
<1>2. ASSUME NEW a \in Frame, NEW b \in Frame
      PROVE \E p \in Seq(Frame) :
                p = <<a, b>> /\ \A ops : Has(p, ops) <=> a.op \in ops \/ b.op \in ops
  <2>1. <<a, b>> \in Seq(Frame) BY Tuples
  <2>2. \A ops : Has(<<a, b>>, ops) <=> a.op \in ops \/ b.op \in ops BY TupleHas
  <2> QED BY <2>1, <2>2, Zenon
<1> QED BY <1>1, <1>2, Zenon

\* The frames that take a context off.
Slots == {"pop", "closed"}

\* The events of the end, if any, with the clean-up after them.
LEMMA EndStack ==
    ASSUME xhr \in Nat, NEW t \in EventTypes,
           NEW o, o \in {<<>>, <<Dispatch("complete"), Dispatch(t)>>}
    PROVE \E p \in Seq(Frame) :
            /\ p = o \o <<Op("cleanUp")>> /\ Above(p)
            /\ Has(p, {"cleanUp"}) /\ Has(p, Enders) /\ ~Has(p, {"failed"}) /\ ~Has(p, Slots)
<1>1. PICK a, b, c \in Frame :
        /\ a = Dispatch("complete") /\ b = Dispatch(t) /\ c = Op("cleanUp")
        /\ a.op = "dispatch" /\ b.op = "dispatch" /\ c.op = "cleanUp"
  BY Frames DEF EventTypes, Plain
<1>2. PICK z \in Seq(Frame) :
        z = <<c>> /\ Above(z) /\ \A ops : Has(z, ops) <=> c.op \in ops
  BY Stacks, Zenon
<1>3. PICK y \in Seq(Frame) :
        y = <<a, b>> /\ \A ops : Has(y, ops) <=> a.op \in ops \/ b.op \in ops
  BY Stacks, Zenon
<1>4. o = <<>> \/ o = y BY <1>1, <1>3
<1>5. <<>> \in Seq(Frame) /\ \A ops : ~Has(<<>>, ops) BY Tuples, TupleHas
<1>6. PICK e \in Seq(Frame) : e = o /\ \A ops : "dispatch" \notin ops => ~Has(e, ops)
  <2>1. \A ops : "dispatch" \notin ops => ~Has(y, ops) BY <1>1, <1>3
  <2> QED BY <1>4, <1>5, <2>1
<1> HIDE DEF Frame
<1>7. PICK p \in Seq(Frame) : p = e \o z /\ Pushed(p, e, z)
  BY PushIsPushed, ConcatProperties
<1>8. \A ops : Has(p, ops) <=> Has(e, ops) \/ Has(z, ops) BY <1>7, PushHas
<1>9. Above(p)
  <2>1. ~Has(e, {"cleanUp"}) /\ ~Has(e, Heavy) BY <1>6 DEF Heavy, Plain
  <2>2. Above(e) BY <2>1, AboveTuples
  <2> QED BY <1>2, <1>7, <2>1, <2>2, AbovePush
<1>10. Has(z, {"cleanUp"}) /\ Has(z, Enders) /\ ~Has(z, {"failed"}) /\ ~Has(z, Slots)
  BY <1>1, <1>2 DEF Enders, Slots
<1>11. ~Has(e, {"failed"}) /\ ~Has(e, Slots) BY <1>6 DEF Slots
<1>12. p = o \o <<Op("cleanUp")>> BY <1>1, <1>2, <1>6, <1>7
<1> QED BY <1>8, <1>9, <1>10, <1>11, <1>12

\* The request of "xhr" ends: the frames that end it are pushed.
LEMMA EndStep ==
    ASSUME NEW q \in Seq(Frame), Above(q), ~Has(q, {"failed"}), ~Has(q, {"cleanUp"}),
           NEW s, EndsProperly(s, active, xhr, timer, disposed, timed), xhr # None,
           NEW p \in Seq(Frame), Above(p), Has(p, {"cleanUp"}), Has(p, Enders),
           ~Has(p, {"failed"}), Pushed(todo', p, q),
           active' = FALSE, UNCHANGED <<xhr, timer, disposed, timed>>
    PROVE Free(todo)'
<1>1. Fits(p, q, active', xhr', timer', disposed', timed')
  BY Zenon DEF Fits, EndsProperly
<1> HIDE DEF Frame
<1> QED BY <1>1, FitsStep

LEMMA CheckCompleteFree == ASSUME Base(todo), Free(todo), CheckComplete PROVE Free(todo)'
<1>1. /\ todo # <<>> /\ todo[1].op \notin Enders /\ todo[1].op \in Heavy
      /\ UNCHANGED <<xhr, timer, disposed, timed>>
  BY DEF CheckComplete, history, Doing, Enders, native, Heavy, Plain
<1>2. xhr \in Nat BY DEF Base, VarsOK, NumbersOK
<1> HIDE DEF Base, Free
<1>3. CASE xhr = None \/ state # 4
  <2>1. todo' = Tail(todo) /\ UNCHANGED active BY <1>3 DEF CheckComplete
  <2> QED BY <1>1, <2>1, DropStep
<1>4. CASE xhr # None /\ state = 4
  <2>1. PICK o :
            /\ o \in {<<Dispatch("complete"), Dispatch("success")>>, <<>>,
                      <<Dispatch("complete"), Dispatch("error")>>}
            /\ todo' = (o \o <<Op("cleanUp")>>) \o Tail(todo)
    BY <1>4 DEF CheckComplete, Push
  <2>2. "success" \in EventTypes /\ "error" \in EventTypes BY DEF EventTypes
  <2>3. \/ o \in {<<>>, <<Dispatch("complete"), Dispatch("success")>>}
        \/ o \in {<<>>, <<Dispatch("complete"), Dispatch("error")>>}
    BY <2>1
  <2>4. PICK p \in Seq(Frame) :
            /\ p = o \o <<Op("cleanUp")>> /\ Above(p)
            /\ Has(p, {"cleanUp"}) /\ Has(p, Enders) /\ ~Has(p, {"failed"})
    BY <1>2, <2>2, <2>3, EndStack
  <2>5. Pushed(todo', p, Tail(todo)) BY <1>1, <2>1, <2>4, StackStep
  <2>6. /\ Tail(todo) \in Seq(Frame) /\ Above(Tail(todo)) /\ ~Has(Tail(todo), {"failed"})
        /\ ~Has(Tail(todo), {"cleanUp"})
    BY <1>1, PopFree
  <2>7. active' = FALSE BY <1>4 DEF CheckComplete
  <2>8. EndsProperly(todo, active, xhr, timer, disposed, timed) BY DEF Free
  <2> HIDE DEF Frame
  <2> QED BY <1>1, <1>4, <2>4, <2>5, <2>6, <2>7, <2>8, EndStep
<1> QED BY <1>3, <1>4

LEMMA FailFree == ASSUME Base(todo), Free(todo), Fail PROVE Free(todo)'
<1>1. /\ todo # <<>> /\ todo[1].op = "failed" /\ todo[1].op \in Heavy
      /\ UNCHANGED <<xhr, timer, disposed, timed>>
  BY DEF Fail, history, Doing, Heavy, Plain
<1>2. xhr \in Nat BY DEF Base, VarsOK, NumbersOK
<1> HIDE DEF Base
<1>8. EndsProperly(todo, active, xhr, timer, disposed, timed) BY DEF Free
<1>3. active /\ xhr # None
  <2>1. active BY <1>1, PopFree
  <2> QED BY <1>8, <2>1, Zenon DEF EndsProperly
<1> HIDE DEF Free
<1>4. PICK o : /\ o \in {<<>>, <<Dispatch("complete"), Dispatch("error")>>}
               /\ todo' = (o \o <<Op("cleanUp")>>) \o Tail(todo)
  BY DEF Fail, Push
<1>5. "error" \in EventTypes BY DEF EventTypes
<1>7. PICK p \in Seq(Frame) :
        /\ p = o \o <<Op("cleanUp")>> /\ Above(p)
        /\ Has(p, {"cleanUp"}) /\ Has(p, Enders) /\ ~Has(p, {"failed"})
  BY <1>2, <1>4, <1>5, EndStack
<1>9. Pushed(todo', p, Tail(todo)) BY <1>1, <1>4, <1>7, StackStep
<1>10. /\ Tail(todo) \in Seq(Frame) /\ Above(Tail(todo)) /\ ~Has(Tail(todo), {"failed"})
       /\ ~Has(Tail(todo), {"cleanUp"})
  BY <1>1, PopFree
<1>11. active' = FALSE BY DEF Fail
<1> HIDE DEF Frame
<1> QED BY <1>1, <1>3, <1>7, <1>8, <1>9, <1>10, <1>11, EndStep

LEMMA SendThrowsFree ==
    ASSUME Base(todo), Free(todo), SendOpened, SendThrows PROVE Free(todo)'
<1>1. /\ todo # <<>> /\ todo[1].op \notin Enders /\ todo' = Tail(todo)
      /\ UNCHANGED <<active, xhr, timer, disposed, timed>>
  BY DEF SendOpened, SendThrows, Doing, Enders
<1> HIDE DEF Base, Free
<1> QED BY <1>1, DropStep

LEMMA SendsRequestFree ==
    ASSUME Base(todo), Free(todo), SendOpened, SendsRequest PROVE Free(todo)'
<1>1. todo # <<>> /\ todo[1].op = "opened" /\ todo[1].op \in Heavy
  BY DEF SendOpened, Doing, Heavy, Plain
<1>2. /\ xhr # None /\ (timer' # None => timer' = xhr)
      /\ xhr \in timed' => timer' # None
      /\ UNCHANGED <<active, xhr, disposed>>
      /\ timer' # None => timer' \in timed'
  BY DEF SendOpened, SendsRequest
<1> HIDE DEF Base
<1>3. PICK q \in Seq(Frame) :
        /\ q = Tail(todo) /\ Above(q) /\ ~Has(q, {"failed"}) /\ ~Has(q, {"cleanUp"})
        /\ ~Has(todo, {"cleanUp"})
  BY <1>1, PopFree
<1>4. active
  <2>1. EndsProperly(todo, active, xhr, timer, disposed, timed) BY DEF Free
  <2> QED BY <1>2, <1>3, <2>1, Zenon DEF EndsProperly
<1>5. ~disposed
  <2>1. EndsProperly(todo, active, xhr, timer, disposed, timed) BY DEF Free
  <2> QED BY <1>2, <2>1, Zenon DEF EndsProperly
<1>6. PICK a, b, c \in Frame : /\ a = Op("failed") /\ b = Op("sent") /\ c = Op("change")
                               /\ a.op = "failed" /\ b.op = "sent" /\ c.op = "change"
  BY Frames DEF Plain
<1>7. PICK y \in Seq(Frame) : y = <<a>> /\ Len(y) = 1 /\ \A ops : Has(y, ops) <=> a.op \in ops
  BY Stacks, Zenon
<1>z. PICK z \in Seq(Frame) : z = <<b>> /\ \A ops : Has(z, ops) <=> b.op \in ops
  BY Stacks, Zenon
<1>w. PICK w \in Seq(Frame) : w = <<c, b>> /\ \A ops : Has(w, ops) <=> c.op \in ops \/ b.op \in ops
  BY Stacks, Zenon
<1>p. PICK p : p \in {y, z, w} /\ todo' = p \o Tail(todo)
  BY <1>2, <1>6, <1>7, <1>z, <1>w DEF SendsRequest, NativeSend, Push
<1>8. p \in Seq(Frame) /\ ~Has(p, {"cleanUp"}) /\ (Has(p, {"failed"}) => Len(p) = 1)
  <2>1. ~Has(y, {"cleanUp"}) /\ ~Has(z, {"cleanUp"}) /\ ~Has(w, {"cleanUp"})
    BY <1>6, <1>7, <1>z, <1>w
  <2>2. ~Has(z, {"failed"}) /\ ~Has(w, {"failed"}) BY <1>6, <1>z, <1>w
  <2> QED BY <1>7, <1>p, <2>1, <2>2
<1>9. Above(p) BY <1>8, AboveTuples
<1>10. Pushed(todo', p, q) BY <1>1, <1>3, <1>p, <1>8, StackStep
<1>11. Fits(p, q, active', xhr', timer', disposed', timed')
  BY <1>2, <1>3, <1>4, <1>5, <1>8, <1>9, Zenon DEF Fits
<1> HIDE DEF Frame
<1> QED BY <1>8, <1>10, <1>11, FitsStep

LEMMA CleanUpXhrFree == ASSUME Base(todo), Free(todo), CleanUpXhr PROVE Free(todo)'
<1>1. /\ todo # <<>> /\ todo[1].op = "cleanUp" /\ todo[1].op \in Heavy
      /\ UNCHANGED <<active, disposed, timed>>
  BY DEF CleanUpXhr, history, Doing, Heavy, Plain
<1>2. xhr \in Nat BY DEF Base, VarsOK, NumbersOK
<1>3. EndsProperly(todo, active, xhr, timer, disposed, timed) BY DEF Free
<1> HIDE DEF Base, Free
<1>4. PICK q \in Seq(Frame) :
        /\ q = Tail(todo) /\ Above(q) /\ ~Has(q, {"failed"}) /\ ~Has(q, {"cleanUp"})
        /\ Has(todo, {"cleanUp"})
  BY <1>1, PopFree
<1>5. ~active BY <1>3, <1>4, Zenon DEF EndsProperly
<1>6. xhr' = None
  BY DEF CleanUpXhr
<1>7. timer' = None
  <2>1. xhr = None => timer = None BY <1>3, Zenon DEF EndsProperly
  <2> QED BY <2>1 DEF CleanUpXhr
<1>8. CASE todo' = Tail(todo)
  <2>1. \A ops : ~Has(<<>>, ops) BY TupleHas
  <2>2. Above(<<>>) BY <2>1, AboveTuples
  <2>3. Fits(<<>>, q, active', xhr', timer', disposed', timed')
    BY <1>1, <1>4, <1>5, <1>6, <1>7, <2>1, <2>2, Zenon DEF Fits
  <2> QED BY <1>4, <1>8, <2>3, DropFits
<1>9. CASE todo' # Tail(todo)
  <2>1. PICK a, b \in Frame : /\ a = Ready(xhr) /\ b = Closed(xhr)
                              /\ a.op = "dispatch" /\ b.op = "closed"
    BY <1>2, Frames
  <2>2. PICK p : p = <<a, b>> /\ todo' = p \o Tail(todo)
    BY <1>9, <2>1 DEF CleanUpXhr, Push
  <2>3. p \in Seq(Frame) /\ ~Has(p, {"cleanUp"}) /\ ~Has(p, {"failed"})
    BY <2>1, <2>2, Tuples, TupleHas
  <2>4. Above(p) BY <2>3, AboveTuples
  <2>5. Pushed(todo', p, q) BY <1>1, <1>4, <2>2, <2>3, StackStep
  <2>6. Fits(p, q, active', xhr', timer', disposed', timed')
    BY <1>1, <1>4, <1>5, <1>6, <1>7, <2>3, <2>4, Zenon DEF Fits
  <2> HIDE DEF Frame
  <2> QED BY <2>3, <2>5, <2>6, FitsStep
<1> QED BY <1>8, <1>9

-----------------------------------------------------------------------------
(* Calls and the outside: the object is free or active between scripts.  *)

LEMMA SendFree ==
    ASSUME NEW r \in Seq(Frame), Base(r), Free(r), ~Has(r, {"failed"}), ~disposed,
           Send(r), ~thrown'
    PROVE Free(todo)'
<1>1. xhr = None BY DEF Send, Throw
<1>2. EndsProperly(r, active, xhr, timer, disposed, timed) BY DEF Free
<1>3. Above(r) /\ ~Has(r, {"cleanUp"}) /\ timer = None
  BY <1>1, <1>2, Zenon DEF EndsProperly
<1>4. xhr' # None
  <2>1. requests + 1 # 0 BY DEF Base, VarsOK, NumbersOK
  <2> QED BY <1>1, <2>1 DEF Send, None
<1>5. active' = TRUE /\ UNCHANGED <<timer, disposed, timed>> BY <1>1 DEF Send
<1>6. PICK a, b, c \in Frame : /\ a = Op("change") /\ b = Op("opened") /\ c = Op("failed")
                               /\ a.op = "change" /\ b.op = "opened" /\ c.op = "failed"
  BY Frames DEF Plain
<1>7. PICK y \in Seq(Frame) : y = <<a, b>> /\ \A ops : Has(y, ops) <=> a.op \in ops \/ b.op \in ops
  BY Stacks, Zenon
<1>8. PICK z \in Seq(Frame) : z = <<c>> /\ Len(z) = 1 /\ \A ops : Has(z, ops) <=> c.op \in ops
  BY Stacks, Zenon
<1>9. PICK p \in Seq(Frame) : (p = y \/ p = z) /\ Pushed(todo', p, r)
  <2>1. PICK p : Pushed(todo', p, r) /\ p \in {<<Op("change"), Op("opened")>>, <<Op("failed")>>}
    BY <1>1, SendBase
  <2> QED BY <1>6, <1>7, <1>8, <2>1
<1>10. ~Has(p, {"cleanUp"}) /\ (Has(p, {"failed"}) => Len(p) = 1)
  <2>1. ~Has(y, {"cleanUp"}) /\ ~Has(y, {"failed"}) BY <1>6, <1>7
  <2>2. ~Has(z, {"cleanUp"}) BY <1>6, <1>8
  <2> QED BY <1>8, <1>9, <2>1, <2>2
<1>11. Above(p) BY <1>10, AboveTuples
<1>a. xhr' \notin timed'
  <2>1. xhr' = requests + 1 BY <1>1 DEF Send
  <2>2. requests \in Nat /\ \A k \in timed : k \in Nat /\ k <= requests
    BY DEF Base, VarsOK, NumbersOK, LogOK
  <2> QED BY <1>5, <2>1, <2>2
<1>12. Fits(p, r, active', xhr', timer', disposed', timed')
  BY <1>3, <1>4, <1>5, <1>a, <1>10, <1>11, Zenon DEF Fits
<1> HIDE DEF Frame
<1> QED BY <1>9, <1>12, FitsStep

LEMMA AbortFree ==
    ASSUME NEW r \in Seq(Frame), Above(r), ~Has(r, {"failed"}), ~Has(r, {"cleanUp"}),
           NEW s, EndsProperly(s, active, xhr, timer, disposed, timed), xhr \in Nat, Abort(r)
    PROVE Free(todo)'
<1>1. xhr # None /\ active' = FALSE /\ UNCHANGED <<xhr, timer, disposed, timed>> BY DEF Abort, history
<1>2. PICK a, b, c \in Frame :
        /\ a = Dispatch("complete") /\ b = Dispatch("abort") /\ c = Op("cleanUp")
        /\ a.op = "dispatch" /\ b.op = "dispatch" /\ c.op = "cleanUp"
  BY Frames DEF EventTypes, Plain
<1>3. a.op \notin Heavy /\ b.op \notin Heavy BY <1>2 DEF Heavy, Plain
<1>4. PICK p \in Seq(Frame) :
        /\ p = <<a, b, c>> /\ Above(p)
        /\ \A ops : Has(p, ops) <=> a.op \in ops \/ b.op \in ops \/ c.op \in ops
  <2>1. <<a, b, c>> \in Seq(Frame) BY Tuples
  <2>2. Above(<<a, b, c>>) BY <1>3, AboveTuples
  <2>3. \A ops : Has(<<a, b, c>>, ops) <=> a.op \in ops \/ b.op \in ops \/ c.op \in ops
    BY TupleHas
  <2> QED BY <2>1, <2>2, <2>3, Zenon
<1>5. Has(p, {"cleanUp"}) /\ Has(p, Enders) /\ ~Has(p, {"failed"}) BY <1>2, <1>4 DEF Enders
<1>6. todo' = p \o r BY <1>2, <1>4 DEF Abort
<1> HIDE DEF Frame
<1>7. Pushed(todo', p, r) BY <1>6, PushIsPushed
<1> QED BY <1>1, <1>4, <1>5, <1>7, EndStep

LEMMA DisposeFree ==
    ASSUME NEW r \in Seq(Frame), Above(r), ~Has(r, {"failed"}), Dispose(r)
    PROVE Free(todo)'
<1>1. /\ todo' = r /\ xhr' = None /\ active' = FALSE /\ timer' = None /\ disposed' = TRUE
  BY DEF Dispose
<1>2. \A ops : ~Has(<<>>, ops) BY TupleHas
<1>3. Above(<<>>) BY <1>2, AboveTuples
<1>4. Fits(<<>>, r, active', xhr', timer', disposed', timed') BY <1>1, <1>2, <1>3, Zenon DEF Fits
<1> HIDE DEF Frame
<1> QED BY <1>1, <1>4, DropFits

LEMMA ApplicationFree ==
    ASSUME NEW r \in Seq(Frame), Base(r), Free(r), ~Has(r, {"failed"}), ~disposed, ~thrown',
           Send(r) \/ Abort(r) \/ Dispose(r) \/ Throw(r)
    PROVE Free(todo)'
<1>1. EndsProperly(r, active, xhr, timer, disposed, timed) BY DEF Free
<1>2. Above(r) BY <1>1 DEF EndsProperly
<1> HIDE DEF Frame, Free
<1>3. CASE Abort(r)
  <2>1. active BY <1>3 DEF Abort
  <2>2. ~Has(r, {"cleanUp"}) BY <1>1, <2>1, Zenon DEF EndsProperly
  <2>3. xhr \in Nat BY DEF Base, VarsOK, NumbersOK
  <2> QED BY <1>1, <1>2, <1>3, <2>2, <2>3, AbortFree
<1>4. ~Throw(r) BY DEF Throw
<1>5. CASE Send(r)
  <2> HIDE DEF Base
  <2> QED BY <1>5, SendFree
<1>6. CASE Dispose(r) BY <1>2, <1>6, DisposeFree
<1> QED BY <1>3, <1>4, <1>5, <1>6

LEMMA CallFree == ASSUME Base(todo), Free(todo), Call, ~thrown' PROVE Free(todo)'
<1>1. Doing("walk") /\ ~AtEnd(todo[1]) /\ ~disposed BY CalledListener
<1>2. todo # <<>> /\ todo[1].op = "walk" /\ todo[1].op \notin Enders BY <1>1 DEF Doing, Enders
<1>3. PICK p : p = AfterCall(todo[1]) OBVIOUS
<1>4. /\ p \in Seq(Frame) /\ Len(p) \in {1, 2} /\ p[Len(p)].op = "walk"
      /\ Len(p) = 2 => p[1].op = "once"
  BY <1>1, <1>2, <1>3, AfterCallFrames
<1>5. ASSUME NEW ops, "walk" \notin ops, "once" \notin ops PROVE ~Has(p, ops)
  <2>1. \A i \in 1..Len(p) : i = Len(p) \/ (i = 1 /\ Len(p) = 2) BY <1>4
  <2> QED BY <1>4, <1>5, <2>1 DEF Has
<1>6. ~Has(p, {"cleanUp"}) /\ ~Has(p, {"failed"}) /\ ~Has(p, Heavy) BY <1>5 DEF Heavy, Plain
<1> HIDE DEF Base, Free
<1>7. PICK r : r = p \o Tail(todo) OBVIOUS
<1>8. Base(r) /\ Pushed(r, p, Tail(todo)) BY <1>1, <1>3, <1>7, ReturnBase
<1>9. Free(r) /\ ~Has(r, {"failed"}) /\ r \in Seq(Frame) BY <1>2, <1>4, <1>6, <1>8, SameFree
<1>10. CASE /\ todo' = r
            /\ UNCHANGED <<events, io, native, disposed, monitor, fault, history>>
  BY <1>9, <1>10 DEF Free, io, history
<1>11. CASE Send(r) \/ Abort(r) \/ Dispose(r) \/ Throw(r)
  <2> HIDE DEF Frame
  <2> QED BY <1>1, <1>8, <1>9, <1>11, ApplicationFree
<1>12. ASSUME NEW t, NEW fn, Relisten(t, fn, r) PROVE Free(todo)'
  BY <1>9, <1>12 DEF Relisten, Free, io, history
<1> QED BY <1>3, <1>7, <1>10, <1>11, <1>12 DEF Call

LEMMA AbortTimedOutFree == ASSUME Base(todo), Free(todo), AbortTimedOut PROVE Free(todo)'
<1>1. todo # <<>> /\ todo[1].op = "timedOut" /\ todo[1].op \in Heavy
  BY DEF AbortTimedOut, Doing, Heavy, Plain
<1>2. EndsProperly(todo, active, xhr, timer, disposed, timed) BY DEF Free
<1>3. xhr \in Nat BY DEF Base, VarsOK, NumbersOK
<1> HIDE DEF Base, Free
<1>4. PICK q \in Seq(Frame) :
        /\ q = Tail(todo) /\ Above(q) /\ ~Has(q, {"failed"}) /\ ~Has(q, {"cleanUp"})
        /\ ~Has(todo, {"cleanUp"})
  BY <1>1, PopFree
<1>5. CASE xhr # None /\ active
  <2>1. Abort(q) BY <1>4, <1>5 DEF AbortTimedOut
  <2> HIDE DEF Frame
  <2> QED BY <1>2, <1>3, <1>4, <2>1, AbortFree
<1>6. CASE ~(xhr # None /\ active)
  <2>1. xhr = None /\ ~active BY <1>2, <1>4, <1>6, Zenon DEF EndsProperly
  <2>2. todo' = q /\ UNCHANGED <<active, xhr, timer, disposed, timed>>
    BY <1>4, <1>6 DEF AbortTimedOut, io, history
  <2>3. \A ops : ~Has(<<>>, ops) BY TupleHas
  <2>4. Above(<<>>) BY <2>3, AboveTuples
  <2>5. timer # None => timer = xhr BY <1>2 DEF EndsProperly
  <2>6. Fits(<<>>, q, active', xhr', timer', disposed', timed')
    BY <1>4, <2>1, <2>2, <2>3, <2>4, <2>5, Zenon DEF Fits
  <2> HIDE DEF Frame
  <2> QED BY <2>2, <2>6, DropFits
<1> QED BY <1>5, <1>6

\* A script begins.
LEMMA IdleFree ==
    ASSUME Idle, Free(todo), NEW p \in Seq(Frame), todo' = p,
           ~Has(p, {"cleanUp"}), ~Has(p, {"failed"}), UNCHANGED <<active, xhr, disposed, timed>>,
           timer' # None => timer' = timer,
           timer' # timer => (xhr # None => Has(p, Enders))
    PROVE Free(todo)'
<1>1. todo = <<>> /\ \A ops : ~Has(<<>>, ops) BY TupleHas DEF Idle
<1>2. PICK q \in Seq(Frame) : q = <<>> BY Tuples
<1>3. EndsProperly(q, active, xhr, timer, disposed, timed) BY <1>1, <1>2 DEF Free
<1>4. Above(p) /\ Above(q) BY <1>1, <1>2, AboveTuples
<1> HIDE DEF Frame
<1>5. Pushed(p, p, q)
  <2>1. p \o <<>> = p BY ConcatEmptySeq
  <2> QED BY <1>2, <2>1, PushIsPushed
<1>6. \A ops : ~Has(q, ops) BY <1>1, <1>2
<1>7. Fits(p, q, active', xhr', timer', disposed', timed')
  <2>1. xhr # None => (xhr \in timed => (timer' = None => Has(p, Enders)))
    BY <1>3, <1>6, Zenon DEF EndsProperly
  <2> QED BY <1>3, <1>4, <1>6, <2>1, Zenon DEF EndsProperly, Fits
<1> QED BY <1>5, <1>7, FitsStep

LEMMA OutsideFree ==
    ASSUME Base(todo), Free(todo), Application \/ NetworkChange \/ TimerFires \/ Recheck,
           ~thrown'
    PROVE Free(todo)'
<1>1. xhr \in Nat BY DEF Base, VarsOK, NumbersOK
<1>2. PICK e \in Frame : e = Op("change") /\ e.op = "change" BY Frames DEF Plain
<1>3. PICK y \in Seq(Frame) : y = <<e>> /\ \A ops : Has(y, ops) <=> e.op \in ops
  BY Stacks, Zenon
<1>4. ~Has(y, {"cleanUp"}) /\ ~Has(y, {"failed"}) BY <1>2, <1>3
<1>5. <<>> \in Seq(Frame) /\ \A ops : ~Has(<<>>, ops) BY Tuples, TupleHas
<1> HIDE DEF Base, Free
<1>6. CASE NetworkChange \/ Recheck
  <2>1. /\ Idle /\ todo' = y /\ UNCHANGED <<active, xhr, timer, disposed, timed>>
    BY <1>2, <1>3, <1>6 DEF NetworkChange, Recheck, io, history
  <2> HIDE DEF Frame
  <2> QED BY <1>4, <2>1, IdleFree
<1>7. CASE TimerFires
  <2>1. /\ Idle /\ timer # None /\ timer' = None /\ UNCHANGED <<active, xhr, disposed, timed>>
        /\ todo' = IF xhr = None THEN <<>> ELSE <<Dispatch("timeout"), Op("timedOut")>>
    BY <1>7 DEF TimerFires, history
  <2>2. PICK a, b \in Frame : /\ a = Dispatch("timeout") /\ b = Op("timedOut")
                              /\ a.op = "dispatch" /\ b.op = "timedOut"
    BY <1>1, Frames DEF EventTypes, Plain
  <2>3. PICK z \in Seq(Frame) : z = <<a, b>> /\ \A ops : Has(z, ops) <=> a.op \in ops \/ b.op \in ops
    BY Stacks, Zenon
  <2>4. ~Has(z, {"cleanUp"}) /\ ~Has(z, {"failed"}) /\ Has(z, Enders) BY <2>2, <2>3 DEF Enders
  <2>5. PICK p \in Seq(Frame) : /\ todo' = p /\ ~Has(p, {"cleanUp"}) /\ ~Has(p, {"failed"})
                                /\ xhr # None => Has(p, Enders)
    <3>1. CASE xhr = None BY <1>5, <2>1, <3>1
    <3>2. CASE xhr # None BY <2>1, <2>2, <2>3, <2>4, <3>2
    <3> QED BY <3>1, <3>2
  <2> HIDE DEF Frame
  <2> QED BY <2>1, <2>5, IdleFree
<1>8. CASE Application
  <2>1. PICK r \in Seq(Frame) : r = <<>> /\ r = todo BY <1>5, <1>8 DEF Application, Idle
  <2>2. Base(r) /\ Free(r) /\ ~Has(r, {"failed"}) /\ Above(r)
    <3>1. ~Has(r, {"cleanUp"}) /\ ~Has(r, {"failed"}) BY <1>5, <2>1
    <3> QED BY <2>1, <3>1, AboveTuples
  <2>3. CASE ~disposed /\ (Send(r) \/ Abort(r) \/ Dispose(r))
    <3> HIDE DEF Frame
    <3> QED BY <2>2, <2>3, ApplicationFree
  <2>4. ~Abort(r) \/ ~disposed
    <3>1. EndsProperly(r, active, xhr, timer, disposed, timed) BY <2>2 DEF Free
    <3>2. disposed => xhr = None BY <3>1 DEF EndsProperly
    <3> QED BY <3>2 DEF Abort
  <2>5. Dispose(r) => ~disposed BY DEF Dispose
  <2> QED BY <1>8, <2>1, <2>3, <2>4, <2>5 DEF Application
<1> QED BY <1>6, <1>7, <1>8

LEMMA ThrownStays == ASSUME Base(todo), [Next]_vars, thrown PROVE thrown'
<1>1. CASE Call BY <1>1 DEF Call, Send, Throw, Abort, Dispose, Relisten, fault
<1>2. CASE Script /\ ~Call
  BY <1>2 DEF Script, EventStep, DispatchEvent, PopContext, StateChange, CheckComplete, Fail,
     SendOpened, SendThrows, SendsRequest, SendReturns, CleanUpXhr,
     CloseXhr, AbortTimedOut, Abort, Unwind, fault
<1>3. CASE Application \/ NetworkChange \/ TimerFires \/ Recheck
  BY <1>3 DEF Application, NetworkChange, TimerFires, Recheck, Send, Throw, Abort, Dispose, fault
<1>4. CASE UNCHANGED vars BY <1>4 DEF vars, fault
<1> QED BY <1>1, <1>2, <1>3, <1>4 DEF Next

\* An exception that is on its way up has cut the script short, or is the last
\* of it.
ThrowsOK == throwing => (thrown \/ Idle)

LEMMA ThrowsInductive == ASSUME Base(todo), ThrowsOK, [Next]_vars PROVE ThrowsOK'
<1>0. Doing("pop") => ~Idle BY DEF Doing, Idle
<1>1. CASE Call
  BY <1>1 DEF Call, Send, Throw, Abort, Dispose, Relisten, fault, ThrowsOK
<1>2. CASE PopContext BY <1>0, <1>2, ThrownStays DEF PopContext, fault, ThrowsOK
<1>3. CASE SendOpened BY <1>3 DEF SendOpened, SendThrows, SendsRequest, ThrowsOK, Idle
<1>4. CASE SendReturns BY <1>4 DEF SendReturns, ThrowsOK
<1>5. CASE Unwind BY <1>5 DEF Unwind, ThrowsOK, Idle
<1>6. CASE Script /\ ~Call /\ ~PopContext /\ ~SendOpened /\ ~SendReturns /\ ~Unwind
  <2>1. ~throwing /\ UNCHANGED fault
    BY <1>6 DEF Script, EventStep, DispatchEvent, StateChange, CheckComplete, Fail,
       CleanUpXhr, CloseXhr, AbortTimedOut, Abort
  <2> QED BY <2>1 DEF fault, ThrowsOK
<1>7. CASE Application \/ NetworkChange \/ TimerFires \/ Recheck
  BY <1>7 DEF Application, NetworkChange, TimerFires, Recheck, Send, Throw, Abort, Dispose,
     fault, ThrowsOK
<1>8. CASE UNCHANGED vars BY <1>8 DEF vars, fault, ThrowsOK, Idle
<1> QED BY <1>1, <1>2, <1>3, <1>4, <1>5, <1>6, <1>7, <1>8 DEF Next, Script

\* An exception on its way up has cut a script short, or nothing is left of its
\* script.
THEOREM ThrowsHolds == Spec => []ThrowsOK
<1>1. Init => ThrowsOK BY DEF Init, ThrowsOK
<1>2. Base(todo) /\ ThrowsOK /\ [Next]_vars => ThrowsOK' BY ThrowsInductive
<1> QED BY <1>1, <1>2, BaseHolds, PTL DEF Spec

\* When no exception has cut a script short, one that is on its way up ends with
\* its script.
LEMMA UnwindIsQuiet ==
    ASSUME ThrowsOK, Unwind, ~thrown
    PROVE UNCHANGED <<events, todo, io, native, disposed, monitor, thrown, history>>
  BY DEF ThrowsOK, Unwind

FreeInv == ~thrown => Free(todo)

LEMMA FreeInductive ==
    ASSUME Base(todo), ThrowsOK, FreeInv, [Next]_vars PROVE FreeInv'
<1> SUFFICES ASSUME ~thrown' PROVE Free(todo)' BY DEF FreeInv
<1>1. ~thrown BY ThrownStays
<1>2. Free(todo) BY <1>1 DEF FreeInv
<1>3. CASE Unwind BY <1>1, <1>2, <1>3, UnwindIsQuiet DEF io, history, Free
<1> HIDE DEF Base, Free
<1>4. CASE Script /\ ~Unwind
  <2>1. CASE PopContext \/ SendReturns \/ CloseXhr BY <1>2, <2>1, PlainFree
  <2> QED BY <1>2, <1>4, <2>1, CallFree, EventStepFree, DispatchFree, StateChangeFree,
             CheckCompleteFree, FailFree, SendThrowsFree, SendsRequestFree, CleanUpXhrFree,
             AbortTimedOutFree DEF Script, SendOpened
<1>5. CASE Application \/ NetworkChange \/ TimerFires \/ Recheck BY <1>2, <1>5, OutsideFree
<1>6. CASE UNCHANGED vars BY <1>2, <1>6 DEF vars, io, history, Free
<1> QED BY <1>3, <1>4, <1>5, <1>6 DEF Next, Script

LEMMA InitFree == Init => FreeInv
<1> SUFFICES ASSUME Init PROVE Free(todo) BY DEF FreeInv
<1>1. \A ops : ~Has(<<>>, ops) BY TupleHas
<1>2. Above(<<>>) BY <1>1, AboveTuples
<1>3. todo = <<>> /\ xhr = None /\ active = FALSE /\ timer = None /\ disposed = FALSE BY DEF Init
<1>4. EndsProperly(todo, active, xhr, timer, disposed, timed) BY <1>1, <1>2, <1>3 DEF EndsProperly
<1>5. FailedFirst(todo, active) BY <1>3 DEF FailedFirst
<1> QED BY <1>4, <1>5 DEF Free

\* As long as no exception cuts a script short, the object is as EndsProperly and
\* FailedFirst say in every state.
THEOREM FreeHolds == Spec => [](Base(todo) /\ FreeInv)
<1>1. Init => FreeInv BY InitFree
<1>2. Base(todo) /\ ThrowsOK /\ FreeInv /\ [Next]_vars => FreeInv' BY FreeInductive
<1> QED BY <1>1, <1>2, BaseHolds, ThrowsHolds, PTL DEF Spec

\* Between scripts the object is free, with no timeout left, or has an active
\* request, with a timeout of its own exactly if an interval was set when it was
\* sent, as long as no exception cuts a script short.
THEOREM FreeOrActiveHolds == Spec => []FreeOrActive
<1>1. Base(todo) /\ FreeInv => FreeOrActive
  <2> SUFFICES ASSUME Base(todo), FreeInv, Idle, ~thrown
               PROVE /\ timer = IF xhr \in timed THEN xhr ELSE None
                     /\ active <=> xhr # None
    BY DEF FreeOrActive
  <2>1. \A ops : ~Has(todo, ops) BY TupleHas DEF Idle
  <2>2. EndsProperly(todo, active, xhr, timer, disposed, timed) BY DEF FreeInv, Free
  <2>3. /\ timer # None => timer = xhr /\ timer \in timed
        /\ xhr # None => (xhr \in timed => timer # None)
    BY <2>1, <2>2, Zenon DEF EndsProperly
  <2>4. active => xhr # None BY <2>2 DEF EndsProperly
  <2>5. xhr # None => active BY <2>1, <2>2, Zenon DEF EndsProperly
  <2>6. timer = IF xhr \in timed THEN xhr ELSE None BY <2>3
  <2>7. active <=> xhr # None BY <2>4, <2>5, Zenon
  <2> QED BY <2>6, <2>7
<1> QED BY <1>1, FreeHolds, PTL

-----------------------------------------------------------------------------
(* Contexts, and the frames that take them off.  *)

SlotFrames == {f \in Frame : f.op \in Slots}

Closes(s, r) == \E i \in 1..Len(s) : s[i].op = "closed" /\ s[i].req = r

\* As many contexts as frames that take one off, and only the present request
\* and those that are about to be closed block any.
Released(s) ==
    /\ Len(contexts) = Cardinality(Places(s, SlotFrames))
    /\ \A b \in blocked : b[2] = xhr \/ Closes(s, b[2])

LEMMA SlotsPush ==
    ASSUME NEW p \in Seq(Frame), NEW q \in Seq(Frame), NEW s, Pushed(s, p, q)
    PROVE /\ Cardinality(Places(s, SlotFrames))
                = Cardinality(Places(p, SlotFrames)) + Cardinality(Places(q, SlotFrames))
          /\ ~Has(p, Slots) => Cardinality(Places(p, SlotFrames)) = 0
          /\ Cardinality(Places(q, SlotFrames)) \in Nat
          /\ \A r : Closes(q, r) => Closes(s, r)
          /\ \A r : Closes(p, r) => Closes(s, r)
<1>1. ~Has(p, Slots) => Cardinality(Places(p, SlotFrames)) = 0
  <2> HAVE ~Has(p, Slots)
  <2>1. \A i \in 1..Len(p) : p[i] \notin SlotFrames BY DEF Has, SlotFrames
  <2> QED BY <2>1, NoPlaces
<1> HIDE DEF Frame
<1>2. \A r : Closes(q, r) => Closes(s, r) BY PushedAt DEF Closes
<1>3. \A r : Closes(p, r) => Closes(s, r) BY PushedAt DEF Closes
<1>4. /\ Cardinality(Places(s, SlotFrames))
            = Cardinality(Places(p, SlotFrames)) + Cardinality(Places(q, SlotFrames))
      /\ Cardinality(Places(q, SlotFrames)) \in Nat
  BY PlacesAdd, PlacesFinite
<1> QED BY <1>1, <1>2, <1>3, <1>4

LEMMA SlotsPop ==
    ASSUME NEW s \in Seq(Frame), s # <<>>
    PROVE /\ Tail(s) \in Seq(Frame) /\ Cardinality(Places(Tail(s), SlotFrames)) \in Nat
          /\ s[1].op \notin Slots =>
                /\ Cardinality(Places(Tail(s), SlotFrames)) = Cardinality(Places(s, SlotFrames))
                /\ \A r : Closes(s, r) => Closes(Tail(s), r)
          /\ s[1].op \in Slots =>
                Cardinality(Places(s, SlotFrames)) = Cardinality(Places(Tail(s), SlotFrames)) + 1
          /\ \A r : Closes(s, r) =>
                Closes(Tail(s), r) \/ (s[1].op = "closed" /\ s[1].req = r)
<1>1. s[1] \in Frame /\ Tail(s) \in Seq(Frame) BY TailIsPopped
<1>2. s[1] \in SlotFrames <=> s[1].op \in Slots BY <1>1 DEF SlotFrames
<1>3. /\ Len(s) \in Nat \ {0} /\ Len(Tail(s)) = Len(s) - 1
      /\ \A i \in 1..(Len(s) - 1) : Tail(s)[i] = s[i + 1]
  BY TailIsPopped
<1> HIDE DEF Frame
<1>4. Cardinality(Places(Tail(s), SlotFrames)) \in Nat BY <1>1, PlacesFinite
<1>5. Cardinality(Places(s, SlotFrames))
        = (IF s[1] \in SlotFrames THEN 1 ELSE 0) + Cardinality(Places(Tail(s), SlotFrames))
  BY HeadCounts
<1>6. ASSUME NEW r, Closes(s, r)
      PROVE Closes(Tail(s), r) \/ (s[1].op = "closed" /\ s[1].req = r)
  <2>1. PICK i \in 1..Len(s) : s[i].op = "closed" /\ s[i].req = r BY <1>6 DEF Closes
  <2>2. CASE i = 1 BY <2>1, <2>2
  <2>3. CASE i # 1
    <3>1. i - 1 \in 1..Len(Tail(s)) /\ Tail(s)[i - 1] = s[i] BY <1>3, <2>3
    <3> QED BY <2>1, <3>1 DEF Closes
  <2> QED BY <2>2, <2>3
<1>7. s[1].op \notin Slots => s[1].op # "closed" BY DEF Slots
<1> QED BY <1>1, <1>2, <1>4, <1>5, <1>6, <1>7

\* The stack changes, the monitor does not.
LEMMA KeepReleased ==
    ASSUME Base(todo), Released(todo), todo # <<>>, todo[1].op \notin Slots,
           NEW p \in Seq(Frame), ~Has(p, Slots), NEW r, Pushed(r, p, Tail(todo))
    PROVE Released(r)
<1>1. todo \in Seq(Frame) BY DEF Base
<1>2. PICK q \in Seq(Frame) :
        /\ q = Tail(todo)
        /\ Cardinality(Places(q, SlotFrames)) = Cardinality(Places(todo, SlotFrames))
        /\ \A k : Closes(todo, k) => Closes(q, k)
  BY <1>1, SlotsPop
<1> HIDE DEF Base, Frame
<1>3. Pushed(r, p, q) BY <1>2
<1>4. /\ Cardinality(Places(r, SlotFrames)) = 0 + Cardinality(Places(q, SlotFrames))
      /\ Cardinality(Places(q, SlotFrames)) \in Nat
      /\ \A k : Closes(q, k) => Closes(r, k)
  BY <1>3, SlotsPush
<1>5. Len(contexts) = Cardinality(Places(r, SlotFrames)) BY <1>2, <1>4 DEF Released
<1>6. \A k : Closes(todo, k) => Closes(r, k) BY <1>2, <1>4
<1> QED BY <1>5, <1>6 DEF Released

LEMMA KeepStep ==
    ASSUME Base(todo), Released(todo), todo # <<>>, todo[1].op \notin Slots,
           NEW p \in Seq(Frame), ~Has(p, Slots), Pushed(todo', p, Tail(todo)),
           UNCHANGED <<xhr, contexts, blocked>>
    PROVE Released(todo)'
<1>1. PICK r : r = todo' OBVIOUS
<1> HIDE DEF Base, Frame, Released
<1>2. Released(r) BY <1>1, KeepReleased
<1> QED BY <1>1, <1>2 DEF Released

LEMMA KeepDrop ==
    ASSUME Base(todo), Released(todo), todo # <<>>, todo[1].op \notin Slots,
           todo' = Tail(todo), UNCHANGED <<xhr, contexts, blocked>>
    PROVE Released(todo)'
<1>1. <<>> \in Seq(Frame) /\ ~Has(<<>>, Slots) BY Tuples, TupleHas
<1>2. Tail(todo) \in Seq(Frame) BY TailIsPopped DEF Base
<1>3. Pushed(todo', <<>>, Tail(todo)) BY <1>2, PopIsPushed
<1> HIDE DEF Base, Frame, Released
<1> QED BY <1>1, <1>3, KeepStep

\* A push on "r" that leaves the contexts alone.
LEMMA PushReleased ==
    ASSUME NEW p \in Seq(Frame), NEW r \in Seq(Frame), ~Has(p, Slots), Pushed(todo', p, r),
           Released(r), UNCHANGED contexts,
           \A b \in blocked' : b[2] = xhr' \/ Closes(r, b[2])
    PROVE Released(todo)'
<1>1. PICK s : s = todo' OBVIOUS
<1> HIDE DEF Frame
<1>2. Pushed(s, p, r) BY <1>1
<1>3. /\ Cardinality(Places(s, SlotFrames)) = 0 + Cardinality(Places(r, SlotFrames))
      /\ Cardinality(Places(r, SlotFrames)) \in Nat
      /\ \A k : Closes(r, k) => Closes(s, k)
  BY <1>2, SlotsPush
<1>4. Len(contexts) = Cardinality(Places(s, SlotFrames)) BY <1>3 DEF Released
<1>5. \A b \in blocked' : b[2] = xhr' \/ Closes(s, b[2]) BY <1>3
<1> QED BY <1>1, <1>4, <1>5 DEF Released

\* A context is put on together with the frame that takes it off.
LEMMA OpenReleased ==
    ASSUME Base(todo), Released(todo), todo # <<>>, todo[1].op \notin Slots,
           NEW p \in Seq(Frame), Cardinality(Places(p, SlotFrames)) = 1,
           Pushed(todo', p, Tail(todo)), NEW c, contexts' = Append(contexts, c), c \in Requests,
           UNCHANGED blocked, xhr' = xhr \/ Closes(p, xhr)
    PROVE Released(todo)'
<1>1. todo \in Seq(Frame) BY DEF Base
<1>2. PICK q \in Seq(Frame) :
        /\ q = Tail(todo)
        /\ Cardinality(Places(q, SlotFrames)) = Cardinality(Places(todo, SlotFrames))
        /\ \A k : Closes(todo, k) => Closes(q, k)
  BY <1>1, SlotsPop
<1>3. PICK s : s = todo' OBVIOUS
<1>4. Len(contexts') = Len(contexts) + 1 /\ Len(contexts) \in Nat
  BY AppendProperties, LenProperties DEF Base, VarsOK, MonitorOK
<1> HIDE DEF Base, Frame
<1>5. Pushed(s, p, q) BY <1>2, <1>3
<1>6. /\ Cardinality(Places(s, SlotFrames)) = 1 + Cardinality(Places(q, SlotFrames))
      /\ Cardinality(Places(q, SlotFrames)) \in Nat
      /\ \A k : Closes(q, k) => Closes(s, k)
      /\ \A k : Closes(p, k) => Closes(s, k)
  BY <1>5, SlotsPush
<1>7. Len(contexts') = Cardinality(Places(s, SlotFrames)) BY <1>2, <1>4, <1>6 DEF Released
<1>8. \A b \in blocked' : b[2] = xhr' \/ Closes(s, b[2])
  <2> SUFFICES ASSUME NEW b \in blocked' PROVE b[2] = xhr' \/ Closes(s, b[2]) OBVIOUS
  <2>1. b[2] = xhr \/ Closes(todo, b[2]) BY DEF Released
  <2> QED BY <1>2, <1>6, <2>1
<1> QED BY <1>3, <1>7, <1>8 DEF Released

LEMMA PoppedSeconds ==
    ASSUME NEW b \in Popped PROVE \E x \in blocked : b[2] = x[2]
  BY DEF Popped

\* A context is taken off with its frame.
LEMMA CloseReleased ==
    ASSUME Base(todo), Released(todo), todo # <<>>, todo[1].op \in Slots, todo' = Tail(todo),
           contexts' = Front(contexts), UNCHANGED xhr, blocked' \subseteq Popped,
           todo[1].op = "closed" => \A b \in blocked' : b[2] # todo[1].req
    PROVE Released(todo)'
<1>1. todo \in Seq(Frame) BY DEF Base
<1>2. PICK q \in Seq(Frame) :
        /\ q = Tail(todo)
        /\ Cardinality(Places(q, SlotFrames)) \in Nat
        /\ Cardinality(Places(todo, SlotFrames)) = Cardinality(Places(q, SlotFrames)) + 1
        /\ \A k : Closes(todo, k) => Closes(q, k) \/ (todo[1].op = "closed" /\ todo[1].req = k)
  BY <1>1, SlotsPop
<1>3. Len(contexts) # 0 BY <1>2 DEF Released
<1>4. Len(Front(contexts)) = Len(contexts) - 1
  <2>1. contexts \in Seq(Requests) BY DEF Base, VarsOK, MonitorOK
  <2>2. Len(contexts) \in Nat BY <2>1, LenProperties
  <2>3. Len(contexts) - 1 \in Nat BY <1>3, <2>2
  <2>4. Front(contexts) = [i \in 1..(Len(contexts) - 1) |-> contexts[i]]
    BY <2>1 DEF Front
  <2> QED BY <2>3, <2>4
<1>5. Len(contexts') = Cardinality(Places(q, SlotFrames)) BY <1>2, <1>4 DEF Released
<1>6. \A b \in blocked' : b[2] = xhr' \/ Closes(q, b[2])
  <2> SUFFICES ASSUME NEW b \in blocked' PROVE b[2] = xhr' \/ Closes(q, b[2]) OBVIOUS
  <2>1. PICK x \in blocked : b[2] = x[2] BY PoppedSeconds
  <2>2. b[2] = xhr \/ Closes(todo, b[2]) BY <2>1 DEF Released
  <2> QED BY <1>2, <2>2
<1> QED BY <1>2, <1>5, <1>6 DEF Released

-----------------------------------------------------------------------------
(* The steps of XhrIo and the monitor.  *)

LEMMA EventStepReleased ==
    ASSUME Base(todo), Released(todo), EventStep PROVE Released(todo)'
<1>1. UNCHANGED <<xhr, contexts, blocked>> BY DEF EventStep, io, monitor
<1> HIDE DEF Base, Released
<1>2. CASE Skip
  <2>1. PICK w : w = todo[1] OBVIOUS
  <2>2. todo # <<>> /\ w.op = "walk" /\ w \in Frame
    BY <1>2, <2>1, TailIsPopped DEF Skip, Doing, Base
  <2>3. PICK v : v = [w EXCEPT !.at = @ + 1] OBVIOUS
  <2>4. v \in Frame /\ v.op = "walk"
    <3>1. w \in [op : {"walk"}, type : Types, at : Nat \ {0}, len : Nat]
      BY <2>2 DEF Frame, Plain
    <3>2. v \in [op : {"walk"}, type : Types, at : Nat \ {0}, len : Nat] BY <2>3, <3>1
    <3> QED BY <3>2 DEF Frame
  <2>5. PICK p \in Seq(Frame) : p = <<v>> /\ \A ops : Has(p, ops) <=> v.op \in ops
    BY <2>4, Stacks, Zenon
  <2>6. todo' = p \o Tail(todo) BY <1>2, <2>1, <2>3, <2>5 DEF Skip, Push
  <2>7. Pushed(todo', p, Tail(todo)) BY <2>2, <2>6, StackStep
  <2>8. ~Has(p, Slots) /\ todo[1].op \notin Slots BY <2>1, <2>2, <2>4, <2>5 DEF Slots
  <2> QED BY <1>1, <2>2, <2>7, <2>8, KeepStep
<1>3. CASE RemoveOnce \/ EndWalk
  <2>1. todo # <<>> /\ todo[1].op \notin Slots /\ todo' = Tail(todo)
    BY <1>3 DEF RemoveOnce, EndWalk, Doing, Slots
  <2> QED BY <1>1, <2>1, KeepDrop
<1> QED BY <1>2, <1>3 DEF EventStep

LEMMA DispatchReleased ==
    ASSUME Base(todo), Released(todo), DispatchEvent PROVE Released(todo)'
<1>1. todo # <<>> /\ todo[1].op \notin Slots /\ UNCHANGED <<xhr, blocked>>
  BY DEF DispatchEvent, Doing, Slots, io
<1>2. PICK p \in Seq(Frame) :
        /\ Pushed(todo', p, Tail(todo))
        /\ Len(p) = IF xhr = None THEN 1 ELSE 2
        /\ p[1].op = "walk"
        /\ xhr # None => p[2] = Op("pop")
  BY DispatchBase
<1>3. CASE xhr = None
  <2>1. ~Has(p, Slots) BY <1>2, <1>3 DEF Has, Slots
  <2>2. UNCHANGED contexts BY <1>3 DEF DispatchEvent
  <2> HIDE DEF Base, Released
  <2> QED BY <1>1, <1>2, <2>1, <2>2, KeepStep
<1>4. CASE xhr # None
  <2>1. \A i \in 1..Len(p) : p[i] \in Frame BY ElementOfSeq
  <2>2. p[2].op = "pop" /\ 2 \in 1..Len(p) /\ \A i \in 1..Len(p) : i = 1 \/ i = 2
    BY <1>2, <1>4, Frames DEF Plain
  <2>3. \A i \in 1..Len(p) : p[i] \in SlotFrames <=> i = 2
    BY <1>2, <2>1, <2>2 DEF SlotFrames, Slots
  <2>4. Cardinality(Places(p, SlotFrames)) = 1 BY <2>2, <2>3, OnePlace
  <2>5. xhr \in Requests BY <1>4, BoundsAssumption DEF Base, VarsOK, NumbersOK, Requests, None
  <2>6. contexts' = Append(contexts, xhr) BY <1>4 DEF DispatchEvent
  <2> HIDE DEF Base, Released, Frame
  <2> QED BY <1>1, <1>2, <2>4, <2>5, <2>6, OpenReleased
<1> QED BY <1>3, <1>4

LEMMA PopContextReleased ==
    ASSUME Base(todo), Released(todo), PopContext PROVE Released(todo)'
<1>1. /\ todo # <<>> /\ todo[1].op = "pop" /\ todo[1].op \in Slots /\ todo' = Tail(todo)
      /\ contexts' = Front(contexts) /\ UNCHANGED xhr /\ blocked' \subseteq Popped
  BY DEF PopContext, Doing, Slots, io
<1> HIDE DEF Base, Released
<1> QED BY <1>1, CloseReleased

LEMMA CloseXhrReleased ==
    ASSUME Base(todo), Released(todo), CloseXhr PROVE Released(todo)'
<1>1. /\ todo # <<>> /\ todo[1].op \in Slots /\ todo' = Tail(todo)
      /\ contexts' = Front(contexts) /\ UNCHANGED xhr
  BY DEF CloseXhr, Doing, Slots, io
<1>2. blocked' \subseteq Popped /\ \A b \in blocked' : b[2] # todo[1].req
  BY DEF CloseXhr, MarkClosed
<1> HIDE DEF Base, Released
<1> QED BY <1>1, <1>2, CloseReleased

LEMMA StateChangeReleased ==
    ASSUME Base(todo), Released(todo), StateChange PROVE Released(todo)'
<1>1. todo # <<>> /\ todo[1].op \notin Slots /\ UNCHANGED <<xhr, contexts, blocked>>
  BY DEF StateChange, Doing, Slots, io, monitor
<1>2. PICK a, b \in Frame : /\ a = Dispatch("change") /\ b = Op("complete")
                            /\ a.op = "dispatch" /\ b.op = "complete"
  BY Frames DEF Base, VarsOK, NumbersOK, EventTypes, Plain
<1>3. PICK p \in Seq(Frame) : p = <<a, b>> /\ \A ops : Has(p, ops) <=> a.op \in ops \/ b.op \in ops
  BY Stacks, Zenon
<1> HIDE DEF Base, Released
<1>4. CASE todo' = Tail(todo) BY <1>1, <1>4, KeepDrop
<1>5. CASE todo' # Tail(todo)
  <2>1. todo' = p \o Tail(todo) BY <1>2, <1>3, <1>5 DEF StateChange, Push
  <2>2. Pushed(todo', p, Tail(todo)) BY <1>1, <2>1, StackStep
  <2>3. ~Has(p, Slots) BY <1>2, <1>3 DEF Slots
  <2> QED BY <1>1, <2>2, <2>3, KeepStep
<1> QED BY <1>4, <1>5

\* CheckComplete and Fail push the end of a request.
LEMMA EndReleased ==
    ASSUME Base(todo), Released(todo), todo # <<>>, todo[1].op \notin Slots,
           UNCHANGED <<xhr, contexts, blocked>>,
           NEW o, todo' = (o \o <<Op("cleanUp")>>) \o Tail(todo),
           NEW t \in EventTypes, o \in {<<>>, <<Dispatch("complete"), Dispatch(t)>>}
    PROVE Released(todo)'
<1>1. xhr \in Nat BY DEF Base, VarsOK, NumbersOK
<1>2. PICK p \in Seq(Frame) : p = o \o <<Op("cleanUp")>> /\ ~Has(p, Slots) BY <1>1, EndStack
<1> HIDE DEF Base, Released
<1>3. Pushed(todo', p, Tail(todo)) BY <1>2, StackStep
<1> QED BY <1>2, <1>3, KeepStep

LEMMA CheckCompleteReleased ==
    ASSUME Base(todo), Released(todo), CheckComplete PROVE Released(todo)'
<1>1. todo # <<>> /\ todo[1].op \notin Slots /\ UNCHANGED <<xhr, contexts, blocked>>
  BY DEF CheckComplete, Doing, Slots, monitor
<1> HIDE DEF Base, Released
<1>2. CASE xhr = None \/ state # 4
  <2>1. todo' = Tail(todo) BY <1>2 DEF CheckComplete
  <2> QED BY <1>1, <2>1, KeepDrop
<1>3. CASE xhr # None /\ state = 4
  <2>1. PICK o :
            /\ o \in {<<Dispatch("complete"), Dispatch("success")>>, <<>>,
                      <<Dispatch("complete"), Dispatch("error")>>}
            /\ todo' = (o \o <<Op("cleanUp")>>) \o Tail(todo)
    BY <1>3 DEF CheckComplete, Push
  <2>2. "success" \in EventTypes /\ "error" \in EventTypes BY DEF EventTypes
  <2>3. \/ o \in {<<>>, <<Dispatch("complete"), Dispatch("success")>>}
        \/ o \in {<<>>, <<Dispatch("complete"), Dispatch("error")>>}
    BY <2>1
  <2> QED BY <1>1, <2>1, <2>2, <2>3, EndReleased
<1> QED BY <1>2, <1>3

LEMMA FailReleased == ASSUME Base(todo), Released(todo), Fail PROVE Released(todo)'
<1>1. todo # <<>> /\ todo[1].op \notin Slots /\ UNCHANGED <<xhr, contexts, blocked>>
  BY DEF Fail, Doing, Slots, monitor
<1>2. PICK o : /\ o \in {<<>>, <<Dispatch("complete"), Dispatch("error")>>}
               /\ todo' = (o \o <<Op("cleanUp")>>) \o Tail(todo)
  BY DEF Fail, Push
<1>3. "error" \in EventTypes BY DEF EventTypes
<1> HIDE DEF Base, Released
<1> QED BY <1>1, <1>2, <1>3, EndReleased

LEMMA SendOpenedReleased ==
    ASSUME Base(todo), Released(todo), SendOpened PROVE Released(todo)'
<1>1. todo # <<>> /\ todo[1].op \notin Slots /\ UNCHANGED <<xhr, contexts, blocked>>
  BY DEF SendOpened, Doing, Slots, monitor
<1> HIDE DEF Base, Released
<1>2. CASE SendThrows
  <2>1. todo' = Tail(todo) BY <1>2 DEF SendThrows
  <2> QED BY <1>1, <2>1, KeepDrop
<1>3. CASE SendsRequest
  <2>1. PICK a, b, c \in Frame : /\ a = Op("failed") /\ b = Op("sent") /\ c = Op("change")
                                 /\ a.op = "failed" /\ b.op = "sent" /\ c.op = "change"
    BY Frames DEF Plain
  <2>2. PICK y \in Seq(Frame) : y = <<a>> /\ \A ops : Has(y, ops) <=> a.op \in ops
    BY Stacks, Zenon
  <2>3. PICK z \in Seq(Frame) : z = <<b>> /\ \A ops : Has(z, ops) <=> b.op \in ops
    BY Stacks, Zenon
  <2>4. PICK w \in Seq(Frame) : w = <<c, b>> /\ \A ops : Has(w, ops) <=> c.op \in ops \/ b.op \in ops
    BY Stacks, Zenon
  <2>5. PICK p \in {y, z, w} : todo' = p \o Tail(todo)
    BY <1>3, <2>1, <2>2, <2>3, <2>4 DEF SendsRequest, NativeSend, Push
  <2>6. ~Has(y, Slots) /\ ~Has(z, Slots) /\ ~Has(w, Slots)
    BY <2>1, <2>2, <2>3, <2>4 DEF Slots
  <2>7. p \in Seq(Frame) /\ ~Has(p, Slots) BY <2>5, <2>6
  <2>8. Pushed(todo', p, Tail(todo)) BY <1>1, <2>5, <2>7, StackStep
  <2> QED BY <1>1, <2>7, <2>8, KeepStep
<1> QED BY <1>2, <1>3 DEF SendOpened

LEMMA SendReturnsReleased ==
    ASSUME Base(todo), Released(todo), SendReturns PROVE Released(todo)'
<1>1. /\ todo # <<>> /\ todo[1].op \notin Slots /\ todo' = Tail(todo)
      /\ UNCHANGED <<xhr, contexts, blocked>>
  BY DEF SendReturns, Doing, Slots, monitor
<1> HIDE DEF Base, Released
<1> QED BY <1>1, KeepDrop

LEMMA CleanUpXhrReleased ==
    ASSUME Base(todo), Released(todo), CleanUpXhr PROVE Released(todo)'
<1>1. todo # <<>> /\ todo[1].op \notin Slots /\ UNCHANGED blocked
  BY DEF CleanUpXhr, Doing, Slots
<1>2. CASE xhr = None
  <2>1. todo' = Tail(todo) /\ UNCHANGED <<xhr, contexts, blocked>> BY <1>1, <1>2 DEF CleanUpXhr
  <2> HIDE DEF Base, Released
  <2> QED BY <1>1, <2>1, KeepDrop
<1>3. CASE xhr # None
  <2>1. xhr \in Nat /\ xhr \in Requests
    BY <1>3, BoundsAssumption DEF Base, VarsOK, NumbersOK, Requests, None
  <2>2. PICK a, b \in Frame : /\ a = Ready(xhr) /\ b = Closed(xhr)
                              /\ a.op = "dispatch" /\ b.op = "closed" /\ b.req = xhr
    BY <2>1, Frames
  <2>3. PICK p \in Seq(Frame) : p = <<a, b>> /\ Len(p) = 2 /\ p[1] = a /\ p[2] = b
    <3>1. /\ <<a, b>> \in Seq(Frame) /\ Len(<<a, b>>) = 2 /\ <<a, b>>[1] = a /\ <<a, b>>[2] = b
      BY Tuples
    <3> QED BY <3>1, Zenon
  <2>4. todo' = p \o Tail(todo) /\ contexts' = Append(contexts, xhr)
    BY <1>3, <2>2, <2>3 DEF CleanUpXhr, Push
  <2>5. Pushed(todo', p, Tail(todo))
    <3> HIDE DEF Base
    <3> QED BY <1>1, <2>4, StackStep
  <2>6. 2 \in 1..Len(p) /\ \A i \in 1..Len(p) : i = 1 \/ i = 2 BY <2>3
  <2>7. \A i \in 1..Len(p) : p[i] \in SlotFrames <=> i = 2
    BY <2>2, <2>3, <2>6 DEF SlotFrames, Slots
  <2>8. Cardinality(Places(p, SlotFrames)) = 1 BY <2>6, <2>7, OnePlace
  <2>9. Closes(p, xhr) BY <2>2, <2>3, <2>6 DEF Closes
  <2> HIDE DEF Base, Released, Frame
  <2> QED BY <1>1, <2>1, <2>4, <2>5, <2>8, <2>9, OpenReleased
<1> QED BY <1>2, <1>3

-----------------------------------------------------------------------------
(* Calls and the outside: the monitor is released between scripts.  *)

LEMMA SendReleased ==
    ASSUME NEW r \in Seq(Frame), Base(r), Released(r), Send(r), ~thrown'
    PROVE Released(todo)'
<1>1. xhr = None BY DEF Send, Throw
<1>2. PICK a, b, c \in Frame : /\ a = Op("change") /\ b = Op("opened") /\ c = Op("failed")
                               /\ a.op = "change" /\ b.op = "opened" /\ c.op = "failed"
  BY Frames DEF Plain
<1>3. PICK y \in Seq(Frame) : y = <<a, b>> /\ \A ops : Has(y, ops) <=> a.op \in ops \/ b.op \in ops
  BY Stacks, Zenon
<1>4. PICK z \in Seq(Frame) : z = <<c>> /\ \A ops : Has(z, ops) <=> c.op \in ops
  BY Stacks, Zenon
<1>5. PICK p \in Seq(Frame) : (p = y \/ p = z) /\ Pushed(todo', p, r)
  <2>1. PICK p : Pushed(todo', p, r) /\ p \in {<<Op("change"), Op("opened")>>, <<Op("failed")>>}
    BY <1>1, SendBase
  <2> QED BY <1>2, <1>3, <1>4, <2>1
<1>6. ~Has(p, Slots)
  <2>1. ~Has(y, Slots) /\ ~Has(z, Slots) BY <1>2, <1>3, <1>4 DEF Slots
  <2> QED BY <1>5, <2>1
<1>7. xhr' = requests + 1 /\ blocked' = MarkOpen(requests + 1) /\ UNCHANGED contexts
  BY <1>1 DEF Send
<1>8. \A e \in blocked' : e[2] = xhr' \/ Closes(r, e[2])
  <2> SUFFICES ASSUME NEW e \in blocked' PROVE e[2] = xhr' \/ Closes(r, e[2]) OBVIOUS
  <2>1. e \in blocked \/ e[2] = xhr' BY <1>7 DEF MarkOpen
  <2>2. e \in blocked => e[2] # None
    BY BoundsAssumption DEF Base, VarsOK, MonitorOK, Requests, None
  <2> QED BY <1>1, <2>1, <2>2 DEF Released
<1> HIDE DEF Frame, Base, Released
<1> QED BY <1>5, <1>6, <1>7, <1>8, PushReleased

LEMMA AbortReleased ==
    ASSUME NEW r \in Seq(Frame), Released(r), xhr \in Nat, Abort(r) PROVE Released(todo)'
<1>1. PICK a, b, c \in Frame :
        /\ a = Dispatch("complete") /\ b = Dispatch("abort") /\ c = Op("cleanUp")
        /\ a.op = "dispatch" /\ b.op = "dispatch" /\ c.op = "cleanUp"
  BY Frames DEF EventTypes, Plain
<1>2. PICK p \in Seq(Frame) :
        /\ p = <<a, b, c>>
        /\ \A ops : Has(p, ops) <=> a.op \in ops \/ b.op \in ops \/ c.op \in ops
  <2>1. <<a, b, c>> \in Seq(Frame) BY Tuples
  <2>2. \A ops : Has(<<a, b, c>>, ops) <=> a.op \in ops \/ b.op \in ops \/ c.op \in ops
    BY TupleHas
  <2> QED BY <2>1, <2>2, Zenon
<1>3. ~Has(p, Slots) BY <1>1, <1>2 DEF Slots
<1>4. todo' = p \o r /\ UNCHANGED <<xhr, contexts, blocked>> BY <1>1, <1>2 DEF Abort, monitor
<1>5. \A e \in blocked' : e[2] = xhr' \/ Closes(r, e[2]) BY <1>4 DEF Released
<1> HIDE DEF Frame, Released
<1>6. Pushed(todo', p, r) BY <1>4, PushIsPushed
<1> QED BY <1>3, <1>4, <1>5, <1>6, PushReleased

LEMMA DisposeReleased ==
    ASSUME NEW r, Released(r), Dispose(r) PROVE Released(todo)'
<1>1. todo' = r /\ UNCHANGED contexts BY DEF Dispose
<1>2. \A e \in blocked' : Closes(r, e[2])
  <2> SUFFICES ASSUME NEW e \in blocked' PROVE Closes(r, e[2]) OBVIOUS
  <2>1. e \in blocked /\ e[2] # xhr BY DEF Dispose, MarkClosed
  <2> QED BY <2>1 DEF Released
<1> QED BY <1>1, <1>2 DEF Released

LEMMA ApplicationReleased ==
    ASSUME NEW r \in Seq(Frame), Base(r), Released(r), ~thrown',
           Send(r) \/ Abort(r) \/ Dispose(r) \/ Throw(r)
    PROVE Released(todo)'
<1>1. xhr \in Nat BY DEF Base, VarsOK, NumbersOK
<1>2. ~Throw(r) BY DEF Throw
<1> HIDE DEF Base, Released, Frame
<1> QED BY <1>1, <1>2, SendReleased, AbortReleased, DisposeReleased

LEMMA CallReleased ==
    ASSUME Base(todo), Released(todo), Call, ~thrown' PROVE Released(todo)'
<1>1. Doing("walk") /\ ~AtEnd(todo[1]) BY CalledListener
<1>2. todo # <<>> /\ todo[1].op = "walk" /\ todo[1].op \notin Slots BY <1>1 DEF Doing, Slots
<1>3. PICK p : p = AfterCall(todo[1]) OBVIOUS
<1>4. /\ p \in Seq(Frame) /\ Len(p) \in {1, 2} /\ p[Len(p)].op = "walk"
      /\ Len(p) = 2 => p[1].op = "once"
  BY <1>1, <1>2, <1>3, AfterCallFrames
<1>5. ~Has(p, Slots)
  <2>1. \A i \in 1..Len(p) : i = Len(p) \/ (i = 1 /\ Len(p) = 2) BY <1>4
  <2> QED BY <1>4, <2>1 DEF Has, Slots
<1> HIDE DEF Base, Released
<1>6. PICK r : r = p \o Tail(todo) OBVIOUS
<1>7. Base(r) /\ Pushed(r, p, Tail(todo)) BY <1>1, <1>3, <1>6, ReturnBase
<1>8. Released(r) BY <1>2, <1>4, <1>5, <1>7, KeepReleased
<1>9. r \in Seq(Frame) BY <1>7 DEF Base
<1>10. CASE /\ todo' = r
            /\ UNCHANGED <<events, io, native, disposed, monitor, fault, history>>
  BY <1>8, <1>10 DEF Released, io, monitor
<1>11. CASE Send(r) \/ Abort(r) \/ Dispose(r) \/ Throw(r)
  <2> HIDE DEF Frame
  <2> QED BY <1>7, <1>8, <1>9, <1>11, ApplicationReleased
<1>12. ASSUME NEW t, NEW fn, Relisten(t, fn, r) PROVE Released(todo)'
  BY <1>8, <1>12 DEF Relisten, Released, io, monitor
<1> QED BY <1>3, <1>6, <1>10, <1>11, <1>12 DEF Call

LEMMA AbortTimedOutReleased ==
    ASSUME Base(todo), Released(todo), AbortTimedOut PROVE Released(todo)'
<1>1. todo # <<>> /\ todo[1].op \notin Slots BY DEF AbortTimedOut, Doing, Slots
<1>2. xhr \in Nat /\ todo \in Seq(Frame) BY DEF Base, VarsOK, NumbersOK
<1> HIDE DEF Base, Released
<1>3. CASE xhr # None /\ active
  <2>1. PICK r \in Seq(Frame) : r = Tail(todo) BY <1>1, <1>2, TailIsPopped
  <2>2. Pushed(r, <<>>, r) BY PopIsPushed
  <2>3. <<>> \in Seq(Frame) /\ ~Has(<<>>, Slots) BY Tuples, TupleHas
  <2>4. Released(r) BY <1>1, <2>1, <2>2, <2>3, KeepReleased
  <2>5. Abort(r) BY <1>3, <2>1 DEF AbortTimedOut
  <2> HIDE DEF Frame
  <2> QED BY <1>2, <2>4, <2>5, AbortReleased
<1>4. CASE ~(xhr # None /\ active)
  <2>1. todo' = Tail(todo) /\ UNCHANGED <<xhr, contexts, blocked>>
    BY <1>4 DEF AbortTimedOut, io, monitor
  <2> QED BY <1>1, <2>1, KeepDrop
<1> QED BY <1>3, <1>4

\* A script begins.
LEMMA IdleReleased ==
    ASSUME Idle, Released(todo), NEW p \in Seq(Frame), todo' = p, ~Has(p, Slots),
           UNCHANGED <<xhr, contexts, blocked>>
    PROVE Released(todo)'
<1>1. PICK q \in Seq(Frame) : q = <<>> BY Tuples
<1>2. Released(q) BY <1>1 DEF Idle
<1>3. \A e \in blocked' : e[2] = xhr' \/ Closes(q, e[2]) BY <1>2 DEF Released
<1> HIDE DEF Frame, Released
<1>4. Pushed(todo', p, q)
  <2>1. p \o <<>> = p BY ConcatEmptySeq
  <2> QED BY <1>1, <2>1, PushIsPushed
<1> QED BY <1>2, <1>3, <1>4, PushReleased

LEMMA OutsideReleased ==
    ASSUME Base(todo), Released(todo), ~thrown',
           Application \/ NetworkChange \/ TimerFires \/ Recheck
    PROVE Released(todo)'
<1>1. xhr \in Nat BY DEF Base, VarsOK, NumbersOK
<1>2. PICK e \in Frame : e = Op("change") /\ e.op = "change" BY Frames DEF Plain
<1>3. PICK y \in Seq(Frame) : y = <<e>> /\ \A ops : Has(y, ops) <=> e.op \in ops
  BY Stacks, Zenon
<1>4. ~Has(y, Slots) BY <1>2, <1>3 DEF Slots
<1>5. PICK n \in Seq(Frame) : n = <<>> /\ ~Has(n, Slots)
  <2>1. <<>> \in Seq(Frame) /\ ~Has(<<>>, Slots) BY Tuples, TupleHas
  <2> QED BY <2>1, Zenon
<1> HIDE DEF Base, Released
<1>6. CASE NetworkChange \/ Recheck
  <2>1. Idle /\ todo' = y /\ UNCHANGED <<xhr, contexts, blocked>>
    BY <1>2, <1>3, <1>6 DEF NetworkChange, Recheck, io, monitor
  <2> HIDE DEF Frame
  <2> QED BY <1>4, <2>1, IdleReleased
<1>7. CASE TimerFires
  <2>1. /\ Idle /\ UNCHANGED <<xhr, contexts, blocked>>
        /\ todo' = IF xhr = None THEN <<>> ELSE <<Dispatch("timeout"), Op("timedOut")>>
    BY <1>7 DEF TimerFires, monitor
  <2>2. PICK a, b \in Frame : /\ a = Dispatch("timeout") /\ b = Op("timedOut")
                              /\ a.op = "dispatch" /\ b.op = "timedOut"
    BY <1>1, Frames DEF EventTypes, Plain
  <2>3. PICK z \in Seq(Frame) : z = <<a, b>> /\ \A ops : Has(z, ops) <=> a.op \in ops \/ b.op \in ops
    BY Stacks, Zenon
  <2>4. ~Has(z, Slots) BY <2>2, <2>3 DEF Slots
  <2>5. todo' = n \/ todo' = z BY <1>5, <2>1, <2>2, <2>3
  <2> HIDE DEF Frame
  <2> QED BY <1>5, <2>1, <2>4, <2>5, IdleReleased
<1>8. CASE Application
  <2>1. PICK r \in Seq(Frame) : r = <<>> /\ r = todo BY <1>5, <1>8 DEF Application, Idle
  <2>2. Base(r) /\ Released(r) BY <2>1
  <2>3. Send(r) \/ Abort(r) \/ Dispose(r) BY <1>8, <2>1 DEF Application
  <2> HIDE DEF Frame
  <2> QED BY <2>2, <2>3, ApplicationReleased
<1> QED BY <1>6, <1>7, <1>8

ReleasedInv == ~thrown => Released(todo)

LEMMA ReleasedInductive ==
    ASSUME Base(todo), ThrowsOK, ReleasedInv, [Next]_vars PROVE ReleasedInv'
<1> SUFFICES ASSUME ~thrown' PROVE Released(todo)' BY DEF ReleasedInv
<1>1. ~thrown BY ThrownStays
<1>2. Released(todo) BY <1>1 DEF ReleasedInv
<1>3. CASE Unwind BY <1>1, <1>2, <1>3, UnwindIsQuiet DEF io, monitor, Released
<1> HIDE DEF Base, Released
<1>4. CASE Script /\ ~Unwind
  BY <1>2, <1>4, CallReleased, EventStepReleased, DispatchReleased, PopContextReleased,
     StateChangeReleased, CheckCompleteReleased, FailReleased, SendOpenedReleased,
     SendReturnsReleased, CleanUpXhrReleased, CloseXhrReleased, AbortTimedOutReleased DEF Script
<1>5. CASE Application \/ NetworkChange \/ TimerFires \/ Recheck BY <1>2, <1>5, OutsideReleased
<1>6. CASE UNCHANGED vars BY <1>2, <1>6 DEF vars, io, monitor, Released
<1> QED BY <1>3, <1>4, <1>5, <1>6 DEF Next, Script

LEMMA InitReleased == Init => ReleasedInv
<1> SUFFICES ASSUME Init PROVE Released(todo) BY DEF ReleasedInv
<1>1. todo = <<>> /\ contexts = <<>> /\ blocked = {} BY DEF Init
<1>2. Cardinality(Places(todo, SlotFrames)) = 0 BY <1>1, NoPlaces
<1> QED BY <1>1, <1>2 DEF Released

\* The stack of contexts is empty between scripts, and no request that is over
\* blocks a context, as long as no exception cuts a script short.
THEOREM MonitorReleasedHolds == Spec => []MonitorReleased
<1>1. Init => ReleasedInv BY InitReleased
<1>2. Base(todo) /\ ThrowsOK /\ ReleasedInv /\ [Next]_vars => ReleasedInv' BY ReleasedInductive
<1>3. Base(todo) /\ ReleasedInv => MonitorReleased
  <2> SUFFICES ASSUME Base(todo), ReleasedInv, Idle, ~thrown
               PROVE contexts = <<>> /\ \A p \in blocked : p[2] = xhr
    BY DEF MonitorReleased
  <2>1. todo = <<>> /\ Released(todo) BY DEF Idle, ReleasedInv
  <2>2. Cardinality(Places(todo, SlotFrames)) = 0 BY <2>1, NoPlaces
  <2>3. contexts = <<>>
    <3>1. contexts \in Seq(Requests) /\ Len(contexts) = 0
      BY <2>1, <2>2 DEF Released, Base, VarsOK, MonitorOK
    <3> QED BY <3>1, EmptySeq
  <2>4. \A r : ~Closes(todo, r) BY <2>1 DEF Closes
  <2> QED BY <2>1, <2>3, <2>4 DEF Released
<1> QED BY <1>1, <1>2, <1>3, BaseHolds, ThrowsHolds, PTL DEF Spec

-----------------------------------------------------------------------------
(* The log of a request.  *)

LEMMA Appended ==
    ASSUME NEW E, NEW u \in Seq(E), NEW d \in E, NEW v \in Seq(E), Len(v) = Len(u) + 1,
           \A i \in 1..Len(u) : v[i] = u[i], v[Len(u) + 1] = d
    PROVE Append(u, d) = v
<1>1. PICK w \in Seq(E) : /\ w = Append(u, d) /\ Len(w) = Len(u) + 1
                          /\ \A i \in 1..Len(u) : w[i] = u[i]
                          /\ w[Len(u) + 1] = d
  BY AppendProperties
<1>2. Len(u) \in Nat BY LenProperties
<1>3. \A i \in 1..(Len(u) + 1) : i \in 1..Len(u) \/ i = Len(u) + 1 BY <1>2
<1>4. \A i \in 1..Len(w) : w[i] = v[i] BY <1>1, <1>3
<1>5. w = v BY <1>1, <1>4, SeqEqual
<1> QED BY <1>1, <1>5

LEMMA Append0 ==
    ASSUME NEW a \in EventTypes
    PROVE Append(<<>>, a) = <<a>>
<1>1. PICK u : u = <<>> OBVIOUS
<1>2. u \in Seq(EventTypes) /\ Len(u) = 0 BY <1>1
<1>3. PICK v : v = <<a>> OBVIOUS
<1>4. v \in Seq(EventTypes) /\ Len(v) = 1 /\ v[1] = a BY <1>3
<1>5. Len(v) = Len(u) + 1 /\ v[Len(u) + 1] = a BY <1>2, <1>4
<1>6. \A i \in 1..Len(u) : v[i] = u[i]
  BY <1>2
<1>7. Append(u, a) = v BY <1>2, <1>4, <1>5, <1>6, Appended
<1> QED BY <1>1, <1>3, <1>7, Zenon

LEMMA Append1 ==
    ASSUME NEW a \in EventTypes, NEW b \in EventTypes
    PROVE Append(<<a>>, b) = <<a, b>>
<1>1. PICK u : u = <<a>> OBVIOUS
<1>2. u \in Seq(EventTypes) /\ Len(u) = 1 /\ u[1] = a BY <1>1
<1>3. PICK v : v = <<a, b>> OBVIOUS
<1>4. v \in Seq(EventTypes) /\ Len(v) = 2 /\ v[1] = a /\ v[2] = b BY <1>3
<1>5. Len(v) = Len(u) + 1 /\ v[Len(u) + 1] = b BY <1>2, <1>4
<1>6. \A i \in 1..Len(u) : v[i] = u[i]
  <2>1. \A i \in 1..1 : i = 1 OBVIOUS
  <2> QED BY <1>2, <1>4, <2>1
<1>7. Append(u, b) = v BY <1>2, <1>4, <1>5, <1>6, Appended
<1> QED BY <1>1, <1>3, <1>7, Zenon

LEMMA Append2 ==
    ASSUME NEW a \in EventTypes, NEW b \in EventTypes, NEW c \in EventTypes
    PROVE Append(<<a, b>>, c) = <<a, b, c>>
<1>1. PICK u : u = <<a, b>> OBVIOUS
<1>2. u \in Seq(EventTypes) /\ Len(u) = 2 /\ u[1] = a /\ u[2] = b BY <1>1
<1>3. PICK v : v = <<a, b, c>> OBVIOUS
<1>4. v \in Seq(EventTypes) /\ Len(v) = 3 /\ v[1] = a /\ v[2] = b /\ v[3] = c BY <1>3
<1>5. Len(v) = Len(u) + 1 /\ v[Len(u) + 1] = c BY <1>2, <1>4
<1>6. \A i \in 1..Len(u) : v[i] = u[i]
  <2>1. \A i \in 1..2 : i = 1 \/ i = 2 OBVIOUS
  <2> QED BY <1>2, <1>4, <2>1
<1>7. Append(u, c) = v BY <1>2, <1>4, <1>5, <1>6, Appended
<1> QED BY <1>1, <1>3, <1>7, Zenon

LEMMA Append3 ==
    ASSUME NEW a \in EventTypes, NEW b \in EventTypes, NEW c \in EventTypes, NEW d \in EventTypes
    PROVE Append(<<a, b, c>>, d) = <<a, b, c, d>>
<1>1. PICK u : u = <<a, b, c>> OBVIOUS
<1>2. u \in Seq(EventTypes) /\ Len(u) = 3 /\ u[1] = a /\ u[2] = b /\ u[3] = c BY <1>1
<1>3. PICK v : v = <<a, b, c, d>> OBVIOUS
<1>4. v \in Seq(EventTypes) /\ Len(v) = 4 /\ v[1] = a /\ v[2] = b /\ v[3] = c /\ v[4] = d BY <1>3
<1>5. Len(v) = Len(u) + 1 /\ v[Len(u) + 1] = d BY <1>2, <1>4
<1>6. \A i \in 1..Len(u) : v[i] = u[i]
  <2>1. \A i \in 1..3 : i = 1 \/ i = 2 \/ i = 3 OBVIOUS
  <2> QED BY <1>2, <1>4, <2>1
<1>7. Append(u, d) = v BY <1>2, <1>4, <1>5, <1>6, Appended
<1> QED BY <1>1, <1>3, <1>7, Zenon


\* What a log still needs: COMPLETE and an end, an end, or READY.
Outcomes == {"success", "error", "abort"}

NeedsComplete(l, t) ==
    \/ l = <<>> /\ t \in Outcomes
    \/ l = <<"timeout">> /\ t = "abort"

NeedsEnd(l, t) ==
    \/ l = <<"complete">> /\ t \in Outcomes
    \/ l = <<"timeout", "complete">> /\ t = "abort"

NeedsReady(l) ==
    l \in {<<"complete", "success">>, <<"complete", "error">>, <<"complete", "abort">>,
           <<"timeout", "complete", "abort">>}

Begun(l) ==
    \/ l \in {<<>>, <<"timeout">>, <<"complete">>, <<"timeout", "complete">>}
    \/ NeedsReady(l)
    \/ l \in Lifecycles

LEMMA Names ==
    /\ "complete" \in EventTypes /\ "success" \in EventTypes /\ "error" \in EventTypes
    /\ "abort" \in EventTypes /\ "ready" \in EventTypes /\ "timeout" \in EventTypes
  BY DEF EventTypes

LEMMA LogSteps ==
    /\ Append(<<>>, "timeout") = <<"timeout">>
    /\ \A l, t : NeedsComplete(l, t) => NeedsEnd(Append(l, "complete"), t)
    /\ \A l, t : NeedsEnd(l, t) => NeedsReady(Append(l, t))
    /\ \A l : NeedsReady(l) => Append(l, "ready") \in Lifecycles
    /\ \A l, t : NeedsComplete(l, t) \/ NeedsEnd(l, t) \/ NeedsReady(l) => Begun(l)
<1>0. Append(<<>>, "timeout") = <<"timeout">> BY Names, Append0
<1>1. ASSUME NEW l, NEW t, NeedsComplete(l, t) PROVE NeedsEnd(Append(l, "complete"), t)
  <2>1. /\ Append(<<>>, "complete") = <<"complete">>
        /\ Append(<<"timeout">>, "complete") = <<"timeout", "complete">>
    BY Names, Append0, Append1
  <2> QED BY <1>1, <2>1, Zenon DEF NeedsComplete, NeedsEnd
<1>2. ASSUME NEW l, NEW t, NeedsEnd(l, t) PROVE NeedsReady(Append(l, t))
  <2>1. t \in Outcomes => t = "success" \/ t = "error" \/ t = "abort" BY DEF Outcomes
  <2>2. /\ Append(<<"complete">>, "success") = <<"complete", "success">>
        /\ Append(<<"complete">>, "error") = <<"complete", "error">>
        /\ Append(<<"complete">>, "abort") = <<"complete", "abort">>
        /\ Append(<<"timeout", "complete">>, "abort") = <<"timeout", "complete", "abort">>
    BY Names, Append1, Append2
  <2> QED BY <1>2, <2>1, <2>2, Zenon DEF NeedsEnd, NeedsReady
<1>3. ASSUME NEW l, NeedsReady(l) PROVE Append(l, "ready") \in Lifecycles
  <2>1. /\ Append(<<"complete", "success">>, "ready") = <<"complete", "success", "ready">>
        /\ Append(<<"complete", "error">>, "ready") = <<"complete", "error", "ready">>
        /\ Append(<<"complete", "abort">>, "ready") = <<"complete", "abort", "ready">>
        /\ Append(<<"timeout", "complete", "abort">>, "ready")
                = <<"timeout", "complete", "abort", "ready">>
    BY Names, Append2, Append3
  <2> QED BY <1>3, <2>1, Zenon DEF NeedsReady, Lifecycles
<1>4. ASSUME NEW l, NEW t, NeedsComplete(l, t) \/ NeedsEnd(l, t) \/ NeedsReady(l)
      PROVE Begun(l)
  BY <1>4, Zenon DEF NeedsComplete, NeedsEnd, Begun
<1> QED BY <1>0, <1>1, <1>2, <1>3, <1>4

LEMMA BegunIsPrefix ==
    ASSUME NEW l, Begun(l) PROVE \E m \in Lifecycles : IsPrefix(l, m)
<1>0. <<"timeout", "complete", "abort", "ready">> \in Lifecycles
      /\ <<"complete", "success", "ready">> \in Lifecycles
      /\ <<"complete", "error", "ready">> \in Lifecycles
      /\ <<"complete", "abort", "ready">> \in Lifecycles
  BY DEF Lifecycles
<1>1. \A a, b, c, d : /\ IsPrefix(<<>>, <<a, b, c, d>>) /\ IsPrefix(<<a>>, <<a, b, c, d>>)
                      /\ IsPrefix(<<a, b>>, <<a, b, c, d>>)
                      /\ IsPrefix(<<a, b, c>>, <<a, b, c, d>>)
  BY DEF IsPrefix
<1>2. \A a, b, c : /\ IsPrefix(<<a>>, <<a, b, c>>) /\ IsPrefix(<<a, b>>, <<a, b, c>>)
  BY DEF IsPrefix
<1>3. CASE l \in Lifecycles
  <2>1. IsPrefix(l, l) BY DEF IsPrefix
  <2> QED BY <1>3, <2>1
<1>4. CASE l = <<>> \/ l = <<"timeout">> \/ l = <<"timeout", "complete">>
           \/ l = <<"timeout", "complete", "abort">>
  BY <1>0, <1>1, <1>4, Zenon
<1>5. CASE l = <<"complete">> \/ l = <<"complete", "success">> \/ l = <<"complete", "error">>
           \/ l = <<"complete", "abort">>
  BY <1>0, <1>2, <1>5, Zenon
<1> QED BY <1>3, <1>4, <1>5, Zenon DEF Begun, NeedsReady

-----------------------------------------------------------------------------
(* What the stack says about the events that are still to come.  *)

\* Frames of listeners that run.
Passives == {"walk", "once", "pop"}

All(s, ops) == \A i \in 1..Len(s) : s[i].op \in ops

Ends == Outcomes \cup {"complete"}

\* A request that is not active any more is about to be cleaned up: "c" is the
\* place of the clean-up, above it only listeners run, and what is still to be
\* dispatched completes the log "l" of the request "x".
Rest(s, c, x, l) ==
    \/ /\ c = 3
       /\ s[1].op = "dispatch" /\ s[1].type = "complete" /\ s[1].req = x
       /\ s[2].op = "dispatch" /\ s[2].req = x /\ NeedsComplete(l, s[2].type)
    \/ /\ c >= 2 /\ \A j \in 1..(c - 2) : s[j].op \in Passives
       /\ s[c - 1].op = "dispatch" /\ s[c - 1].req = x /\ NeedsEnd(l, s[c - 1].type)
    \/ NeedsReady(l) /\ \A j \in 1..(c - 1) : s[j].op \in Passives

Ending(s, x, l) == \E c \in 1..Len(s) : s[c].op = "cleanUp" /\ Rest(s, c, x, l)

\* TIMEOUT has been dispatched, and its listeners run.
TimedOut(s) ==
    \E i \in 1..Len(s) : s[i].op = "timedOut" /\ \A j \in 1..(i - 1) : s[j].op \in Passives

\* The end of a request is dispatched above its clean-up; READY and TIMEOUT are
\* dispatched at once.
EventsInPlace(s) ==
    \A i \in 1..Len(s) : s[i].op = "dispatch" =>
        /\ s[i].type \in Ends => \E j \in 1..Len(s) : j > i /\ s[j].op = "cleanUp"
        /\ s[i].type \in {"ready", "timeout"} => i = 1

NoTop(s) ==
    \A i \in 1..Len(s) : s[i].op = "dispatch" => s[i].type \notin {"ready", "timeout"}

ReadyFor(s, r) == s # <<>> /\ s[1].op = "dispatch" /\ s[1].type = "ready" /\ s[1].req = r

\* What is known when READY or TIMEOUT is dispatched next.
First(s, a, x, l) ==
    s # <<>> /\ s[1].op = "dispatch" =>
        /\ s[1].type = "ready" =>
              x = None /\ s[1].req \in Requests /\ NeedsReady(l[s[1].req])
        /\ s[1].type = "timeout" =>
              a /\ s[1].req = x /\ l[x] = <<>> /\ Len(s) >= 2 /\ s[2].op = "timedOut"

\* Of a stack, active_, xhr_, the log and the number of requests.
Life(s, a, x, l, n) ==
    /\ \A r \in Requests : r > n => l[r] = <<>>
    /\ \A r \in Requests : r <= n => (r # x => (l[r] \in Lifecycles \/ ReadyFor(s, r)))
    /\ a => (l[x] = <<>> \/ (l[x] = <<"timeout">> /\ TimedOut(s)))
    /\ x # None => (~a => Ending(s, x, l[x]))
    /\ EventsInPlace(s)
    /\ First(s, a, x, l)

-----------------------------------------------------------------------------

\* A stack whose first frame is replaced, place by place.
LEMMA Moved ==
    ASSUME NEW s \in Seq(Frame), s # <<>>, NEW p \in Seq(Frame), NEW r, Pushed(r, p, Tail(s))
    PROVE /\ r \in Seq(Frame) /\ Len(p) \in Nat /\ Len(s) \in Nat \ {0}
          /\ Len(r) = Len(p) + Len(s) - 1
          /\ \A i \in 1..Len(p) : r[i] = p[i]
          /\ \A i \in 2..Len(s) : i + Len(p) - 1 \in 1..Len(r) /\ r[i + Len(p) - 1] = s[i]
          /\ \A i \in 1..Len(r) : i > Len(p) =>
                i - Len(p) + 1 \in 2..Len(s) /\ r[i] = s[i - Len(p) + 1]
<1>1. /\ Len(s) \in Nat \ {0} /\ Len(Tail(s)) = Len(s) - 1 /\ Tail(s) \in Seq(Frame)
      /\ \A i \in 1..(Len(s) - 1) : Tail(s)[i] = s[i + 1]
  BY TailIsPopped
<1>2. PICK q \in Seq(Frame) : q = Tail(s) BY <1>1
<1> HIDE DEF Frame
<1>3. Pushed(r, p, q) BY <1>2
<1>4. /\ Len(p) \in Nat /\ Len(q) \in Nat /\ Len(r) = Len(p) + Len(q)
      /\ \A i \in 1..Len(p) : r[i] = p[i]
      /\ \A i \in 1..Len(q) : i + Len(p) \in 1..Len(r) /\ r[i + Len(p)] = q[i]
      /\ \A i \in 1..Len(r) : i > Len(p) => i - Len(p) \in 1..Len(q) /\ r[i] = q[i - Len(p)]
  BY <1>3, PushedAt
<1>5. r \in Seq(Frame) BY <1>3 DEF Pushed
<1>6. ASSUME NEW i \in 2..Len(s) PROVE i + Len(p) - 1 \in 1..Len(r) /\ r[i + Len(p) - 1] = s[i]
  <2>1. i - 1 \in 1..Len(q) /\ i - 1 + 1 = i /\ i - 1 + Len(p) = i + Len(p) - 1
    BY <1>1, <1>2, <1>4
  <2>2. q[i - 1] = s[i] BY <1>1, <1>2, <2>1
  <2>3. r[i - 1 + Len(p)] = q[i - 1] /\ i - 1 + Len(p) \in 1..Len(r) BY <1>4, <2>1
  <2> QED BY <2>1, <2>2, <2>3
<1>7. ASSUME NEW i \in 1..Len(r), i > Len(p)
      PROVE i - Len(p) + 1 \in 2..Len(s) /\ r[i] = s[i - Len(p) + 1]
  <2>1. i - Len(p) \in 1..Len(q) /\ r[i] = q[i - Len(p)] BY <1>4, <1>7
  <2>2. q[i - Len(p)] = s[i - Len(p) + 1] BY <1>1, <1>2, <2>1
  <2> QED BY <1>1, <1>2, <2>1, <2>2
<1> QED BY <1>1, <1>2, <1>4, <1>5, <1>6, <1>7

\* Passive frames above the place "m" of "s" stay passive.
LEMMA PassivesMove ==
    ASSUME NEW s \in Seq(Frame), s # <<>>, NEW p \in Seq(Frame), All(p, Passives),
           NEW r, Pushed(r, p, Tail(s)), NEW m \in 1..Len(s),
           \A j \in 1..(m - 1) : s[j].op \in Passives
    PROVE \A j \in 1..(m + Len(p) - 2) : r[j].op \in Passives
<1>1. /\ Len(p) \in Nat /\ Len(s) \in Nat \ {0} /\ Len(r) = Len(p) + Len(s) - 1
      /\ \A i \in 1..Len(p) : r[i] = p[i]
      /\ \A i \in 1..Len(r) : i > Len(p) =>
            i - Len(p) + 1 \in 2..Len(s) /\ r[i] = s[i - Len(p) + 1]
  BY Moved
<1> HIDE DEF Frame
<1> SUFFICES ASSUME NEW j \in 1..(m + Len(p) - 2) PROVE r[j].op \in Passives OBVIOUS
<1>2. CASE j <= Len(p)
  <2>1. j \in 1..Len(p) BY <1>1, <1>2
  <2> QED BY <1>1, <2>1 DEF All
<1>3. CASE j > Len(p)
  <2>1. j \in 1..Len(r) BY <1>1
  <2>2. j - Len(p) + 1 \in 1..(m - 1) BY <1>1, <1>3
  <2> QED BY <1>1, <1>3, <2>1, <2>2
<1> QED BY <1>1, <1>2, <1>3

LEMMA EndingReplace ==
    ASSUME NEW s \in Seq(Frame), s # <<>>, s[1].op \in Passives, NEW x, NEW l, Ending(s, x, l),
           NEW p \in Seq(Frame), All(p, Passives), NEW r, Pushed(r, p, Tail(s))
    PROVE Ending(r, x, l)
<1>1. /\ Len(p) \in Nat /\ Len(s) \in Nat \ {0} /\ Len(r) = Len(p) + Len(s) - 1
      /\ \A i \in 2..Len(s) : i + Len(p) - 1 \in 1..Len(r) /\ r[i + Len(p) - 1] = s[i]
  BY Moved
<1> HIDE DEF Frame
<1>2. PICK c \in 1..Len(s) : s[c].op = "cleanUp" /\ Rest(s, c, x, l) BY DEF Ending
<1>3. c # 1 /\ c \in 2..Len(s) BY <1>1, <1>2 DEF Passives
<1>4. PICK n \in Nat : n = Len(p) BY <1>1
<1>5. PICK k : k = c + n - 1 OBVIOUS
<1>6. k \in 1..Len(r) /\ r[k].op = "cleanUp" BY <1>1, <1>2, <1>3, <1>4, <1>5
<1>7. Rest(r, k, x, l)
  <2>1. CASE /\ c >= 2 /\ \A j \in 1..(c - 2) : s[j].op \in Passives
             /\ s[c - 1].op = "dispatch" /\ s[c - 1].req = x /\ NeedsEnd(l, s[c - 1].type)
    <3>1. c - 1 # 1 BY <2>1 DEF Passives
    <3>2. c - 1 \in 2..Len(s) /\ c - 1 + n - 1 = k - 1 /\ c - 1 \in 1..Len(s)
      BY <1>3, <1>5, <3>1
    <3>3. r[k - 1] = s[c - 1] BY <1>1, <1>4, <3>2
    <3>4. c - 1 - 1 = c - 2 /\ c - 1 + n - 2 = k - 2 BY <1>3, <1>5
    <3>5. \A j \in 1..(c - 1 - 1) : s[j].op \in Passives BY <2>1, <3>4
    <3>6. \A j \in 1..(c - 1 + Len(p) - 2) : r[j].op \in Passives
      BY <3>2, <3>5, PassivesMove
    <3>7. \A j \in 1..(k - 2) : r[j].op \in Passives BY <1>4, <3>4, <3>6
    <3>8. k >= 2 BY <1>4, <1>5, <3>2
    <3> QED BY <2>1, <3>3, <3>7, <3>8 DEF Rest
  <2>2. CASE NeedsReady(l) /\ \A j \in 1..(c - 1) : s[j].op \in Passives
    <3>1. \A j \in 1..(c + Len(p) - 2) : r[j].op \in Passives BY <2>2, PassivesMove
    <3>2. c + n - 2 = k - 1 BY <1>3, <1>5
    <3>3. \A j \in 1..(k - 1) : r[j].op \in Passives BY <1>4, <3>1, <3>2
    <3> QED BY <2>2, <3>3 DEF Rest
  <2> QED BY <1>2, <2>1, <2>2 DEF Rest, Passives
<1> QED BY <1>6, <1>7 DEF Ending

LEMMA TimedOutReplace ==
    ASSUME NEW s \in Seq(Frame), s # <<>>, s[1].op \in Passives, TimedOut(s),
           NEW p \in Seq(Frame), All(p, Passives), NEW r, Pushed(r, p, Tail(s))
    PROVE TimedOut(r)
<1>1. /\ Len(p) \in Nat /\ Len(s) \in Nat \ {0} /\ Len(r) = Len(p) + Len(s) - 1
      /\ \A i \in 2..Len(s) : i + Len(p) - 1 \in 1..Len(r) /\ r[i + Len(p) - 1] = s[i]
  BY Moved
<1> HIDE DEF Frame
<1>2. PICK c \in 1..Len(s) :
        s[c].op = "timedOut" /\ \A j \in 1..(c - 1) : s[j].op \in Passives
  BY DEF TimedOut
<1>3. c # 1 /\ c \in 2..Len(s) BY <1>1, <1>2 DEF Passives
<1>4. PICK k : k = c + Len(p) - 1 OBVIOUS
<1>5. k \in 1..Len(r) /\ r[k].op = "timedOut" BY <1>1, <1>2, <1>3, <1>4
<1>6. \A j \in 1..(c + Len(p) - 2) : r[j].op \in Passives BY <1>2, PassivesMove
<1>7. c + Len(p) - 2 = k - 1 BY <1>1, <1>3, <1>4
<1> QED BY <1>5, <1>6, <1>7 DEF TimedOut

\* The events of the rest, and of what is pushed on it.
LEMMA EventsTail ==
    ASSUME NEW s \in Seq(Frame), s # <<>>, EventsInPlace(s)
    PROVE Tail(s) \in Seq(Frame) /\ EventsInPlace(Tail(s)) /\ NoTop(Tail(s))
<1>1. /\ Len(s) \in Nat \ {0} /\ Len(Tail(s)) = Len(s) - 1 /\ Tail(s) \in Seq(Frame)
      /\ \A i \in 1..(Len(s) - 1) : Tail(s)[i] = s[i + 1]
  BY TailIsPopped
<1> HIDE DEF Frame
<1>2. ASSUME NEW i \in 1..Len(Tail(s)), Tail(s)[i].op = "dispatch"
      PROVE /\ Tail(s)[i].type \notin {"ready", "timeout"}
            /\ Tail(s)[i].type \in Ends =>
                  \E j \in 1..Len(Tail(s)) : j > i /\ Tail(s)[j].op = "cleanUp"
  <2>1. i + 1 \in 1..Len(s) /\ Tail(s)[i] = s[i + 1] /\ i + 1 # 1 BY <1>1
  <2>2. s[i + 1].type \notin {"ready", "timeout"} BY <1>2, <2>1 DEF EventsInPlace
  <2>3. ASSUME s[i + 1].type \in Ends
        PROVE \E j \in 1..Len(Tail(s)) : j > i /\ Tail(s)[j].op = "cleanUp"
    <3>1. PICK j \in 1..Len(s) : j > i + 1 /\ s[j].op = "cleanUp"
      BY <1>2, <2>1, <2>3 DEF EventsInPlace
    <3>2. j - 1 \in 1..Len(Tail(s)) /\ j - 1 > i /\ Tail(s)[j - 1] = s[j] BY <1>1, <3>1
    <3> QED BY <3>1, <3>2
  <2> QED BY <2>1, <2>2, <2>3
<1> QED BY <1>1, <1>2 DEF EventsInPlace, NoTop

LEMMA EventsPush ==
    ASSUME NEW p \in Seq(Frame), NEW q \in Seq(Frame), NEW r, Pushed(r, p, q),
           EventsInPlace(p), EventsInPlace(q), NoTop(q)
    PROVE EventsInPlace(r) /\ (NoTop(p) => NoTop(r))
<1>1. /\ Len(p) \in Nat /\ Len(q) \in Nat /\ Len(r) = Len(p) + Len(q)
      /\ \A i \in 1..Len(p) : i \in 1..Len(r) /\ r[i] = p[i]
      /\ \A i \in 1..Len(q) : i + Len(p) \in 1..Len(r) /\ r[i + Len(p)] = q[i]
      /\ \A i \in 1..Len(r) : i > Len(p) => i - Len(p) \in 1..Len(q) /\ r[i] = q[i - Len(p)]
  BY PushedAt
<1> HIDE DEF Frame
<1>2. ASSUME NEW i \in 1..Len(r), r[i].op = "dispatch"
      PROVE /\ r[i].type \in Ends => \E j \in 1..Len(r) : j > i /\ r[j].op = "cleanUp"
            /\ r[i].type \in {"ready", "timeout"} => i = 1
            /\ NoTop(p) => r[i].type \notin {"ready", "timeout"}
  <2>1. CASE i <= Len(p)
    <3>1. i \in 1..Len(p) /\ r[i] = p[i] BY <1>1, <2>1
    <3>2. ASSUME p[i].type \in Ends PROVE \E j \in 1..Len(r) : j > i /\ r[j].op = "cleanUp"
      <4>1. PICK j \in 1..Len(p) : j > i /\ p[j].op = "cleanUp"
        BY <1>2, <3>1, <3>2 DEF EventsInPlace
      <4> QED BY <1>1, <4>1
    <3>3. p[i].type \in {"ready", "timeout"} => i = 1 BY <1>2, <3>1 DEF EventsInPlace
    <3>4. NoTop(p) => p[i].type \notin {"ready", "timeout"} BY <1>2, <3>1 DEF NoTop
    <3> QED BY <3>1, <3>2, <3>3, <3>4
  <2>2. CASE i > Len(p)
    <3>1. i - Len(p) \in 1..Len(q) /\ r[i] = q[i - Len(p)] BY <1>1, <2>2
    <3>2. ASSUME q[i - Len(p)].type \in Ends
          PROVE \E j \in 1..Len(r) : j > i /\ r[j].op = "cleanUp"
      <4>1. PICK j \in 1..Len(q) : j > i - Len(p) /\ q[j].op = "cleanUp"
        BY <1>2, <3>1, <3>2 DEF EventsInPlace
      <4>2. j + Len(p) \in 1..Len(r) /\ r[j + Len(p)] = q[j] /\ j + Len(p) > i BY <1>1, <4>1
      <4> QED BY <4>1, <4>2
    <3>3. q[i - Len(p)].type \notin {"ready", "timeout"} BY <1>2, <3>1 DEF NoTop
    <3> QED BY <3>1, <3>2, <3>3
  <2> QED BY <1>1, <2>1, <2>2
<1> QED BY <1>2 DEF EventsInPlace, NoTop

-----------------------------------------------------------------------------
(* Events that are dispatched and listeners that run.  *)

\* READY and TIMEOUT are not dispatched next.
LEMMA NoTopNext ==
    ASSUME NEW r \in Seq(Frame), NoTop(r)
    PROVE /\ \A a, x, l : First(r, a, x, l)
          /\ \A k : ~ReadyFor(r, k)
<1>1. r # <<>> => 1 \in 1..Len(r) BY LenProperties, EmptySeq
<1> QED BY <1>1 DEF NoTop, First, ReadyFor

\* Listeners go on, with "p" in place of the frame on top.
LEMMA PassiveStep ==
    ASSUME NEW s \in Seq(Frame), s # <<>>, s[1].op \in Passives,
           NEW a, NEW x, NEW l, NEW n, Life(s, a, x, l, n),
           NEW p \in Seq(Frame), All(p, Passives), NEW r, Pushed(r, p, Tail(s))
    PROVE Life(r, a, x, l, n) /\ NoTop(r) /\ r \in Seq(Frame)
<1>1. s[1].op # "dispatch" BY DEF Passives
<1>2. PICK q \in Seq(Frame) : q = Tail(s) /\ EventsInPlace(q) /\ NoTop(q)
  BY EventsTail DEF Life
<1>3. EventsInPlace(p) /\ NoTop(p)
  <2>1. \A i \in 1..Len(p) : p[i].op # "dispatch" BY DEF All, Passives
  <2> QED BY <2>1 DEF EventsInPlace, NoTop
<1> HIDE DEF Frame
<1>4. Pushed(r, p, q) BY <1>2
<1>5. EventsInPlace(r) /\ NoTop(r) BY <1>2, <1>3, <1>4, EventsPush
<1>6. r \in Seq(Frame) BY <1>4 DEF Pushed
<1>7. First(r, a, x, l) BY <1>5, <1>6, NoTopNext
<1>8. a => (l[x] = <<>> \/ (l[x] = <<"timeout">> /\ TimedOut(r)))
  <2>1. TimedOut(s) => TimedOut(r) BY TimedOutReplace
  <2> QED BY <2>1, Zenon DEF Life
<1>9. x # None => (~a => Ending(r, x, l[x]))
  <2>1. Ending(s, x, l[x]) => Ending(r, x, l[x]) BY EndingReplace
  <2> QED BY <2>1, Zenon DEF Life
<1>10. \A k \in Requests : k <= n => (k # x => (l[k] \in Lifecycles \/ ReadyFor(r, k)))
  BY <1>1 DEF Life, ReadyFor
<1>11. \A k \in Requests : k > n => l[k] = <<>> BY DEF Life
<1> QED BY <1>5, <1>6, <1>7, <1>8, <1>9, <1>10, <1>11 DEF Life

\* Every other request is over.
OthersOver(x, l, n) ==
    /\ \A k \in Requests : k > n => l[k] = <<>>
    /\ \A k \in Requests : k <= n => (k # x => l[k] \in Lifecycles)

\* What is known when the frame on top neither belongs to a listener nor ends a
\* request.
LEMMA Settled ==
    ASSUME NEW s \in Seq(Frame), s # <<>>, s[1].op \notin Passives, s[1].op # "cleanUp",
           s[1].op = "dispatch" => s[1].type \in {"change", "timeout"},
           NEW a, NEW x, NEW l, NEW n, Life(s, a, x, l, n)
    PROVE /\ Tail(s) \in Seq(Frame) /\ EventsInPlace(Tail(s)) /\ NoTop(Tail(s))
          /\ OthersOver(x, l, n)
          /\ x # None => a
          /\ a => (l[x] = <<>> \/ (l[x] = <<"timeout">> /\ s[1].op = "timedOut"))
<1>1. Tail(s) \in Seq(Frame) /\ EventsInPlace(Tail(s)) /\ NoTop(Tail(s))
  BY EventsTail DEF Life
<1>0. 1 \in 1..Len(s) /\ Len(s) \in Nat BY TailIsPopped
<1> HIDE DEF Frame
<1>2. \A k : ~ReadyFor(s, k) BY DEF ReadyFor
<1>3. OthersOver(x, l, n) BY <1>2 DEF Life, OthersOver
<1>4. ASSUME x # None PROVE a
  <2> SUFFICES ASSUME ~a PROVE FALSE OBVIOUS
  <2>1. Ending(s, x, l[x]) BY <1>4, Zenon DEF Life
  <2>2. PICK c \in 1..Len(s) : s[c].op = "cleanUp" /\ Rest(s, c, x, l[x])
    BY <2>1 DEF Ending
  <2>3. c >= 2 BY <2>2
  <2>4. ~(s[1].op = "dispatch" /\ s[1].type = "complete") OBVIOUS
  <2>5. ~(c = 2 /\ s[c - 1].op = "dispatch" /\ NeedsEnd(l[x], s[c - 1].type))
    BY DEF NeedsEnd, Outcomes
  <2>6. c > 2 => ~(\A j \in 1..(c - 2) : s[j].op \in Passives)
    <3> SUFFICES ASSUME c > 2 PROVE 1 \in 1..(c - 2) OBVIOUS
    <3> QED OBVIOUS
  <2>7. ~(\A j \in 1..(c - 1) : s[j].op \in Passives)
    <3>1. 1 \in 1..(c - 1) BY <2>3
    <3> QED BY <3>1
  <2>8. c = 2 \/ c > 2 BY <2>3
  <2> QED BY <2>2, <2>4, <2>5, <2>6, <2>7, <2>8, Zenon DEF Rest
<1>5. TimedOut(s) => s[1].op = "timedOut"
  <2> SUFFICES ASSUME TimedOut(s) PROVE s[1].op = "timedOut" OBVIOUS
  <2>1. PICK i \in 1..Len(s) : s[i].op = "timedOut" /\ \A j \in 1..(i - 1) : s[j].op \in Passives
    BY DEF TimedOut
  <2>2. i = 1 \/ 1 \in 1..(i - 1) OBVIOUS
  <2> QED BY <2>1, <2>2
<1>6. a => (l[x] = <<>> \/ (l[x] = <<"timeout">> /\ s[1].op = "timedOut"))
  BY <1>5, Zenon DEF Life
<1> QED BY <1>1, <1>3, <1>4, <1>6

\* The same when nothing is left to do.
LEMMA SettledIdle ==
    ASSUME NEW a, NEW x, NEW l, NEW n, NEW s, s = <<>>, Life(s, a, x, l, n)
    PROVE /\ s \in Seq(Frame) /\ EventsInPlace(s) /\ NoTop(s) /\ OthersOver(x, l, n)
          /\ x # None => a
          /\ a => l[x] = <<>>
<1>1. Len(s) = 0 /\ s \in Seq(Frame) BY Tuples
<1>2. ~TimedOut(s) BY <1>1 DEF TimedOut
<1>3. ~Ending(s, x, l[x]) BY <1>1 DEF Ending
<1>4. \A k : ~ReadyFor(s, k) BY DEF ReadyFor
<1>5. EventsInPlace(s) /\ NoTop(s) BY <1>1 DEF EventsInPlace, NoTop
<1>6. OthersOver(x, l, n) BY <1>4 DEF Life, OthersOver
<1> QED BY <1>1, <1>2, <1>3, <1>5, <1>6, Zenon DEF Life

\* A step between two events.
LEMMA LifePush ==
    ASSUME NEW p \in Seq(Frame), NEW q \in Seq(Frame), NEW r, Pushed(r, p, q),
           EventsInPlace(p), NoTop(p), EventsInPlace(q), NoTop(q),
           NEW a, NEW x, NEW l, NEW n, OthersOver(x, l, n),
           x # None => a, a => l[x] = <<>>
    PROVE Life(r, a, x, l, n)
<1> HIDE DEF Frame
<1>1. EventsInPlace(r) /\ NoTop(r) BY EventsPush
<1>2. r \in Seq(Frame) BY DEF Pushed
<1>3. First(r, a, x, l) BY <1>1, <1>2, NoTopNext
<1> QED BY <1>1, <1>3, Zenon DEF Life, OthersOver

\* Frames that are no events.
LEMMA NoEvents ==
    ASSUME NEW p, ~Has(p, {"dispatch"}) PROVE EventsInPlace(p) /\ NoTop(p)
  BY DEF Has, EventsInPlace, NoTop

\* The events of the end of "x" are pushed.
LEMMA LifeEnd ==
    ASSUME NEW u \in Frame, NEW v \in Frame, NEW w \in Frame, NEW p \in Seq(Frame),
           Len(p) = 3, p[1] = u, p[2] = v, p[3] = w,
           NEW q \in Seq(Frame), NEW r, Pushed(r, p, q), EventsInPlace(q), NoTop(q),
           NEW x, NEW l, NEW n, OthersOver(x, l, n), NEW t \in EventTypes, NeedsComplete(l[x], t),
           u.op = "dispatch", u.type = "complete", u.req = x,
           v.op = "dispatch", v.type = t, v.req = x, w.op = "cleanUp"
    PROVE Life(r, FALSE, x, l, n)
<1>1. Len(p) = 3 /\ p[1] = u /\ p[2] = v /\ p[3] = w OBVIOUS
<1>2. t \in Outcomes BY DEF NeedsComplete, Outcomes
<1> HIDE DEF Frame
<1>3. \A i \in 1..3 : i = 1 \/ i = 2 \/ i = 3 OBVIOUS
<1>4. EventsInPlace(p) /\ NoTop(p)
  <2> SUFFICES ASSUME NEW i \in 1..Len(p), p[i].op = "dispatch"
               PROVE /\ \E j \in 1..Len(p) : j > i /\ p[j].op = "cleanUp"
                     /\ p[i].type \notin {"ready", "timeout"}
    BY DEF EventsInPlace, NoTop
  <2>1. i = 1 \/ i = 2 BY <1>1, <1>3
  <2>2. 3 \in 1..Len(p) /\ 3 > i BY <1>1, <2>1
  <2> QED BY <1>1, <1>2, <2>1, <2>2 DEF Outcomes
<1>5. EventsInPlace(r) /\ NoTop(r) BY <1>4, EventsPush
<1>6. r \in Seq(Frame) BY DEF Pushed
<1>7. First(r, FALSE, x, l) BY <1>5, <1>6, NoTopNext
<1>8. /\ Len(r) \in Nat /\ Len(r) >= 3
      /\ r[1] = u /\ r[2] = v /\ r[3] = w
  <2>1. Len(q) \in Nat /\ Len(r) = Len(p) + Len(q) BY PushedAt
  <2>2. \A i \in 1..Len(p) : r[i] = p[i] BY DEF Pushed
  <2>3. 1 \in 1..3 /\ 2 \in 1..3 /\ 3 \in 1..3 OBVIOUS
  <2> QED BY <1>1, <2>1, <2>2, <2>3
<1>9. Ending(r, x, l[x])
  <2>1. Rest(r, 3, x, l[x]) BY <1>8 DEF Rest
  <2>2. 3 \in 1..Len(r) BY <1>8
  <2> QED BY <1>8, <2>1, <2>2 DEF Ending
<1> QED BY <1>5, <1>7, <1>9, Zenon DEF Life, OthersOver

\* Each log is what has been dispatched so far.
LEMMA LifeBegun ==
    ASSUME NEW s, NEW a, NEW x, NEW l, NEW n \in Nat, Life(s, a, x, l, n)
    PROVE \A k \in Requests : Begun(l[k])
<1> SUFFICES ASSUME NEW k \in Requests PROVE Begun(l[k]) OBVIOUS
<1>0. k \in Nat /\ k # None BY DEF Requests, None
<1>1. CASE k > n BY <1>1 DEF Life, Begun
<1>2. CASE k <= n /\ k # x
  <2>1. CASE l[k] \in Lifecycles BY <2>1 DEF Begun
  <2>2. CASE ReadyFor(s, k)
    <3>1. s[1].req = k /\ NeedsReady(l[s[1].req]) BY <2>2 DEF Life, First, ReadyFor
    <3> QED BY <3>1 DEF Begun
  <2> QED BY <1>2, <2>1, <2>2 DEF Life
<1>3. CASE k = x
  <2>1. CASE a BY <1>3, <2>1, Zenon DEF Life, Begun
  <2>2. CASE ~a
    <3>1. Ending(s, x, l[x]) BY <1>0, <1>3, <2>2, Zenon DEF Life
    <3>2. PICK c \in 1..Len(s) : Rest(s, c, x, l[x]) BY <3>1 DEF Ending
    <3>3. \E t : NeedsComplete(l[x], t) \/ NeedsEnd(l[x], t) \/ NeedsReady(l[x])
      BY <3>2, Zenon DEF Rest
    <3> QED BY <1>3, <3>3, LogSteps, Zenon
  <2> QED BY <2>1, <2>2
<1> QED BY <1>0, <1>1, <1>2, <1>3

-----------------------------------------------------------------------------
(* An event is dispatched.  *)

\* The log with one more event about the request "k".
Logged(l, k, t) == [l EXCEPT ![k] = Append(@, t)]

LEMMA LoggedAt ==
    ASSUME NEW l \in [Requests -> Seq(EventTypes)], NEW k \in Requests, NEW t,
           NEW m, m = Logged(l, k, t)
    PROVE /\ m[k] = Append(l[k], t)
          /\ \A j \in Requests : j # k => m[j] = l[j]
  BY DEF Logged

\* The event on top belongs to the end of the request "x".
LEMMA EndOnTop ==
    ASSUME NEW s \in Seq(Frame), s # <<>>, s[1].op = "dispatch", s[1].type \in Ends,
           NEW x, NEW e, Ending(s, x, e)
    PROVE /\ s[1].req = x
          /\ s[1].type = "complete" =>
                /\ 3 \in 1..Len(s) /\ s[3].op = "cleanUp"
                /\ s[2].op = "dispatch" /\ s[2].req = x /\ NeedsComplete(e, s[2].type)
          /\ s[1].type # "complete" =>
                2 \in 1..Len(s) /\ s[2].op = "cleanUp" /\ NeedsEnd(e, s[1].type)
<1>0. 1 \in 1..Len(s) /\ Len(s) \in Nat BY TailIsPopped
<1> HIDE DEF Frame
<1>1. PICK c \in 1..Len(s) : s[c].op = "cleanUp" /\ Rest(s, c, x, e) BY DEF Ending
<1>2. c # 1 BY <1>1
<1>3. CASE /\ c = 3
           /\ s[1].op = "dispatch" /\ s[1].type = "complete" /\ s[1].req = x
           /\ s[2].op = "dispatch" /\ s[2].req = x /\ NeedsComplete(e, s[2].type)
  BY <1>1, <1>3
<1>4. CASE /\ c >= 2 /\ \A j \in 1..(c - 2) : s[j].op \in Passives
           /\ s[c - 1].op = "dispatch" /\ s[c - 1].req = x /\ NeedsEnd(e, s[c - 1].type)
  <2>1. c = 2
    <3>1. c > 2 => 1 \in 1..(c - 2) OBVIOUS
    <3> QED BY <1>4, <3>1 DEF Passives
  <2>2. c - 1 = 1 BY <2>1
  <2>3. s[1].req = x /\ NeedsEnd(e, s[1].type) BY <1>4, <2>2
  <2>4. s[1].type # "complete" BY <2>3 DEF NeedsEnd, Outcomes
  <2> QED BY <1>1, <2>1, <2>3, <2>4
<1>5. ~(\A j \in 1..(c - 1) : s[j].op \in Passives)
  <2>1. 1 \in 1..(c - 1) BY <1>2
  <2> QED BY <2>1 DEF Passives
<1> QED BY <1>1, <1>3, <1>4, <1>5, Zenon DEF Rest

\* An event of the end is dispatched.
LEMMA EndDispatched ==
    ASSUME NEW s \in Seq(Frame), s # <<>>, s[1].op = "dispatch", s[1].type \in Ends,
           NEW x, NEW e, Ending(s, x, e),
           NEW p \in Seq(Frame), All(p, Passives), NEW r, Pushed(r, p, Tail(s))
    PROVE Ending(r, x, Append(e, s[1].type))
<1>1. /\ r \in Seq(Frame) /\ Len(p) \in Nat
      /\ \A i \in 1..Len(p) : r[i] = p[i]
      /\ \A i \in 2..Len(s) : i + Len(p) - 1 \in 1..Len(r) /\ r[i + Len(p) - 1] = s[i]
  BY Moved
<1>2. PICK k \in Nat : k = Len(p) BY <1>1
<1>3. \A j \in 1..k : r[j].op \in Passives BY <1>1, <1>2 DEF All
<1> HIDE DEF Frame
<1>4. CASE s[1].type = "complete"
  <2>1. /\ 3 \in 1..Len(s) /\ s[3].op = "cleanUp"
        /\ s[2].op = "dispatch" /\ s[2].req = x /\ NeedsComplete(e, s[2].type)
    BY <1>4, EndOnTop
  <2>2. 2 \in 2..Len(s) /\ 3 \in 2..Len(s) BY <2>1
  <2>3. 2 + Len(p) - 1 = k + 1 /\ 3 + Len(p) - 1 = k + 2 BY <1>2
  <2>4. k + 2 \in 1..Len(r) /\ r[k + 1] = s[2] /\ r[k + 2] = s[3] BY <1>1, <2>2, <2>3
  <2>5. NeedsEnd(Append(e, s[1].type), s[2].type) BY <1>4, <2>1, LogSteps
  <2>6. k + 2 >= 2 /\ k + 2 - 1 = k + 1 /\ k + 2 - 2 = k OBVIOUS
  <2>7. Rest(r, k + 2, x, Append(e, s[1].type)) BY <1>3, <2>1, <2>4, <2>5, <2>6 DEF Rest
  <2> QED BY <2>1, <2>4, <2>7 DEF Ending
<1>5. CASE s[1].type # "complete"
  <2>1. 2 \in 1..Len(s) /\ s[2].op = "cleanUp" /\ NeedsEnd(e, s[1].type)
    BY <1>5, EndOnTop
  <2>2. 2 \in 2..Len(s) /\ 2 + Len(p) - 1 = k + 1 /\ k + 1 - 1 = k BY <1>2, <2>1
  <2>3. k + 1 \in 1..Len(r) /\ r[k + 1] = s[2] BY <1>1, <2>2
  <2>4. NeedsReady(Append(e, s[1].type)) BY <2>1, LogSteps
  <2>5. Rest(r, k + 1, x, Append(e, s[1].type)) BY <1>3, <2>2, <2>4 DEF Rest
  <2> QED BY <2>1, <2>3, <2>5 DEF Ending
<1> QED BY <1>4, <1>5

\* An event is dispatched: it is logged, and its listeners come first.
LEMMA DispatchLife ==
    ASSUME NEW s \in Seq(Frame), s # <<>>, s[1].op = "dispatch",
           NEW a, NEW x \in Nat, NEW l \in [Requests -> Seq(EventTypes)], NEW n \in Nat,
           x <= n, n <= MaxRequests, Life(s, a, x, l, n),
           a => x # None, Has(s, {"cleanUp"}) => ~a /\ x # None,
           NEW p \in Seq(Frame), All(p, Passives), NEW r, Pushed(r, p, Tail(s)),
           NEW m, m = IF s[1].type = "change" THEN l ELSE Logged(l, s[1].req, s[1].type)
    PROVE Life(r, a, x, m, n)
<1>1. PICK q \in Seq(Frame) : q = Tail(s) /\ EventsInPlace(q) /\ NoTop(q)
  BY EventsTail DEF Life
<1>2. EventsInPlace(p) /\ NoTop(p)
  <2>1. \A i \in 1..Len(p) : p[i].op # "dispatch" BY DEF All, Passives
  <2> QED BY <2>1 DEF EventsInPlace, NoTop
<1>3. s[1].type \in EventTypes
  <2>1. s[1] \in Frame BY TailIsPopped
  <2> QED BY <2>1 DEF Frame, Plain
<1>4. 1 \in 1..Len(s) BY TailIsPopped
<1>5. x # None => x \in Requests BY BoundsAssumption DEF Requests, None
<1> HIDE DEF Frame
<1>6. Pushed(r, p, q) BY <1>1
<1>7. EventsInPlace(r) /\ NoTop(r) BY <1>1, <1>2, <1>6, EventsPush
<1>8. r \in Seq(Frame) BY <1>6 DEF Pushed
<1>9. \A f : First(r, a, x, f) BY <1>7, <1>8, NoTopNext
<1>10. CASE s[1].type = "change"
  <2>1. s[1].op \notin Passives BY DEF Passives
  <2>2. OthersOver(x, l, n) /\ (x # None => a) /\ (a => l[x] = <<>>)
    BY <1>10, <2>1, Settled
  <2> QED BY <1>1, <1>2, <1>6, <1>10, <2>2, LifePush
<1>11. CASE s[1].type = "ready"
  <2>1. x = None /\ ~a /\ s[1].req \in Requests /\ NeedsReady(l[s[1].req])
    BY <1>11 DEF Life, First
  <2>2. PICK k \in Requests : k = s[1].req BY <2>1
  <2>3. m = Logged(l, k, "ready") BY <1>11, <2>2
  <2>4. m[k] \in Lifecycles
    <3>1. m[k] = Append(l[k], "ready") BY <2>3, LoggedAt
    <3> QED BY <2>1, <2>2, <3>1, LogSteps
  <2>5. \A j \in Requests : j # k => m[j] = l[j]
    <3>1. PICK f : f = Logged(l, k, "ready") OBVIOUS
    <3>2. \A j \in Requests : j # k => f[j] = l[j] BY <3>1, LoggedAt
    <3> QED BY <2>3, <3>1, <3>2
  <2>6. l[k] # <<>>
    <3>1. ~NeedsReady(<<>>) BY DEF NeedsReady
    <3> QED BY <2>1, <2>2, <3>1
  <2>7. \A j \in Requests : j # k => ~ReadyFor(s, j) BY <2>2 DEF ReadyFor
  <2>8. OthersOver(x, m, n) BY <2>4, <2>5, <2>6, <2>7 DEF Life, OthersOver
  <2> QED BY <1>1, <1>2, <1>6, <2>1, <2>8, LifePush
<1>12. CASE s[1].type = "timeout"
  <2>1. a /\ s[1].req = x /\ l[x] = <<>> /\ Len(s) >= 2 /\ s[2].op = "timedOut"
    BY <1>12 DEF Life, First
  <2>2. x \in Requests /\ m = Logged(l, x, "timeout") BY <1>5, <1>12, <2>1
  <2>3. m[x] = <<"timeout">> /\ \A j \in Requests : j # x => m[j] = l[j]
    BY <2>1, <2>2, LoggedAt, LogSteps
  <2>4. OthersOver(x, l, n)
    <3>1. s[1].op \notin Passives BY DEF Passives
    <3> QED BY <1>12, <3>1, Settled
  <2>5. OthersOver(x, m, n) BY <2>3, <2>4 DEF OthersOver
  <2>6. TimedOut(r)
    <3>1. /\ Len(p) \in Nat /\ Len(s) \in Nat
          /\ \A i \in 1..Len(p) : r[i] = p[i]
          /\ \A i \in 2..Len(s) : i + Len(p) - 1 \in 1..Len(r) /\ r[i + Len(p) - 1] = s[i]
      BY Moved
    <3>2. 2 \in 2..Len(s) /\ 2 + Len(p) - 1 = Len(p) + 1 /\ Len(p) + 1 - 1 = Len(p)
      BY <2>1, <3>1
    <3>3. Len(p) + 1 \in 1..Len(r) /\ r[Len(p) + 1].op = "timedOut" BY <2>1, <3>1, <3>2
    <3>4. \A j \in 1..Len(p) : r[j].op \in Passives BY <3>1 DEF All
    <3> QED BY <3>2, <3>3, <3>4 DEF TimedOut
  <2> QED BY <1>7, <1>9, <2>1, <2>3, <2>5, <2>6, Zenon DEF Life, OthersOver
<1>13. CASE s[1].type \in Ends
  <2>1. Has(s, {"cleanUp"}) BY <1>4, <1>13 DEF Life, EventsInPlace, Has
  <2>2. ~a /\ x # None BY <2>1
  <2>3. Ending(s, x, l[x]) BY <2>2, Zenon DEF Life
  <2>4. s[1].req = x BY <1>13, <2>3, EndOnTop
  <2>5. s[1].type # "change" BY <1>13 DEF Ends, Outcomes
  <2>6. x \in Requests /\ m = Logged(l, x, s[1].type) BY <1>5, <2>2, <2>4, <2>5
  <2>7. m[x] = Append(l[x], s[1].type) /\ \A j \in Requests : j # x => m[j] = l[j]
    <3>1. PICK t : t = s[1].type OBVIOUS
    <3>2. PICK k \in Requests : k = x BY <2>6
    <3>3. PICK f : f = Logged(l, k, t) OBVIOUS
    <3>4. f[k] = Append(l[k], t) /\ \A j \in Requests : j # k => f[j] = l[j]
      BY <3>3, LoggedAt
    <3> QED BY <2>6, <3>1, <3>2, <3>3, <3>4
  <2>8. Ending(r, x, m[x]) BY <1>13, <2>3, <2>7, EndDispatched
  <2>9. \A j : ~ReadyFor(s, j) BY <1>13 DEF ReadyFor, Ends, Outcomes
  <2>10. OthersOver(x, m, n) BY <2>7, <2>9 DEF Life, OthersOver
  <2> QED BY <1>7, <1>9, <2>2, <2>8, <2>10, Zenon DEF Life, OthersOver
<1> QED BY <1>3, <1>10, <1>11, <1>12, <1>13 DEF EventTypes, Ends, Outcomes

\* The clean-up of "x": the object is free, and READY is dispatched next.
LEMMA CleanUpLife ==
    ASSUME NEW s \in Seq(Frame), s # <<>>, s[1].op = "cleanUp",
           NEW x, x # None, x \in Requests, NEW l, NEW n, Life(s, FALSE, x, l, n),
           NEW u \in Frame, u.op = "dispatch", u.type = "ready", u.req = x,
           NEW v \in Frame, v.op = "closed",
           NEW p \in Seq(Frame), Len(p) = 2, p[1] = u, p[2] = v, NEW r, Pushed(r, p, Tail(s))
    PROVE Life(r, FALSE, None, l, n)
<1>1. PICK q \in Seq(Frame) : q = Tail(s) /\ EventsInPlace(q) /\ NoTop(q)
  BY EventsTail DEF Life
<1>0. 1 \in 1..Len(s) /\ Len(s) \in Nat BY TailIsPopped
<1> HIDE DEF Frame
<1>2. NeedsReady(l[x])
  <2>1. Ending(s, x, l[x]) BY Zenon DEF Life
  <2>2. PICK c \in 1..Len(s) : s[c].op = "cleanUp" /\ Rest(s, c, x, l[x])
    BY <2>1 DEF Ending
  <2>3. s[1].op # "dispatch" /\ s[1].op \notin Passives BY DEF Passives
  <2>4. c > 2 => 1 \in 1..(c - 2) OBVIOUS
  <2>5. c >= 2 => ~(/\ \A j \in 1..(c - 2) : s[j].op \in Passives
                    /\ s[c - 1].op = "dispatch")
    <3>1. CASE c = 2
      <4>1. c - 1 = 1 BY <3>1
      <4> QED BY <2>3, <4>1
    <3>2. CASE c > 2 BY <2>3, <2>4, <3>2
    <3> QED BY <3>1, <3>2
  <2> QED BY <2>2, <2>3, <2>5, Zenon DEF Rest
<1>3. Pushed(r, p, q) BY <1>1
<1>4. EventsInPlace(p)
  <2>1. \A i \in 1..2 : i = 1 \/ i = 2 OBVIOUS
  <2> QED BY <2>1 DEF EventsInPlace, Ends, Outcomes
<1>5. EventsInPlace(r) BY <1>1, <1>3, <1>4, EventsPush
<1>6. /\ r \in Seq(Frame) /\ Len(r) >= 2 /\ r[1] = u
  <2>1. Len(q) \in Nat /\ Len(r) = Len(p) + Len(q) BY <1>3, LenProperties DEF Pushed
  <2>2. 1 \in 1..Len(p) OBVIOUS
  <2>3. r \in Seq(Frame) /\ r[1] = p[1] BY <1>3, <2>2 DEF Pushed
  <2> QED BY <2>1, <2>3
<1>7. r # <<>>
  <2>1. Len(<<>>) = 0 BY Tuples
  <2> QED BY <1>6, <2>1
<1>8. First(r, FALSE, None, l) BY <1>2, <1>6 DEF First
<1>9. ReadyFor(r, x) BY <1>6, <1>7 DEF ReadyFor
<1>10. \A k \in Requests : k <= n => (k # None => (l[k] \in Lifecycles \/ ReadyFor(r, k)))
  <2>1. \A k : ~ReadyFor(s, k) BY DEF ReadyFor
  <2>2. \A k \in Requests : k <= n => (k # x => l[k] \in Lifecycles)
    BY <2>1, Zenon DEF Life
  <2> QED BY <1>9, <2>2, Zenon
<1> QED BY <1>5, <1>8, <1>10, Zenon DEF Life

-----------------------------------------------------------------------------
(* The steps between two events.  *)

LifeNow ==
    /\ Life(todo, active, xhr, log, requests)
    /\ active => ~reported

LEMMA Facts ==
    ASSUME Base(todo), Free(todo)
    PROVE /\ todo \in Seq(Frame) /\ xhr \in Nat /\ requests \in Nat /\ xhr <= requests
          /\ requests <= MaxRequests /\ log \in [Requests -> Seq(EventTypes)]
          /\ active \in BOOLEAN /\ (active => xhr # None)
          /\ ~disposed => (Has(todo, {"cleanUp"}) => ~active /\ xhr # None)
<1>1. /\ todo \in Seq(Frame) /\ xhr \in Nat /\ requests \in Nat /\ xhr <= requests
      /\ requests <= MaxRequests /\ log \in [Requests -> Seq(EventTypes)]
      /\ active \in BOOLEAN
  BY DEF Base, VarsOK, NumbersOK, LogOK, FlagsOK
<1>2. /\ active => xhr # None
      /\ ~disposed => (Has(todo, {"cleanUp"}) => ~active /\ xhr # None)
  BY Zenon DEF Free, EndsProperly
<1> QED BY <1>1, <1>2

\* The step only changes the stack.
LEMMA SameLife ==
    ASSUME NEW r, Life(r, active, xhr, log, requests), active => ~reported, todo' = r,
           UNCHANGED <<active, xhr, reported, log, requests>>
    PROVE LifeNow'
  BY DEF LifeNow

LEMMA KeepLife ==
    ASSUME Base(todo), LifeNow, todo # <<>>, todo[1].op \in Passives,
           NEW p \in Seq(Frame), All(p, Passives), Pushed(todo', p, Tail(todo)),
           UNCHANGED <<active, xhr, reported, log, requests>>
    PROVE LifeNow'
<1>1. PICK r : r = todo' OBVIOUS
<1>2. todo \in Seq(Frame) BY DEF Base
<1>3. Life(todo, active, xhr, log, requests) /\ (active => ~reported) BY DEF LifeNow
<1> HIDE DEF Base, Frame, LifeNow
<1>4. Life(r, active, xhr, log, requests) BY <1>1, <1>2, <1>3, PassiveStep
<1> QED BY <1>1, <1>3, <1>4, SameLife

LEMMA DropLife ==
    ASSUME Base(todo), LifeNow, todo # <<>>, todo[1].op \in Passives, todo' = Tail(todo),
           UNCHANGED <<active, xhr, reported, log, requests>>
    PROVE LifeNow'
<1>1. PICK n \in Seq(Frame) : n = <<>> /\ Len(n) = 0
  <2>1. <<>> \in Seq(Frame) /\ Len(<<>>) = 0 BY Tuples
  <2> QED BY <2>1, Zenon
<1>2. All(n, Passives) BY <1>1 DEF All
<1>3. Tail(todo) \in Seq(Frame) BY TailIsPopped DEF Base
<1> HIDE DEF Base, Frame, LifeNow
<1>4. Pushed(todo', n, Tail(todo)) BY <1>1, <1>3, PopIsPushed
<1> QED BY <1>1, <1>2, <1>4, KeepLife

LEMMA EventStepLife == ASSUME Base(todo), LifeNow, EventStep PROVE LifeNow'
<1>1. UNCHANGED <<active, xhr, reported, log, requests>> BY DEF EventStep, io, history
<1> HIDE DEF Base, LifeNow
<1>2. CASE Skip
  <2>1. todo # <<>> /\ todo[1].op = "walk" /\ todo[1].op \in Passives
    BY <1>2 DEF Skip, Doing, Passives
  <2>2. UNCHANGED <<io, native, disposed, monitor, fault, history>> BY DEF EventStep
  <2>3. PICK v : v.op = "walk" /\ Pushed(todo', <<v>>, Tail(todo)) BY <1>2, <2>2, SkipBase
  <2>4. PICK p : p = <<v>> OBVIOUS
  <2>5. Len(p) = 1 /\ p[1] = v BY <2>4
  <2>6. p \in Seq(Frame)
    <3>1. PICK n \in Nat : n = Len(Tail(todo)) BY <2>1, TailIsPopped DEF Base
    <3>2. todo' \in Seq(Frame) /\ Len(todo') = Len(p) + n /\ \A i \in 1..Len(p) : todo'[i] = p[i]
      BY <2>3, <2>4, <3>1 DEF Pushed
    <3>3. 1 \in 1..Len(todo') /\ 1 \in 1..Len(p) BY <2>5, <3>1, <3>2
    <3>4. todo'[1] \in Frame BY <3>2, <3>3, ElementOfSeq
    <3>5. v \in Frame BY <2>5, <3>2, <3>3, <3>4
    <3> QED BY <2>4, <3>5, Tuples
  <2>7. All(p, Passives)
    <3>1. \A i \in 1..1 : i = 1 OBVIOUS
    <3> QED BY <2>3, <2>5, <3>1 DEF All, Passives
  <2>8. Pushed(todo', p, Tail(todo)) BY <2>3, <2>4
  <2> QED BY <1>1, <2>1, <2>6, <2>7, <2>8, KeepLife
<1>3. CASE RemoveOnce
  <2>1. todo # <<>> /\ todo[1].op \in Passives /\ todo' = Tail(todo)
    BY <1>3 DEF RemoveOnce, Doing, Passives
  <2> QED BY <1>1, <2>1, DropLife
<1>4. CASE EndWalk
  <2>1. todo # <<>> /\ todo[1].op \in Passives /\ todo' = Tail(todo)
    BY <1>4 DEF EndWalk, Doing, Passives
  <2> QED BY <1>1, <2>1, DropLife
<1> QED BY <1>2, <1>3, <1>4 DEF EventStep

LEMMA PopContextLife == ASSUME Base(todo), LifeNow, PopContext PROVE LifeNow'
<1>1. /\ todo # <<>> /\ todo[1].op \in Passives /\ todo' = Tail(todo)
      /\ UNCHANGED <<active, xhr, reported, log, requests>>
  BY DEF PopContext, Doing, Passives, io, history
<1> HIDE DEF Base, LifeNow
<1> QED BY <1>1, DropLife

\* What a heavy step, or a call that leaves "q" on the stack, may go on from.
Resumes(q) ==
    /\ q \in Seq(Frame) /\ EventsInPlace(q) /\ NoTop(q)
    /\ OthersOver(xhr, log, requests)
    /\ active => ~reported

LEMMA HeadSettled ==
    ASSUME Base(todo), LifeNow, todo # <<>>,
           todo[1].op \in {"change", "complete", "failed", "opened", "sent", "closed", "timedOut"}
    PROVE /\ Resumes(Tail(todo))
          /\ xhr # None => active
          /\ active => (log[xhr] = <<>> \/ (log[xhr] = <<"timeout">> /\ todo[1].op = "timedOut"))
<1>1. /\ todo[1].op \notin Passives /\ todo[1].op # "cleanUp" /\ todo[1].op # "dispatch"
  BY DEF Passives
<1>2. todo \in Seq(Frame) BY DEF Base
<1>3. Life(todo, active, xhr, log, requests) /\ (active => ~reported) BY DEF LifeNow
<1> HIDE DEF Frame, Base, LifeNow
<1>4. /\ Tail(todo) \in Seq(Frame) /\ EventsInPlace(Tail(todo)) /\ NoTop(Tail(todo))
      /\ OthersOver(xhr, log, requests)
      /\ xhr # None => active
      /\ active => (log[xhr] = <<>> \/ (log[xhr] = <<"timeout">> /\ todo[1].op = "timedOut"))
  BY <1>1, <1>2, <1>3, Settled
<1> QED BY <1>3, <1>4 DEF Resumes

\* Frames that end no request are pushed.
LEMMA PushLife ==
    ASSUME NEW q, Resumes(q), NEW p \in Seq(Frame), EventsInPlace(p), NoTop(p),
           Pushed(todo', p, q), xhr # None => active, active => log[xhr] = <<>>,
           UNCHANGED <<active, xhr, reported, log, requests>>
    PROVE LifeNow'
<1>1. PICK r : r = todo' OBVIOUS
<1>2. /\ q \in Seq(Frame) /\ EventsInPlace(q) /\ NoTop(q)
      /\ OthersOver(xhr, log, requests) /\ (active => ~reported)
  BY DEF Resumes
<1> HIDE DEF Frame
<1>3. Life(r, active, xhr, log, requests) BY <1>1, <1>2, LifePush
<1> QED BY <1>1, <1>2, <1>3, SameLife

LEMMA PopLife ==
    ASSUME NEW q, Resumes(q), todo' = q, xhr # None => active, active => log[xhr] = <<>>,
           UNCHANGED <<active, xhr, reported, log, requests>>
    PROVE LifeNow'
<1>1. PICK n \in Seq(Frame) : n = <<>> /\ \A ops : ~Has(n, ops)
  <2>1. <<>> \in Seq(Frame) /\ \A ops : ~Has(<<>>, ops) BY Tuples, TupleHas
  <2> QED BY <2>1, Zenon
<1>2. EventsInPlace(n) /\ NoTop(n) BY <1>1, NoEvents
<1>3. q \in Seq(Frame) BY DEF Resumes
<1> HIDE DEF Frame
<1>4. Pushed(todo', n, q) BY <1>1, <1>3, PopIsPushed
<1> QED BY <1>1, <1>2, <1>4, PushLife

LEMMA StateChangeLife == ASSUME Base(todo), LifeNow, StateChange PROVE LifeNow'
<1>1. /\ todo # <<>> /\ todo[1].op = "change"
      /\ UNCHANGED <<active, xhr, reported, log, requests>>
  BY DEF StateChange, Doing, io, history
<1>2. PICK u, v \in Frame : /\ u = Dispatch("change") /\ v = Op("complete")
                            /\ u.op = "dispatch" /\ u.type = "change" /\ v.op = "complete"
  <2>1. Dispatch("change").type = "change" BY DEF Dispatch
  <2>2. Dispatch("change") \in Frame /\ Op("complete") \in Frame /\ Dispatch("change").op = "dispatch"
        /\ Op("complete").op = "complete"
    BY Frames DEF Base, VarsOK, NumbersOK, EventTypes, Plain
  <2> QED BY <2>1, <2>2, Zenon
<1> HIDE DEF Base, LifeNow
<1>3. /\ Resumes(Tail(todo)) /\ (xhr # None => active) /\ (active => log[xhr] = <<>>)
  BY <1>1, HeadSettled
<1>4. CASE todo' = Tail(todo) BY <1>1, <1>3, <1>4, PopLife
<1>5. CASE todo' # Tail(todo)
  <2>1. PICK p \in Seq(Frame) : p = <<u, v>> /\ Len(p) = 2 /\ p[1] = u /\ p[2] = v
    <3>1. <<u, v>> \in Seq(Frame) BY Tuples
    <3>2. Len(<<u, v>>) = 2 /\ <<u, v>>[1] = u /\ <<u, v>>[2] = v OBVIOUS
    <3> QED BY <3>1, <3>2, Zenon
  <2>2. todo' = p \o Tail(todo) BY <1>2, <1>5, <2>1 DEF StateChange, Push
  <2>3. Pushed(todo', p, Tail(todo)) BY <1>1, <2>1, <2>2, StackStep
  <2>4. EventsInPlace(p) /\ NoTop(p)
    <3>1. \A i \in 1..2 : i = 1 \/ i = 2 OBVIOUS
    <3> QED BY <1>2, <2>1, <3>1 DEF EventsInPlace, NoTop, Ends, Outcomes
  <2> HIDE DEF Frame
  <2> QED BY <1>1, <1>3, <2>1, <2>3, <2>4, PushLife
<1> QED BY <1>4, <1>5

LEMMA SendsRequestLife ==
    ASSUME Base(todo), LifeNow, SendOpened, SendsRequest PROVE LifeNow'
<1>1. /\ todo # <<>> /\ todo[1].op = "opened"
      /\ UNCHANGED <<active, xhr, reported, log, requests>> /\ xhr # None
  BY DEF SendOpened, SendsRequest, Doing
<1>2. PICK a, b, c \in Frame : /\ a = Op("failed") /\ b = Op("sent") /\ c = Op("change")
                               /\ a.op = "failed" /\ b.op = "sent" /\ c.op = "change"
  BY Frames DEF Plain
<1>3. PICK y \in Seq(Frame) : y = <<a>> /\ \A ops : Has(y, ops) <=> a.op \in ops
  BY Stacks, Zenon
<1>4. PICK z \in Seq(Frame) : z = <<b>> /\ \A ops : Has(z, ops) <=> b.op \in ops
  BY Stacks, Zenon
<1>5. PICK w \in Seq(Frame) : w = <<c, b>> /\ \A ops : Has(w, ops) <=> c.op \in ops \/ b.op \in ops
  BY Stacks, Zenon
<1>6. PICK p : p \in {y, z, w} /\ todo' = p \o Tail(todo)
  BY <1>1, <1>2, <1>3, <1>4, <1>5 DEF SendsRequest, NativeSend, Push
<1>7. p \in Seq(Frame) /\ ~Has(p, {"dispatch"})
  <2>1. ~Has(y, {"dispatch"}) /\ ~Has(z, {"dispatch"}) /\ ~Has(w, {"dispatch"})
    BY <1>2, <1>3, <1>4, <1>5
  <2> QED BY <1>6, <2>1
<1> HIDE DEF Base, LifeNow
<1>8. EventsInPlace(p) /\ NoTop(p) BY <1>7, NoEvents
<1>9. Pushed(todo', p, Tail(todo)) BY <1>1, <1>6, <1>7, StackStep
<1>10. /\ Resumes(Tail(todo)) /\ (xhr # None => active) /\ (active => log[xhr] = <<>>)
  BY <1>1, HeadSettled
<1> HIDE DEF Frame
<1> QED BY <1>1, <1>7, <1>8, <1>9, <1>10, PushLife

LEMMA ReturnsLife ==
    ASSUME Base(todo), LifeNow, SendReturns \/ CloseXhr \/ (SendOpened /\ SendThrows)
    PROVE LifeNow'
<1>1. /\ todo # <<>> /\ todo[1].op \in {"sent", "closed", "opened"} /\ todo' = Tail(todo)
      /\ UNCHANGED <<active, xhr, reported, log, requests>>
  BY DEF SendReturns, CloseXhr, SendOpened, SendThrows, Doing, io, history
<1> HIDE DEF Base, LifeNow
<1>2. /\ Resumes(Tail(todo)) /\ (xhr # None => active) /\ (active => log[xhr] = <<>>)
  BY <1>1, HeadSettled
<1> QED BY <1>1, <1>2, PopLife

-----------------------------------------------------------------------------
(* The steps that end a request or dispatch an event.  *)

\* The present request ends.
LEMMA EndLife ==
    ASSUME xhr \in Nat, NEW q, Resumes(q), NEW t \in EventTypes, NeedsComplete(log[xhr], t),
           todo' = <<Dispatch("complete"), Dispatch(t), Op("cleanUp")>> \o q,
           active' = FALSE, UNCHANGED <<xhr, log, requests>>
    PROVE LifeNow'
<1>1. PICK u, v, w \in Frame :
        /\ u = Dispatch("complete") /\ v = Dispatch(t) /\ w = Op("cleanUp")
        /\ u.op = "dispatch" /\ u.type = "complete" /\ u.req = xhr
        /\ v.op = "dispatch" /\ v.type = t /\ v.req = xhr /\ w.op = "cleanUp"
  <2>1. \A e : Dispatch(e).op = "dispatch" /\ Dispatch(e).type = e /\ Dispatch(e).req = xhr
    BY DEF Dispatch
  <2>2. Dispatch("complete") \in Frame /\ Dispatch(t) \in Frame /\ Op("cleanUp") \in Frame
        /\ Op("cleanUp").op = "cleanUp"
    BY Frames DEF EventTypes, Plain
  <2> QED BY <2>1, <2>2, Zenon
<1>2. PICK p \in Seq(Frame) : p = <<u, v, w>> /\ Len(p) = 3 /\ p[1] = u /\ p[2] = v /\ p[3] = w
  <2>1. <<u, v, w>> \in Seq(Frame) BY Tuples
  <2>2. /\ Len(<<u, v, w>>) = 3 /\ <<u, v, w>>[1] = u /\ <<u, v, w>>[2] = v
        /\ <<u, v, w>>[3] = w
    OBVIOUS
  <2> QED BY <2>1, <2>2, Zenon
<1>3. todo' = p \o q BY <1>1, <1>2
<1>4. /\ q \in Seq(Frame) /\ EventsInPlace(q) /\ NoTop(q)
      /\ OthersOver(xhr, log, requests)
  BY DEF Resumes
<1> HIDE DEF Frame
<1>5. PICK r : r = todo' OBVIOUS
<1>6. Pushed(r, p, q) BY <1>3, <1>4, <1>5, PushIsPushed
<1>7. Life(r, FALSE, xhr, log, requests) BY <1>1, <1>2, <1>4, <1>6, LifeEnd
<1> QED BY <1>5, <1>7 DEF LifeNow

LEMMA Joined ==
    ASSUME NEW u \in Frame, NEW v \in Frame, NEW w \in Frame
    PROVE <<u, v>> \o <<w>> = <<u, v, w>>
<1>1. PICK a \in Seq(Frame) : a = <<u, v>> /\ Len(a) = 2 /\ a[1] = u /\ a[2] = v
  <2>1. <<u, v>> \in Seq(Frame) BY Tuples
  <2>2. Len(<<u, v>>) = 2 /\ <<u, v>>[1] = u /\ <<u, v>>[2] = v OBVIOUS
  <2> QED BY <2>1, <2>2, Zenon
<1>2. PICK b \in Seq(Frame) : b = <<w>> /\ Len(b) = 1 /\ b[1] = w
  <2>1. <<w>> \in Seq(Frame) BY Tuples
  <2>2. Len(<<w>>) = 1 /\ <<w>>[1] = w OBVIOUS
  <2> QED BY <2>1, <2>2, Zenon
<1>3. PICK c \in Seq(Frame) : /\ c = <<u, v, w>> /\ Len(c) = 3
                              /\ c[1] = u /\ c[2] = v /\ c[3] = w
  <2>1. <<u, v, w>> \in Seq(Frame) BY Tuples
  <2>2. /\ Len(<<u, v, w>>) = 3 /\ <<u, v, w>>[1] = u /\ <<u, v, w>>[2] = v
        /\ <<u, v, w>>[3] = w
    OBVIOUS
  <2> QED BY <2>1, <2>2, Zenon
<1> HIDE DEF Frame
<1>4. PICK d : d = a \o b OBVIOUS
<1>5. Pushed(d, a, b) BY <1>4, PushIsPushed
<1>6. d \in Seq(Frame) /\ Len(d) = 3 /\ d[1] = u /\ d[2] = v /\ d[3] = w
  <2>1. 1 \in 1..2 /\ 2 \in 1..2 /\ 1 \in 1..1 OBVIOUS
  <2>2. \A i \in 1..2 : d[i] = a[i] BY <1>1, <1>5 DEF Pushed
  <2>3. \A i \in 1..1 : d[i + 2] = b[i] BY <1>1, <1>2, <1>5 DEF Pushed
  <2>4. d \in Seq(Frame) /\ Len(d) = Len(a) + Len(b) BY <1>5 DEF Pushed
  <2>5. 1 + 2 = 3 OBVIOUS
  <2> QED BY <1>1, <1>2, <2>1, <2>2, <2>3, <2>4, <2>5
<1>7. \A i \in 1..3 : i = 1 \/ i = 2 \/ i = 3 OBVIOUS
<1>8. \A i \in 1..Len(c) : c[i] = d[i] BY <1>3, <1>6, <1>7
<1>9. c = d BY <1>3, <1>6, <1>8, SeqEqual
<1> QED BY <1>1, <1>2, <1>3, <1>4, <1>9

\* The same, put together as the code does.
LEMMA JoinedLife ==
    ASSUME Base(todo), todo # <<>>, Resumes(Tail(todo)), NEW t \in EventTypes,
           NeedsComplete(log[xhr], t),
           Push(<<Dispatch("complete"), Dispatch(t)>> \o <<Op("cleanUp")>>),
           active' = FALSE, UNCHANGED <<xhr, log, requests>>
    PROVE LifeNow'
<1>1. xhr \in Nat BY DEF Base, VarsOK, NumbersOK
<1>2. Dispatch("complete") \in Frame /\ Dispatch(t) \in Frame /\ Op("cleanUp") \in Frame
  BY <1>1, Frames DEF EventTypes, Plain
<1>3. <<Dispatch("complete"), Dispatch(t)>> \o <<Op("cleanUp")>>
        = <<Dispatch("complete"), Dispatch(t), Op("cleanUp")>>
  BY <1>2, Joined
<1>4. todo' = <<Dispatch("complete"), Dispatch(t), Op("cleanUp")>> \o Tail(todo)
  BY <1>3 DEF Push
<1> HIDE DEF Base, Frame
<1> QED BY <1>1, <1>4, EndLife

LEMMA CheckCompleteLife == ASSUME Base(todo), LifeNow, CheckComplete PROVE LifeNow'
<1>1. todo # <<>> /\ todo[1].op = "complete" /\ UNCHANGED <<xhr, log, requests>>
  BY DEF CheckComplete, Doing, history
<1>2. good \in BOOLEAN BY DEF Base, VarsOK, FlagsOK
<1> HIDE DEF Base, LifeNow
<1>3. /\ Resumes(Tail(todo)) /\ (xhr # None => active) /\ (active => log[xhr] = <<>>)
  BY <1>1, HeadSettled
<1>4. CASE xhr = None \/ state # 4
  <2>1. todo' = Tail(todo) /\ UNCHANGED <<active, reported>> BY <1>4 DEF CheckComplete
  <2> QED BY <1>1, <1>3, <2>1, PopLife
<1>5. CASE xhr # None /\ state = 4
  <2>1. ~reported /\ log[xhr] = <<>> BY <1>3, <1>5 DEF Resumes
  <2>2. NeedsComplete(log[xhr], "success") /\ NeedsComplete(log[xhr], "error")
    BY <2>1 DEF NeedsComplete, Outcomes
  <2>3. "success" \in EventTypes /\ "error" \in EventTypes BY Names
  <2>4. active' = FALSE BY <1>5 DEF CheckComplete
  <2>5. \/ Push(<<Dispatch("complete"), Dispatch("success")>> \o <<Op("cleanUp")>>)
        \/ Push(<<Dispatch("complete"), Dispatch("error")>> \o <<Op("cleanUp")>>)
    BY <1>5, <2>1 DEF CheckComplete, Push
  <2> QED BY <1>1, <1>3, <2>2, <2>3, <2>4, <2>5, JoinedLife
<1> QED BY <1>4, <1>5

LEMMA FailLife == ASSUME Base(todo), LifeNow, Free(todo), Fail PROVE LifeNow'
<1>1. todo # <<>> /\ todo[1].op = "failed" /\ UNCHANGED <<xhr, log, requests>>
      /\ active' = FALSE
  BY DEF Fail, Doing, history
<1> HIDE DEF Base, LifeNow
<1>2. /\ Resumes(Tail(todo)) /\ (active => log[xhr] = <<>>)
  BY <1>1, HeadSettled
<1>3. active BY <1>1, PopFree
<1>4. ~reported /\ log[xhr] = <<>> BY <1>2, <1>3 DEF Resumes
<1>5. NeedsComplete(log[xhr], "error") BY <1>4 DEF NeedsComplete, Outcomes
<1>6. Push(<<Dispatch("complete"), Dispatch("error")>> \o <<Op("cleanUp")>>)
  BY <1>4 DEF Fail, Push
<1>7. "error" \in EventTypes BY Names
<1> QED BY <1>1, <1>2, <1>5, <1>6, <1>7, JoinedLife

LEMMA CleanUpXhrLife ==
    ASSUME Base(todo), LifeNow, Free(todo), ~disposed, CleanUpXhr PROVE LifeNow'
<1>1. /\ todo # <<>> /\ todo[1].op = "cleanUp" /\ xhr' = None
      /\ UNCHANGED <<active, reported, log, requests>>
  BY DEF CleanUpXhr, Doing, history
<1>0. 1 \in 1..Len(todo) BY <1>1, TailIsPopped DEF Base
<1>2. todo \in Seq(Frame) /\ ~active /\ active \in BOOLEAN /\ xhr # None /\ xhr \in Requests
  <2>1. Has(todo, {"cleanUp"}) BY <1>0, <1>1 DEF Has
  <2> HIDE DEF Base, Free
  <2>2. ~active /\ xhr # None BY <2>1, Facts
  <2>3. /\ todo \in Seq(Frame) /\ active \in BOOLEAN /\ xhr \in Nat /\ requests \in Nat
        /\ xhr <= requests /\ requests <= MaxRequests
    BY Facts
  <2> QED BY <2>2, <2>3, BoundsAssumption DEF Requests, None
<1>3. Life(todo, FALSE, xhr, log, requests)
  <2>1. active = FALSE BY <1>2
  <2> QED BY <2>1 DEF LifeNow
<1>4. PICK u, v \in Frame : /\ u = Ready(xhr) /\ v = Closed(xhr)
                            /\ u.op = "dispatch" /\ u.type = "ready" /\ u.req = xhr
                            /\ v.op = "closed"
  <2>1. Ready(xhr).type = "ready" /\ Ready(xhr).req = xhr BY DEF Ready
  <2>2. /\ Ready(xhr) \in Frame /\ Closed(xhr) \in Frame
        /\ Ready(xhr).op = "dispatch" /\ Closed(xhr).op = "closed"
    BY <1>2, Frames DEF Requests
  <2> QED BY <2>1, <2>2, Zenon
<1>5. PICK p \in Seq(Frame) : p = <<u, v>> /\ Len(p) = 2 /\ p[1] = u /\ p[2] = v
  <2>1. <<u, v>> \in Seq(Frame) BY Tuples
  <2>2. Len(<<u, v>>) = 2 /\ <<u, v>>[1] = u /\ <<u, v>>[2] = v OBVIOUS
  <2> QED BY <2>1, <2>2, Zenon
<1>6. todo' = p \o Tail(todo) BY <1>2, <1>4, <1>5 DEF CleanUpXhr, Push
<1> HIDE DEF Base, LifeNow, Free
<1>7. Pushed(todo', p, Tail(todo)) BY <1>1, <1>5, <1>6, StackStep
<1> HIDE DEF Frame
<1>8. PICK r : r = todo' OBVIOUS
<1>9. Life(r, FALSE, None, log, requests)
  BY <1>1, <1>2, <1>3, <1>4, <1>5, <1>7, <1>8, CleanUpLife
<1>10. active' = FALSE BY <1>1, <1>2
<1> QED BY <1>1, <1>8, <1>9, <1>10 DEF LifeNow

LEMMA DispatchEventLife ==
    ASSUME Base(todo), LifeNow, Free(todo), ~disposed, DispatchEvent PROVE LifeNow'
<1>1. /\ todo # <<>> /\ todo[1].op = "dispatch"
      /\ UNCHANGED <<active, xhr, reported, requests>>
  BY DEF DispatchEvent, Doing, io
<1>2. PICK p \in Seq(Frame) :
        /\ Pushed(todo', p, Tail(todo))
        /\ Len(p) = IF xhr = None THEN 1 ELSE 2
        /\ p[1].op = "walk"
        /\ xhr # None => p[2] = Op("pop")
  BY DispatchBase
<1>3. All(p, Passives)
  <2>1. \A i \in 1..Len(p) : i = 1 \/ (i = 2 /\ xhr # None) BY <1>2
  <2> QED BY <1>2, <2>1 DEF All, Passives, Op
<1>4. PICK m : m = log' OBVIOUS
<1>5. m = IF todo[1].type = "change" THEN log ELSE Logged(log, todo[1].req, todo[1].type)
  BY <1>4 DEF DispatchEvent, Logged
<1>6. Life(todo, active, xhr, log, requests) /\ (active => ~reported) BY DEF LifeNow
<1> HIDE DEF Base, LifeNow, Free, Frame
<1>7. /\ todo \in Seq(Frame) /\ xhr \in Nat /\ requests \in Nat /\ xhr <= requests
      /\ requests <= MaxRequests /\ log \in [Requests -> Seq(EventTypes)]
      /\ active => xhr # None
      /\ Has(todo, {"cleanUp"}) => ~active /\ xhr # None
  BY Facts
<1>8. PICK r : r = todo' OBVIOUS
<1>9. Life(r, active, xhr, m, requests)
  BY <1>1, <1>2, <1>3, <1>5, <1>6, <1>7, <1>8, DispatchLife
<1> QED BY <1>1, <1>4, <1>6, <1>8, <1>9 DEF LifeNow

-----------------------------------------------------------------------------
(* Calls and the outside: the order of the events.  *)

LEMMA SendLife ==
    ASSUME NEW r, Base(r), Resumes(r), Send(r), ~thrown' PROVE LifeNow'
<1>1. xhr = None BY DEF Send, Throw
<1>2. /\ xhr' = requests + 1 /\ requests' = requests + 1 /\ active' = TRUE
      /\ reported' = FALSE /\ UNCHANGED log /\ requests < MaxRequests
  BY <1>1 DEF Send
<1>3. PICK a, b, c \in Frame : /\ a = Op("change") /\ b = Op("opened") /\ c = Op("failed")
                               /\ a.op = "change" /\ b.op = "opened" /\ c.op = "failed"
  BY Frames DEF Plain
<1>4. PICK y \in Seq(Frame) : y = <<a, b>> /\ \A ops : Has(y, ops) <=> a.op \in ops \/ b.op \in ops
  BY Stacks, Zenon
<1>5. PICK z \in Seq(Frame) : z = <<c>> /\ \A ops : Has(z, ops) <=> c.op \in ops
  BY Stacks, Zenon
<1>6. PICK p \in Seq(Frame) : (p = y \/ p = z) /\ Pushed(todo', p, r)
  <2>1. PICK p : Pushed(todo', p, r) /\ p \in {<<Op("change"), Op("opened")>>, <<Op("failed")>>}
    BY <1>1, SendBase
  <2> QED BY <1>3, <1>4, <1>5, <2>1
<1>7. ~Has(p, {"dispatch"})
  <2>1. ~Has(y, {"dispatch"}) /\ ~Has(z, {"dispatch"}) BY <1>3, <1>4, <1>5
  <2> QED BY <1>6, <2>1
<1>8. PICK n \in Nat : n = requests /\ n + 1 \in Requests
  BY <1>2, BoundsAssumption DEF Base, VarsOK, NumbersOK, Requests
<1>9. /\ r \in Seq(Frame) /\ EventsInPlace(r) /\ NoTop(r)
      /\ OthersOver(xhr, log, requests)
  BY DEF Resumes
<1>10. OthersOver(n + 1, log, n + 1)
  <2>1. \A k \in Requests : k \in Nat /\ k # None BY DEF Requests, None
  <2>2. \A k \in Requests : k > n + 1 => k > n BY <2>1
  <2>3. \A k \in Requests : k <= n + 1 /\ k # n + 1 => k <= n BY <2>1
  <2>4. /\ \A k \in Requests : k > n => log[k] = <<>>
        /\ \A k \in Requests : k <= n => (k # None => log[k] \in Lifecycles)
    BY <1>1, <1>8, <1>9 DEF OthersOver
  <2> QED BY <2>1, <2>2, <2>3, <2>4, Zenon DEF OthersOver
<1>11. log[n + 1] = <<>> BY <1>8, <1>9 DEF OthersOver
<1> HIDE DEF Frame, Base
<1>12. EventsInPlace(p) /\ NoTop(p) BY <1>7, NoEvents
<1>13. PICK s : s = todo' OBVIOUS
<1>14. Pushed(s, p, r) BY <1>6, <1>13
<1>15. Life(s, TRUE, n + 1, log, n + 1) BY <1>9, <1>10, <1>11, <1>12, <1>14, LifePush
<1> QED BY <1>2, <1>8, <1>13, <1>15 DEF LifeNow

LEMMA AbortLife ==
    ASSUME xhr \in Nat, NEW r, Resumes(r), active => log[xhr] = <<>> \/ log[xhr] = <<"timeout">>,
           Abort(r)
    PROVE LifeNow'
<1>1. active /\ active' = FALSE /\ UNCHANGED <<xhr, log, requests>> BY DEF Abort, history
<1>2. todo' = <<Dispatch("complete"), Dispatch("abort"), Op("cleanUp")>> \o r BY DEF Abort
<1>3. NeedsComplete(log[xhr], "abort") BY <1>1, Zenon DEF NeedsComplete, Outcomes
<1>4. "abort" \in EventTypes BY Names
<1> QED BY <1>1, <1>2, <1>3, <1>4, EndLife

LEMMA ApplicationLife ==
    ASSUME NEW r, Base(r), Resumes(r),
           active => log[xhr] = <<>> \/ log[xhr] = <<"timeout">>,
           Send(r) \/ Abort(r) \/ Dispose(r) \/ Throw(r), ~thrown', ~disposed'
    PROVE LifeNow'
<1>1. xhr \in Nat BY DEF Base, VarsOK, NumbersOK
<1>2. ~Throw(r) /\ ~Dispose(r) BY DEF Throw, Dispose
<1> HIDE DEF Base, Resumes, LifeNow
<1> QED BY <1>1, <1>2, SendLife, AbortLife

LEMMA AbortTimedOutLife ==
    ASSUME Base(todo), LifeNow, Free(todo), AbortTimedOut PROVE LifeNow'
<1>1. todo # <<>> /\ todo[1].op = "timedOut" BY DEF AbortTimedOut, Doing
<1> HIDE DEF Base, LifeNow, Free
<1>2. /\ Resumes(Tail(todo)) /\ (xhr # None => active)
      /\ active => log[xhr] = <<>> \/ log[xhr] = <<"timeout">>
  BY <1>1, HeadSettled
<1>3. xhr \in Nat /\ (active => xhr # None) BY Facts
<1>4. CASE xhr # None /\ active
  <2>1. Abort(Tail(todo)) BY <1>4 DEF AbortTimedOut
  <2> QED BY <1>2, <1>3, <2>1, AbortLife
<1>5. CASE ~(xhr # None /\ active)
  <2>1. ~active BY <1>3, <1>5
  <2>2. todo' = Tail(todo) /\ UNCHANGED <<active, xhr, reported, log, requests>>
    BY <1>5 DEF AbortTimedOut, io, history
  <2> QED BY <1>2, <2>1, <2>2, PopLife
<1> QED BY <1>4, <1>5

LEMMA CallLife ==
    ASSUME Base(todo), LifeNow, Call, ~thrown', ~disposed' PROVE LifeNow'
<1>1. Doing("walk") /\ ~AtEnd(todo[1]) BY CalledListener
<1>2. todo # <<>> /\ todo[1].op = "walk" /\ todo[1].op \in Passives BY <1>1 DEF Doing, Passives
<1>3. PICK p : p = AfterCall(todo[1]) OBVIOUS
<1>4. /\ p \in Seq(Frame) /\ Len(p) \in {1, 2} /\ p[Len(p)].op = "walk"
      /\ Len(p) = 2 => p[1].op = "once"
  BY <1>1, <1>2, <1>3, AfterCallFrames
<1>5. All(p, Passives)
  <2>1. \A i \in 1..Len(p) : i = Len(p) \/ (i = 1 /\ Len(p) = 2) BY <1>4
  <2> QED BY <1>4, <2>1 DEF All, Passives
<1>6. Life(todo, active, xhr, log, requests) /\ (active => ~reported) BY DEF LifeNow
<1>7. todo \in Seq(Frame) BY DEF Base
<1> HIDE DEF Base, LifeNow
<1>8. PICK r : r = p \o Tail(todo) OBVIOUS
<1>9. Base(r) /\ Pushed(r, p, Tail(todo)) BY <1>1, <1>3, <1>8, ReturnBase
<1> HIDE DEF Frame
<1>10. Life(r, active, xhr, log, requests) /\ NoTop(r) /\ r \in Seq(Frame)
  BY <1>2, <1>4, <1>5, <1>6, <1>7, <1>9, PassiveStep
<1>11. Resumes(r)
  <2>1. \A k : ~ReadyFor(r, k) BY <1>10, NoTopNext
  <2> QED BY <1>6, <1>10, <2>1 DEF Resumes, Life, OthersOver
<1>12. active => log[xhr] = <<>> \/ log[xhr] = <<"timeout">> BY <1>10, Zenon DEF Life
<1>13. CASE /\ todo' = r
            /\ UNCHANGED <<events, io, native, disposed, monitor, fault, history>>
  <2>1. UNCHANGED <<active, xhr, reported, log, requests>> BY <1>13 DEF io, history
  <2> QED BY <1>6, <1>10, <1>13, <2>1, SameLife
<1>14. CASE Send(r) \/ Abort(r) \/ Dispose(r) \/ Throw(r)
  BY <1>9, <1>11, <1>12, <1>14, ApplicationLife
<1>15. ASSUME NEW t, NEW fn, Relisten(t, fn, r) PROVE LifeNow'
  <2>1. todo' = r /\ UNCHANGED <<active, xhr, reported, log, requests>>
    BY <1>15 DEF Relisten, io, history
  <2> QED BY <1>6, <1>10, <2>1, SameLife
<1> QED BY <1>3, <1>8, <1>13, <1>14, <1>15 DEF Call

LEMMA IdleSettled ==
    ASSUME LifeNow, Idle
    PROVE /\ Resumes(todo) /\ todo = <<>>
          /\ xhr # None => active
          /\ active => log[xhr] = <<>>
<1>1. todo = <<>> /\ Life(todo, active, xhr, log, requests) /\ (active => ~reported)
  BY DEF Idle, LifeNow
<1>2. /\ todo \in Seq(Frame) /\ EventsInPlace(todo) /\ NoTop(todo)
      /\ OthersOver(xhr, log, requests)
      /\ xhr # None => active
      /\ active => log[xhr] = <<>>
  BY <1>1, SettledIdle
<1> QED BY <1>1, <1>2 DEF Resumes

LEMMA OutsideLife ==
    ASSUME Base(todo), LifeNow, Free(todo), ~thrown', ~disposed',
           Application \/ NetworkChange \/ TimerFires \/ Recheck
    PROVE LifeNow'
<1>0. Idle BY DEF Application, NetworkChange, TimerFires, Recheck
<1>1. xhr \in Nat BY DEF Base, VarsOK, NumbersOK
<1>2. PICK e \in Frame : e = Op("change") /\ e.op = "change" BY Frames DEF Plain
<1>3. PICK y \in Seq(Frame) : y = <<e>> /\ \A ops : Has(y, ops) <=> e.op \in ops
  BY Stacks, Zenon
<1>4. ~Has(y, {"dispatch"}) BY <1>2, <1>3
<1> HIDE DEF Base, LifeNow, Free
<1>5. /\ Resumes(todo) /\ todo = <<>> /\ (xhr # None => active)
      /\ active => log[xhr] = <<>>
  BY <1>0, IdleSettled
<1>6. PICK q \in Seq(Frame) : q = todo /\ \A p \in Seq(Frame) : Pushed(p, p, q)
  <2>1. PICK q \in Seq(Frame) : q = <<>> BY Tuples
  <2> HIDE DEF Frame
  <2>2. ASSUME NEW p \in Seq(Frame) PROVE Pushed(p, p, q)
    <3>1. p \o <<>> = p BY ConcatEmptySeq
    <3> QED BY <2>1, <3>1, PushIsPushed
  <2> QED BY <1>5, <2>1, <2>2
<1>7. CASE NetworkChange \/ Recheck
  <2>1. todo' = y /\ UNCHANGED <<active, xhr, reported, log, requests>>
    BY <1>2, <1>3, <1>7 DEF NetworkChange, Recheck, io, history
  <2>2. EventsInPlace(y) /\ NoTop(y) BY <1>4, NoEvents
  <2> HIDE DEF Frame
  <2>3. Pushed(todo', y, q) BY <1>6, <2>1
  <2> QED BY <1>5, <1>6, <2>1, <2>2, <2>3, PushLife
<1>8. CASE TimerFires /\ xhr = None
  <2>1. todo' = <<>> /\ UNCHANGED <<active, xhr, reported, log, requests>>
    BY <1>8 DEF TimerFires, history
  <2> QED BY <1>5, <2>1, PopLife
<1>9. CASE TimerFires /\ xhr # None
  <2>1. /\ todo' = <<Dispatch("timeout"), Op("timedOut")>>
        /\ UNCHANGED <<active, xhr, reported, log, requests>>
    BY <1>9 DEF TimerFires, history
  <2>2. PICK u, v \in Frame : /\ u = Dispatch("timeout") /\ v = Op("timedOut")
                              /\ u.op = "dispatch" /\ u.type = "timeout" /\ u.req = xhr
                              /\ v.op = "timedOut"
    <3>1. Dispatch("timeout").type = "timeout" /\ Dispatch("timeout").req = xhr BY DEF Dispatch
    <3>2. /\ Dispatch("timeout") \in Frame /\ Op("timedOut") \in Frame
          /\ Dispatch("timeout").op = "dispatch" /\ Op("timedOut").op = "timedOut"
      BY <1>1, Frames DEF EventTypes, Plain
    <3> QED BY <3>1, <3>2, Zenon
  <2>3. PICK p \in Seq(Frame) : p = <<u, v>> /\ Len(p) = 2 /\ p[1] = u /\ p[2] = v
    <3>1. <<u, v>> \in Seq(Frame) BY Tuples
    <3>2. Len(<<u, v>>) = 2 /\ <<u, v>>[1] = u /\ <<u, v>>[2] = v OBVIOUS
    <3> QED BY <3>1, <3>2, Zenon
  <2>4. todo' = p BY <2>1, <2>2, <2>3
  <2>5. active /\ log[xhr] = <<>> /\ ~reported /\ OthersOver(xhr, log, requests)
    BY <1>5, <1>9 DEF Resumes
  <2>6. EventsInPlace(p)
    <3>1. \A i \in 1..2 : i = 1 \/ i = 2 OBVIOUS
    <3> QED BY <2>2, <2>3, <3>1 DEF EventsInPlace, Ends, Outcomes
  <2>7. First(p, active, xhr, log) BY <2>2, <2>3, <2>5 DEF First
  <2>8. Life(p, active, xhr, log, requests)
    BY <2>5, <2>6, <2>7, Zenon DEF Life, OthersOver
  <2> QED BY <2>1, <2>4, <2>5, <2>8, SameLife
<1>10. CASE Application
  <2>1. Send(todo) \/ Abort(todo) \/ Dispose(todo) BY <1>5, <1>10 DEF Application
  <2> QED BY <1>5, <2>1, ApplicationLife
<1> QED BY <1>7, <1>8, <1>9, <1>10

LEMMA DisposedStays == ASSUME [Next]_vars, disposed PROVE disposed'
<1>1. CASE Call BY <1>1 DEF Call, Send, Throw, Abort, Dispose, Relisten
<1>2. CASE Script /\ ~Call
  BY <1>2 DEF Script, EventStep, DispatchEvent, PopContext, StateChange, CheckComplete, Fail,
     SendOpened, SendThrows, SendsRequest, SendReturns, CleanUpXhr,
     CloseXhr, AbortTimedOut, Abort, Unwind
<1>3. CASE Application \/ NetworkChange \/ TimerFires \/ Recheck
  BY <1>3 DEF Application, NetworkChange, TimerFires, Recheck, Send, Throw, Abort, Dispose
<1>4. CASE UNCHANGED vars BY <1>4 DEF vars
<1> QED BY <1>1, <1>2, <1>3, <1>4 DEF Next

\* An object that is disposed of dispatches no events.
LEMMA LogStays == ASSUME [Next]_vars, disposed' PROVE log' = log
<1>1. CASE Call BY <1>1 DEF Call, Send, Throw, Abort, Dispose, Relisten, history
<1>2. CASE DispatchEvent BY <1>2 DEF DispatchEvent
<1>3. CASE Script /\ ~Call /\ ~DispatchEvent
  BY <1>3 DEF Script, EventStep, PopContext, StateChange, CheckComplete, Fail,
     SendOpened, SendThrows, SendsRequest, SendReturns, CleanUpXhr,
     CloseXhr, AbortTimedOut, Abort, Unwind, history
<1>4. CASE Application \/ NetworkChange \/ TimerFires \/ Recheck
  BY <1>4 DEF Application, NetworkChange, TimerFires, Recheck, Send, Throw, Abort, Dispose,
     history
<1>5. CASE UNCHANGED vars BY <1>5 DEF vars, history
<1> QED BY <1>1, <1>2, <1>3, <1>4, <1>5 DEF Next

LifeInv ==
    ~thrown => /\ \A k \in Requests : Begun(log[k])
               /\ ~disposed => LifeNow

LEMMA LifeInductive ==
    ASSUME Base(todo), ThrowsOK, FreeInv, LifeInv, [Next]_vars PROVE LifeInv'
<1> SUFFICES ASSUME ~thrown'
             PROVE (\A k \in Requests : Begun(log[k]))' /\ (~disposed' => LifeNow')
  BY DEF LifeInv
<1>1. ~thrown BY ThrownStays
<1>2. Free(todo) BY <1>1 DEF FreeInv
<1>4. Base(todo)' BY BaseInductive
<1>5. requests' \in Nat BY <1>4 DEF Base, VarsOK, NumbersOK
<1> HIDE DEF Base, Free, LifeNow
<1>6. CASE disposed'
  <2>1. log' = log BY <1>6, LogStays
  <2> QED BY <1>1, <1>6, <2>1 DEF LifeInv
<1>7. CASE ~disposed'
  <2>1. ~disposed BY <1>7, DisposedStays
  <2>2. LifeNow BY <1>1, <2>1 DEF LifeInv
  <2>3. LifeNow'
    <3>0. CASE Unwind BY <1>1, <2>2, <3>0, UnwindIsQuiet DEF io, history, LifeNow
    <3>1. CASE Script /\ ~Unwind
      BY <1>2, <1>7, <2>1, <2>2, <3>1, CallLife, EventStepLife, DispatchEventLife,
         PopContextLife, StateChangeLife, CheckCompleteLife, FailLife, SendsRequestLife,
         ReturnsLife, CleanUpXhrLife, AbortTimedOutLife DEF Script, SendOpened
    <3>2. CASE Application \/ NetworkChange \/ TimerFires \/ Recheck
      BY <1>2, <1>7, <2>2, <3>2, OutsideLife
    <3>3. CASE UNCHANGED vars BY <2>2, <3>3 DEF vars, io, history, LifeNow
    <3> QED BY <3>0, <3>1, <3>2, <3>3 DEF Next, Script
  <2>4. PICK s, a, x, l, n : /\ s = todo' /\ a = active' /\ x = xhr' /\ l = log'
                             /\ n = requests'
    OBVIOUS
  <2>5. Life(s, a, x, l, n) BY <2>3, <2>4 DEF LifeNow
  <2>6. \A k \in Requests : Begun(l[k]) BY <1>5, <2>4, <2>5, LifeBegun
  <2> QED BY <2>3, <2>4, <2>6
<1> QED BY <1>6, <1>7

LEMMA InitLife == Init => LifeInv
<1> SUFFICES ASSUME Init PROVE (\A k \in Requests : Begun(log[k])) /\ LifeNow
  BY DEF LifeInv
<1>1. /\ todo = <<>> /\ active = FALSE /\ xhr = None /\ requests = 0
      /\ \A k \in Requests : log[k] = <<>>
  BY DEF Init
<1>2. \A k \in Requests : Begun(log[k]) BY <1>1 DEF Begun
<1>3. Len(todo) = 0 BY <1>1, Tuples
<1>4. EventsInPlace(todo) BY <1>3 DEF EventsInPlace
<1>5. First(todo, active, xhr, log) BY <1>1 DEF First
<1>6. \A k \in Requests : ~(k <= 0) BY DEF Requests
<1>7. Life(todo, active, xhr, log, requests) BY <1>1, <1>4, <1>5, <1>6, Zenon DEF Life
<1> QED BY <1>1, <1>2, <1>7 DEF LifeNow

\* The events of every request come in the order of a life cycle, whatever
\* listeners call from within them, and a request that is over has had them all,
\* as long as no exception cuts a script short and the object is not disposed of.
THEOREM LifecycleOrderHolds == Spec => []LifecycleOrder
<1>1. Init => LifeInv BY InitLife
<1>2. Base(todo) /\ ThrowsOK /\ FreeInv /\ LifeInv /\ [Next]_vars => LifeInv' BY LifeInductive
<1>3. LifeInv => LifecycleOrder
  <2> SUFFICES ASSUME LifeInv, ~thrown, NEW r \in Requests
               PROVE /\ \E l \in Lifecycles : IsPrefix(log[r], l)
                     /\ (Idle /\ r <= requests /\ r # xhr /\ ~disposed)
                            => log[r] \in Lifecycles
    BY DEF LifecycleOrder
  <2>1. Begun(log[r]) BY DEF LifeInv
  <2>2. PICK e : e = log[r] OBVIOUS
  <2>3. \E l \in Lifecycles : IsPrefix(e, l) BY <2>1, <2>2, BegunIsPrefix
  <2>4. ASSUME Idle, r <= requests, r # xhr, ~disposed PROVE log[r] \in Lifecycles
    <3>1. LifeNow BY <2>4 DEF LifeInv
    <3>2. Resumes(todo) BY <2>4, <3>1, IdleSettled
    <3> QED BY <2>4, <3>2 DEF Resumes, OthersOver
  <2> QED BY <2>2, <2>3, <2>4
<1> QED BY <1>1, <1>2, <1>3, FreeHolds, ThrowsHolds, PTL DEF Spec
=============================================================================
