--------------------------- MODULE SdkListenerProofs ---------------------------
(***************************************************************************)
(* Theorems about SdkListener, for any batches of any length and any       *)
(* number of losses.                                                       *)
(*                                                                         *)
(* What was published to a queue is what its consumer is done with, what   *)
(* it has in hand and what waits, in this order (Queues); as no batch is   *)
(* published twice, the batch in hand has not been settled.  So a batch    *)
(* that is neither settled nor in hand has been given back after each of   *)
(* its deliveries, and what it can have run and been answered is bounded   *)
(* by its losses (Runs, Replied); a consumer's results say what its        *)
(* handlers did (Steps).                                                   *)
(***************************************************************************)
EXTENDS SdkListener, TLAPS, SequenceTheorems, FiniteSetTheorems

Distinct(s) == \A i, j \in DOMAIN s : s[i] = s[j] => i = j

Mine(q)    == {m \in Message : QueueOf(m) = q}
Settled(m) == m \in Elements(settled[QueueOf(m)])
InWork(m)  == current[QueueOf(m)] # Null /\ current[QueueOf(m)].msg = m

\* No action i of m has run since the last time m was given back.
Untried(m, i) ==
    \/ ~InWork(m) /\ ~Settled(m)
    \/ /\ InWork(m)
       /\ \/ current[QueueOf(m)].step = "validate"
          \/ current[QueueOf(m)].step = "handle" /\ i >= NextAction(QueueOf(m))

Queues ==
    \A q \in Queue :
        /\ sent[q] \in Seq(Mine(q)) /\ settled[q] \in Seq(Mine(q))
        /\ queue[q] \in Seq(Mine(q))
        /\ current[q] # Null => current[q].msg \in Mine(q)
        /\ Distinct(sent[q])
        /\ sent[q] = settled[q] \o InHand(q) \o queue[q]

StepIsSound(q) ==
    /\ current[q].step = "validate" => current[q].results = <<>>
    /\ current[q].step = "handle" =>
          /\ current[q].results \in Seq(Result)
          /\ Len(current[q].results) <= ActionCount[current[q].msg]
          /\ \A i \in DOMAIN current[q].results :
                current[q].results[i] = "ok" => handled[current[q].msg][i] > 0
    /\ current[q].step = "answer" => current[q].results = FailedReply

Steps == \A q \in Queue : current[q] # Null => StepIsSound(q)

\* A delivery ends with "blocked" or runs actions.
RunsOf(m) ==
    \A i \in Actions(m) :
        handled[m][i] + TimesBlocked(m)
            <= IF Untried(m, i) THEN losses[m] ELSE Deliveries(m)

Runs == \A m \in Message : RunsOf(m)

RepliedTo(m) ==
    /\ \A k \in DOMAIN replies[m] : TrueAnswer(m, replies[m][k])
    /\ ~Settled(m) => Len(replies[m]) <= losses[m]
    /\ Settled(m) /\ m \in SyncMessage =>
          /\ Len(replies[m]) <= Deliveries(m)
          /\ m \notin dropped => replies[m] # <<>>

Replied == \A m \in Message : RepliedTo(m)

IInv == TypeOK /\ Queues /\ Steps /\ Runs /\ Replied

-----------------------------------------------------------------------------
(* Sequences *)

LEMMA ElementsOfAppend ==
    ASSUME NEW S, NEW s \in Seq(S), NEW x \in S
    PROVE  Elements(Append(s, x)) = Elements(s) \cup {x}
<1>1. /\ Append(s, x) \in Seq(S) /\ Len(s) \in Nat /\ DOMAIN s = 1..Len(s)
      /\ DOMAIN Append(s, x) = 1..(Len(s) + 1)
      /\ \A i \in 1..Len(s) : Append(s, x)[i] = s[i]
      /\ Append(s, x)[Len(s) + 1] = x
  BY AppendProperties, LenProperties
<1>2. 1..(Len(s) + 1) = (1..Len(s)) \cup {Len(s) + 1}
  BY <1>1
<1> QED BY <1>1, <1>2 DEF Elements

LEMMA AppendKeepsDistinct ==
    ASSUME NEW S, NEW s \in Seq(S), NEW x \in S, Distinct(s), x \notin Elements(s)
    PROVE  Distinct(Append(s, x))
<1>1. /\ Append(s, x) \in Seq(S) /\ Len(s) \in Nat /\ DOMAIN s = 1..Len(s)
      /\ DOMAIN Append(s, x) = 1..(Len(s) + 1)
      /\ \A i \in 1..Len(s) : Append(s, x)[i] = s[i]
      /\ Append(s, x)[Len(s) + 1] = x
  BY AppendProperties, LenProperties
<1>2. 1..(Len(s) + 1) = (1..Len(s)) \cup {Len(s) + 1} /\ Len(s) + 1 \notin 1..Len(s)
  BY <1>1
<1> QED BY <1>1, <1>2 DEF Elements, Distinct

\* One element as a sequence.
LEMMA OneInHand ==
    ASSUME NEW S, NEW x \in S
    PROVE  <<x>> \in Seq(S) /\ Len(<<x>>) = 1 /\ <<x>>[1] = x
  OBVIOUS

\* The first of what waits comes after what is settled and before the rest.
LEMMA HeadThenTail ==
    ASSUME NEW S, NEW w \in Seq(S), w # <<>>
    PROVE  /\ Head(w) \in S /\ Tail(w) \in Seq(S)
           /\ w = <<Head(w)>> \o Tail(w)
<1>1. /\ Head(w) \in S /\ Tail(w) \in Seq(S) /\ Len(Tail(w)) = Len(w) - 1
      /\ \A i \in 1..Len(Tail(w)) : Tail(w)[i] = w[i + 1]
      /\ Len(w) \in Nat \ {0} /\ Head(w) = w[1]
  BY HeadTailProperties, EmptySeq
<1> DEFINE v == <<Head(w)>> \o Tail(w)
<1>2. /\ v \in Seq(S) /\ Len(v) = Len(w)
      /\ \A i \in 1..Len(w) : v[i] = IF i <= 1 THEN <<Head(w)>>[i] ELSE Tail(w)[i - 1]
  BY <1>1, OneInHand, ConcatProperties
<1> HIDE DEF v
<1>3. ASSUME NEW i \in 1..Len(w) PROVE v[i] = w[i]
  <2>1. CASE i = 1
    BY <1>1, <1>2, <2>1
  <2>2. CASE i # 1
    <3>1. i - 1 \in 1..Len(Tail(w)) /\ ~(i <= 1) /\ (i - 1) + 1 = i
      BY <1>1, <2>2
    <3> QED BY <1>1, <1>2, <3>1
  <2> QED BY <2>1, <2>2
<1>4. v = w
  BY <1>2, <1>3, SeqEqual
<1> QED BY <1>1, <1>4 DEF v

\* Publishing, delivering, settling and giving back keep the order.
LEMMA Publishing ==
    ASSUME NEW S, NEW s \in Seq(S), NEW h \in Seq(S), NEW w \in Seq(S), NEW x \in S
    PROVE  Append(s \o h \o w, x) = s \o h \o Append(w, x)
<1>1. s \o h \in Seq(S) /\ s \o h \o w \in Seq(S) /\ <<x>> \in Seq(S)
  BY ConcatProperties, OneInHand
<1>2. Append(s \o h \o w, x) = (s \o h \o w) \o <<x>>
  BY <1>1, AppendIsConcat
<1>3. (s \o h \o w) \o <<x>> = (s \o h) \o (w \o <<x>>)
  BY <1>1, ConcatAssociative
<1>4. Append(w, x) = w \o <<x>>
  BY AppendIsConcat
<1> QED BY <1>2, <1>3, <1>4

LEMMA Delivering ==
    ASSUME NEW S, NEW s \in Seq(S), NEW w \in Seq(S), w # <<>>
    PROVE  s \o <<>> \o w = s \o <<Head(w)>> \o Tail(w)
<1>1. Head(w) \in S /\ Tail(w) \in Seq(S) /\ w = <<Head(w)>> \o Tail(w)
  BY HeadThenTail
<1>2. <<Head(w)>> \in Seq(S)
  BY <1>1
<1>3. s \o (<<Head(w)>> \o Tail(w)) = s \o <<Head(w)>> \o Tail(w)
  BY <1>1, <1>2, ConcatAssociative
<1>4. s \o <<>> = s
  BY ConcatEmptySeq
<1> QED BY <1>1, <1>3, <1>4

LEMMA Settling ==
    ASSUME NEW S, NEW s \in Seq(S), NEW w \in Seq(S), NEW x \in S
    PROVE  s \o <<x>> \o w = Append(s, x) \o <<>> \o w
<1>1. Append(s, x) = s \o <<x>> /\ Append(s, x) \in Seq(S)
  BY AppendIsConcat, AppendProperties
<1>2. Append(s, x) \o <<>> = Append(s, x)
  BY <1>1, ConcatEmptySeq
<1> QED BY <1>1, <1>2

LEMMA GivingBack ==
    ASSUME NEW S, NEW s \in Seq(S), NEW h \in Seq(S), NEW w \in Seq(S)
    PROVE  s \o h \o w = s \o <<>> \o (h \o w)
<1>1. s \o <<>> = s
  BY ConcatEmptySeq
<1> QED BY <1>1, ConcatAssociative

\* In a sequence without repetition, what follows s is not in s.
LEMMA NextIsNew ==
    ASSUME NEW S, NEW s \in Seq(S), NEW w \in Seq(S), NEW x \in S,
           Distinct(s \o <<x>> \o w)
    PROVE  x \notin Elements(s)
<1> DEFINE t == s \o <<x>>
           u == t \o w
<1>1. /\ Len(s) \in Nat /\ DOMAIN s = 1..Len(s) /\ Len(w) \in Nat
      /\ t \in Seq(S) /\ Len(t) = Len(s) + 1
      /\ \A i \in 1..(Len(s) + 1) : t[i] = IF i <= Len(s) THEN s[i] ELSE <<x>>[i - Len(s)]
  BY LenProperties, OneInHand, ConcatProperties
<1> HIDE DEF t
<1>2. /\ u \in Seq(S) /\ Len(u) = Len(t) + Len(w)
      /\ \A i \in 1..(Len(t) + Len(w)) : u[i] = IF i <= Len(t) THEN t[i] ELSE w[i - Len(t)]
  <2>1. t \in Seq(S) /\ w \in Seq(S)
    BY <1>1
  <2> QED BY ONLY <2>1, ConcatProperties, Zenon
<1>3. DOMAIN u = 1..Len(u) /\ Distinct(u)
  BY <1>2, LenProperties DEF t
<1> HIDE DEF u
<1>4. u[Len(s) + 1] = x /\ Len(s) + 1 \in DOMAIN u
  <2>1. t[Len(s) + 1] = x
    BY <1>1
  <2> QED BY <2>1, <1>1, <1>2, <1>3
<1>5. ASSUME NEW i \in 1..Len(s) PROVE u[i] = s[i] /\ i \in DOMAIN u /\ i # Len(s) + 1
  BY <1>1, <1>2, <1>3
<1>6. \A i \in 1..Len(s) : s[i] # x
  BY <1>3, <1>4, <1>5 DEF Distinct
<1> QED BY <1>1, <1>6 DEF Elements

-----------------------------------------------------------------------------
(* The invariant implies the properties *)

Replies == Seq(Result \cup {"failed", "blocked"})

LEMMA BlockedIsCounted ==
    ASSUME IInv, NEW m \in Message
    PROVE  /\ IsFiniteSet({k \in DOMAIN replies[m] : replies[m][k] = BlockedReply})
           /\ TimesBlocked(m) \in Nat
<1>1. DOMAIN replies[m] = 1..Len(replies[m]) /\ Len(replies[m]) \in Nat
  <2>1. replies[m] \in Seq(Replies)
    BY DEF IInv, TypeOK, Replies
  <2> QED BY <2>1, LenProperties
<1>2. IsFiniteSet(1..Len(replies[m]))
  BY <1>1, FS_Interval
<1>3. IsFiniteSet({k \in DOMAIN replies[m] : replies[m][k] = BlockedReply})
  BY <1>1, <1>2, FS_Subset
<1> QED BY <1>3, FS_CardinalityType DEF TimesBlocked

LEMMA InvariantSuffices ==
    IInv => Conserved /\ HandledPerDelivery /\ AnswersAreTrue /\ Answered
<1> SUFFICES ASSUME IInv
             PROVE  Conserved /\ HandledPerDelivery /\ AnswersAreTrue /\ Answered
  OBVIOUS
<1>1. Conserved
  BY DEF IInv, Queues, Conserved
<1>2. \A m \in Message : losses[m] \in Nat /\ \A i \in Actions(m) : handled[m][i] \in Nat
  BY DEF IInv, TypeOK
<1>3. HandledPerDelivery
  <2> SUFFICES ASSUME NEW m \in Message, NEW i \in Actions(m)
               PROVE  handled[m][i] <= IF Pending(m, i) THEN losses[m] ELSE Deliveries(m)
    BY DEF HandledPerDelivery
  <2>1. Pending(m, i) => Untried(m, i)
    BY DEF Pending, Untried, InWork, Settled
  <2>2. handled[m][i] + TimesBlocked(m) <= IF Untried(m, i) THEN losses[m] ELSE Deliveries(m)
    BY DEF IInv, Runs, RunsOf
  <2>3. TimesBlocked(m) \in Nat
    BY BlockedIsCounted
  <2> QED BY <1>2, <2>1, <2>2, <2>3 DEF Deliveries
<1>4. ASSUME NEW m \in Message
      PROVE  Len(replies[m]) \in Nat /\ DOMAIN replies[m] = 1..Len(replies[m])
             /\ (replies[m] # <<>> => Len(replies[m]) \in DOMAIN replies[m])
  <2>1. replies[m] \in Seq(Seq(Result \cup {"failed", "blocked"}))
    BY DEF IInv, TypeOK
  <2> QED BY <2>1, LenProperties, EmptySeq
<1>5. AnswersAreTrue
  <2> SUFFICES ASSUME NEW m \in Message
               PROVE  /\ \A k \in DOMAIN replies[m] : TrueAnswer(m, replies[m][k])
                      /\ \A i \in Actions(m) : handled[m][i] + TimesBlocked(m) <= Deliveries(m)
    BY DEF AnswersAreTrue
  <2>1. RepliedTo(m) /\ RunsOf(m)
    BY DEF IInv, Replied, Runs
  <2>2. TimesBlocked(m) \in Nat
    BY BlockedIsCounted
  <2> QED BY <1>2, <2>1, <2>2 DEF RepliedTo, RunsOf, Deliveries
<1>6. Answered
  <2> SUFFICES ASSUME NEW m \in SyncMessage
               PROVE  /\ m \in Elements(settled["sync"]) \ dropped => replies[m] # <<>>
                      /\ Len(replies[m]) <= Deliveries(m)
    BY DEF Answered
  <2>1. m \in Message /\ RepliedTo(m) /\ (Settled(m) <=> m \in Elements(settled["sync"]))
    BY DEF IInv, Replied, Message, Settled, QueueOf
  <2> QED BY <1>2, <1>4, <2>1 DEF RepliedTo, Deliveries
<1> QED BY <1>1, <1>3, <1>5, <1>6

LEMMA Initially == Init => IInv
<1> SUFFICES ASSUME Init PROVE IInv OBVIOUS
<1> USE DEF Init
<1>1. TypeOK
  BY BoundsAreNaturals DEF TypeOK
<1>2. \A q \in Queue : /\ current[q] = Null /\ sent[q] = <<>>
                       /\ settled[q] = <<>> /\ queue[q] = <<>> /\ InHand(q) = <<>>
  BY DEF InHand
<1>3. Queues
  <2> SUFFICES ASSUME NEW q \in Queue
               PROVE  /\ <<>> \in Seq(Mine(q)) /\ Distinct(<<>>)
                      /\ <<>> = <<>> \o <<>> \o <<>>
    BY <1>2 DEF Queues
  <2>1. <<>> \in Seq(Mine(q)) /\ <<>> \o <<>> = <<>>
    BY EmptySeq, ConcatEmptySeq
  <2> QED BY <2>1 DEF Distinct
<1>4. Steps
  BY <1>2 DEF Steps
<1>5. Runs
  <2>1. ASSUME NEW m \in Message PROVE TimesBlocked(m) = 0
    <3>1. {k \in DOMAIN replies[m] : replies[m][k] = BlockedReply} = {}
      OBVIOUS
    <3> QED BY <3>1, FS_EmptySet DEF TimesBlocked
  <2> QED BY <2>1 DEF Runs, RunsOf, Deliveries
<1>6. ASSUME NEW m \in Message PROVE RepliedTo(m)
  <2>1. replies[m] = <<>> /\ losses[m] = 0 /\ QueueOf(m) \in Queue
    BY DEF QueueOf, Queue
  <2>2. ~Settled(m)
    BY <1>2, <2>1 DEF Settled, Elements
  <2> QED BY <2>1, <2>2 DEF RepliedTo
<1> QED BY <1>1, <1>3, <1>4, <1>5, <1>6 DEF IInv, Replied

-----------------------------------------------------------------------------
(* The batch in hand, and the one that is next *)

LEMMA MineIsMessage ==
    /\ \A q \in Queue : \A m \in Mine(q) : m \in Message /\ QueueOf(m) = q
    /\ \A m \in Message : QueueOf(m) \in Queue /\ m \in Mine(QueueOf(m))
    /\ \A m \in Message : /\ m \in SyncMessage <=> QueueOf(m) = "sync"
                          /\ m \in AsyncMessage <=> QueueOf(m) = "async"
BY QueuesAreSeparate DEF Mine, QueueOf, Queue, Message

LEMMA InHandIsNew ==
    ASSUME IInv, NEW q \in Queue, current[q] # Null
    PROVE  /\ current[q] \in Working /\ StepIsSound(q)
           /\ current[q].msg \in Mine(q) /\ InHand(q) = <<current[q].msg>>
           /\ InWork(current[q].msg) /\ ~Settled(current[q].msg)
<1> DEFINE m == current[q].msg
<1>1. current[q] \in Working /\ StepIsSound(q) /\ InHand(q) = <<m>>
  BY DEF IInv, TypeOK, Steps, InHand
<1>2. /\ sent[q] = settled[q] \o <<m>> \o queue[q] /\ Distinct(sent[q])
      /\ settled[q] \in Seq(Mine(q)) /\ queue[q] \in Seq(Mine(q)) /\ m \in Mine(q)
  BY <1>1 DEF IInv, Queues
<1>3. m \notin Elements(settled[q])
  BY <1>2, NextIsNew
<1>4. QueueOf(m) = q
  BY <1>2, MineIsMessage
<1> QED BY <1>1, <1>2, <1>3, <1>4 DEF Settled, InWork

LEMMA HeadIsNew ==
    ASSUME IInv, NEW q \in Queue, current[q] = Null, queue[q] # <<>>
    PROVE  /\ Head(queue[q]) \in Mine(q) /\ Tail(queue[q]) \in Seq(Mine(q))
           /\ sent[q] = settled[q] \o <<Head(queue[q])>> \o Tail(queue[q])
           /\ ~Settled(Head(queue[q]))
<1> DEFINE m == Head(queue[q])
           w == Tail(queue[q])
<1>1. /\ sent[q] = settled[q] \o <<>> \o queue[q] /\ Distinct(sent[q])
      /\ settled[q] \in Seq(Mine(q)) /\ queue[q] \in Seq(Mine(q))
  BY DEF IInv, Queues, InHand
<1>2. m \in Mine(q) /\ w \in Seq(Mine(q))
  BY <1>1, HeadThenTail
<1>3. sent[q] = settled[q] \o <<m>> \o w
  BY <1>1, Delivering
<1> HIDE DEF m, w
<1>4. m \notin Elements(settled[q])
  BY <1>1, <1>2, <1>3, NextIsNew
<1>5. ~Settled(m)
  BY <1>2, <1>4, MineIsMessage DEF Settled
<1> QED BY <1>2, <1>3, <1>5 DEF m, w

\* What a step does not touch stays sound.
LEMMA RunsUnaffected ==
    ASSUME IInv, NEW m \in Message,
           \A i \in Actions(m) : Untried(m, i)' => Untried(m, i),
           handled'[m] = handled[m], losses'[m] = losses[m],
           TimesBlocked(m)' = TimesBlocked(m)
    PROVE  RunsOf(m)'
<1>1. /\ losses[m] \in Nat /\ TimesBlocked(m) \in Nat
      /\ \A i \in Actions(m) : handled[m][i] \in Nat
  BY BlockedIsCounted DEF IInv, TypeOK
<1>2. RunsOf(m)
  BY DEF IInv, Runs
<1> QED BY <1>1, <1>2 DEF RunsOf, Deliveries

LEMMA SameAnswers ==
    ASSUME NEW m, replies'[m] = replies[m]
    PROVE  TimesBlocked(m)' = TimesBlocked(m)
  BY DEF TimesBlocked

LEMMA RepliesUnaffected ==
    ASSUME IInv, NEW m \in Message, Settled(m)' <=> Settled(m),
           handled'[m] = handled[m], losses'[m] = losses[m],
           replies'[m] = replies[m], m \in dropped' <=> m \in dropped
    PROVE  RepliedTo(m)'
<1>1. RepliedTo(m)
  BY DEF IInv, Replied
<1> QED BY <1>1 DEF RepliedTo, TrueAnswer, Deliveries

-----------------------------------------------------------------------------
(* Publishing and delivering *)

LEMMA PublishPreserves ==
    ASSUME IInv, NEW m \in Message, Publish(m)
    PROVE  IInv'
<1> DEFINE q == QueueOf(m)
<1>1. q \in Queue /\ m \in Mine(q)
  BY MineIsMessage
<1>2. /\ sent' = [sent EXCEPT ![q] = Append(sent[q], m)]
      /\ queue' = [queue EXCEPT ![q] = Append(queue[q], m)]
      /\ m \notin Elements(sent[q])
      /\ UNCHANGED <<current, settled, handled, dropped, replies, losses>>
  BY DEF Publish
<1> HIDE DEF q
<1>3. TypeOK'
  <2>1. Append(sent[q], m) \in Seq(Message) /\ Append(queue[q], m) \in Seq(Message)
    BY <1>1, AppendProperties DEF IInv, TypeOK
  <2> QED BY <1>1, <1>2, <2>1 DEF IInv, TypeOK
<1>4. Queues'
  <2> SUFFICES ASSUME NEW p \in Queue
               PROVE  /\ sent'[p] \in Seq(Mine(p)) /\ settled'[p] \in Seq(Mine(p))
                      /\ queue'[p] \in Seq(Mine(p))
                      /\ current'[p] # Null => current'[p].msg \in Mine(p)
                      /\ Distinct(sent'[p])
                      /\ sent'[p] = settled'[p] \o InHand(p)' \o queue'[p]
    BY DEF Queues
  <2>1. /\ sent[p] \in Seq(Mine(p)) /\ settled[p] \in Seq(Mine(p))
        /\ queue[p] \in Seq(Mine(p)) /\ Distinct(sent[p])
        /\ current[p] # Null => current[p].msg \in Mine(p)
        /\ sent[p] = settled[p] \o InHand(p) \o queue[p]
    BY DEF IInv, Queues
  <2>2. InHand(p)' = InHand(p) /\ settled'[p] = settled[p] /\ current'[p] = current[p]
    BY <1>2 DEF InHand
  <2>3. InHand(p) \in Seq(Mine(p))
    BY <2>1 DEF InHand
  <2>4. CASE p # q
    <3>1. sent'[p] = sent[p] /\ queue'[p] = queue[p]
      BY <1>2, <2>4 DEF IInv, TypeOK
    <3> QED BY <2>1, <2>2, <3>1
  <2>5. CASE p = q
    <3>1. sent'[p] = Append(sent[p], m) /\ queue'[p] = Append(queue[p], m)
      BY <1>1, <1>2, <2>5 DEF IInv, TypeOK
    <3>2. m \in Mine(p) /\ m \notin Elements(sent[p])
      BY <1>1, <1>2, <2>5
    <3>3. /\ Append(sent[p], m) \in Seq(Mine(p)) /\ Append(queue[p], m) \in Seq(Mine(p))
          /\ Distinct(Append(sent[p], m))
      BY <2>1, <3>2, AppendKeepsDistinct, AppendProperties
    <3>4. Append(sent[p], m) = settled[p] \o InHand(p) \o Append(queue[p], m)
      <4>1. /\ settled[p] \in Seq(Mine(p)) /\ queue[p] \in Seq(Mine(p))
            /\ InHand(p) \in Seq(Mine(p)) /\ m \in Mine(p)
        BY <2>1, <2>3, <3>2
      <4>2. Append(settled[p] \o InHand(p) \o queue[p], m)
              = settled[p] \o InHand(p) \o Append(queue[p], m)
        <5> DEFINE S == Mine(p)
                   b == settled[p]
                   h == InHand(p)
                   r == queue[p]
        <5>1. b \in Seq(S) /\ h \in Seq(S) /\ r \in Seq(S) /\ m \in S
          BY <4>1
        <5> HIDE DEF S, b, h, r
        <5>2. Append(b \o h \o r, m) = b \o h \o Append(r, m)
          BY <5>1, Publishing
        <5> QED BY <5>2 DEF b, h, r
      <4> QED BY <2>1, <4>2
    <3> QED BY <2>1, <2>2, <3>1, <3>3, <3>4
  <2> QED BY <2>4, <2>5
<1>5. Steps'
  BY <1>2 DEF IInv, Steps, StepIsSound
<1>6. ASSUME NEW n \in Message PROVE RunsOf(n)' /\ RepliedTo(n)'
  <2>1. /\ Settled(n)' <=> Settled(n)
        /\ \A i \in Actions(n) : Untried(n, i)' <=> Untried(n, i)
    BY <1>2 DEF Settled, Untried, InWork, NextAction
  <2> QED BY <1>2, <2>1, RunsUnaffected, RepliesUnaffected, SameAnswers
<1> QED BY <1>3, <1>4, <1>5, <1>6 DEF IInv, Runs, Replied

LEMMA DeliverPreserves ==
    ASSUME IInv, NEW q \in Queue, Deliver(q)
    PROVE  IInv'
<1> DEFINE m == Head(queue[q])
           w == Work(m, "validate", <<>>)
<1>1. /\ current[q] = Null /\ queue[q] # <<>>
      /\ current' = [current EXCEPT ![q] = w]
      /\ queue' = [queue EXCEPT ![q] = Tail(queue[q])]
      /\ UNCHANGED <<sent, settled, handled, dropped, replies, losses>>
  BY DEF Deliver
<1>2. /\ m \in Mine(q) /\ Tail(queue[q]) \in Seq(Mine(q))
      /\ sent[q] = settled[q] \o <<m>> \o Tail(queue[q])
      /\ ~Settled(m)
  BY <1>1, HeadIsNew
<1>3. m \in Message /\ QueueOf(m) = q
  BY <1>2, MineIsMessage
<1> HIDE DEF m
<1>4. /\ w \in Working /\ w # Null
      /\ w.msg = m /\ w.step = "validate" /\ w.results = <<>>
  <2>1. <<>> \in Seq(Result \cup {"failed"})
    BY EmptySeq
  <2>2. w = [msg |-> m, step |-> "validate", results |-> <<>>]
    BY DEF Work
  <2> HIDE DEF w
  <2>3. w \in Working
    BY <1>3, <2>1, <2>2 DEF Working
  <2> QED BY <2>2, <2>3, NullIsNoWork
<1> HIDE DEF w
<1>5. /\ current'[q] = w /\ queue'[q] = Tail(queue[q])
      /\ \A p \in Queue \ {q} : current'[p] = current[p] /\ queue'[p] = queue[p]
  BY <1>1 DEF IInv, TypeOK
<1>6. TypeOK'
  <2>1. Tail(queue[q]) \in Seq(Message)
    BY <1>1, HeadTailProperties DEF IInv, TypeOK
  <2> QED BY <1>1, <1>4, <2>1 DEF IInv, TypeOK
<1>7. Queues'
  <2> SUFFICES ASSUME NEW p \in Queue
               PROVE  /\ queue'[p] \in Seq(Mine(p))
                      /\ current'[p] # Null => current'[p].msg \in Mine(p)
                      /\ sent[p] = settled[p] \o InHand(p)' \o queue'[p]
    BY <1>1 DEF Queues, IInv
  <2>1. CASE p = q
    <3>1. InHand(p)' = <<m>>
      BY <1>4, <1>5, <2>1 DEF InHand
    <3> QED BY <1>2, <1>4, <1>5, <2>1, <3>1
  <2>2. CASE p # q
    <3>1. InHand(p)' = InHand(p)
      BY <1>5, <2>2 DEF InHand
    <3> QED BY <1>5, <2>2, <3>1 DEF IInv, Queues
  <2> QED BY <2>1, <2>2
<1>8. Steps'
  <2> SUFFICES ASSUME NEW p \in Queue, current'[p] # Null PROVE StepIsSound(p)'
    BY DEF Steps
  <2>1. CASE p = q
    BY <1>4, <1>5, <2>1 DEF StepIsSound
  <2>2. CASE p # q
    BY <1>1, <1>5, <2>2 DEF IInv, Steps, StepIsSound
  <2> QED BY <2>1, <2>2
<1>9. ASSUME NEW n \in Message PROVE RunsOf(n)' /\ RepliedTo(n)'
  <2>1. Settled(n)' <=> Settled(n)
    BY <1>1 DEF Settled
  <2>2. \A i \in Actions(n) : Untried(n, i)' => Untried(n, i)
    <3>1. CASE n = m
      BY <1>1, <1>2, <1>3, <3>1 DEF Untried, InWork
    <3>2. CASE n # m /\ QueueOf(n) = q
      <4>1. ~InWork(n) /\ ~InWork(n)'
        BY <1>1, <1>4, <1>5, <3>2 DEF InWork
      <4> QED BY <2>1, <4>1 DEF Untried
    <3>3. CASE QueueOf(n) # q
      <4>1. current'[QueueOf(n)] = current[QueueOf(n)]
        BY <1>5, <3>3, MineIsMessage
      <4> QED BY <2>1, <4>1 DEF Untried, InWork, NextAction
    <3> QED BY <3>1, <3>2, <3>3
  <2> QED BY <1>1, <2>1, <2>2, RunsUnaffected, RepliesUnaffected, SameAnswers
<1> QED BY <1>6, <1>7, <1>8, <1>9 DEF IInv, Runs, Replied

-----------------------------------------------------------------------------
(* Steps of a consumer that leave its batch in hand *)

\* Whatever happens to its step and results, the batch stays the same.
LEMMA WorkKeepsQueues ==
    ASSUME IInv, NEW q \in Queue, current[q] # Null,
           NEW w \in Working, w.msg = current[q].msg,
           current' = [current EXCEPT ![q] = w],
           UNCHANGED <<sent, queue, settled>>
    PROVE  /\ current' \in [Queue -> Working \cup {Null}]
           /\ current'[q] = w
           /\ \A p \in Queue \ {q} : current'[p] = current[p]
           /\ Queues'
           /\ \A m \in Message : /\ Settled(m)' <=> Settled(m)
                                 /\ InWork(m)' <=> InWork(m)
<1>1. /\ current' \in [Queue -> Working \cup {Null}] /\ current'[q] = w
      /\ \A p \in Queue \ {q} : current'[p] = current[p]
  BY DEF IInv, TypeOK
<1>2. w # Null
  BY NullIsNoWork
<1>3. ASSUME NEW p \in Queue
      PROVE  /\ InHand(p)' = InHand(p)
             /\ current'[p] # Null <=> current[p] # Null
             /\ current[p] # Null => current'[p].msg = current[p].msg
  BY <1>1, <1>2 DEF InHand
<1>4. Queues'
  BY <1>3 DEF IInv, Queues
<1>5. ASSUME NEW m \in Message
      PROVE  (Settled(m)' <=> Settled(m)) /\ (InWork(m)' <=> InWork(m))
  BY <1>3, MineIsMessage DEF Settled, InWork
<1> QED BY <1>1, <1>4, <1>5

\* Only the step and the results change, and nothing becomes untried.
LEMMA OnlyWorkChanges ==
    ASSUME IInv, NEW q \in Queue, current[q] # Null,
           NEW w \in Working, w.msg = current[q].msg,
           current' = [current EXCEPT ![q] = w],
           UNCHANGED <<sent, queue, settled, handled, dropped, replies, losses>>,
           StepIsSound(q)',
           \A i \in Actions(current[q].msg) :
                Untried(current[q].msg, i)' => Untried(current[q].msg, i)
    PROVE  IInv'
<1>1. /\ current' \in [Queue -> Working \cup {Null}]
      /\ \A p \in Queue \ {q} : current'[p] = current[p]
      /\ Queues'
      /\ \A m \in Message : /\ Settled(m)' <=> Settled(m)
                            /\ InWork(m)' <=> InWork(m)
  BY WorkKeepsQueues
<1>2. TypeOK'
  BY <1>1 DEF IInv, TypeOK
<1>3. Steps'
  BY <1>1 DEF IInv, Steps, StepIsSound
<1>4. ASSUME NEW m \in Message PROVE RunsOf(m)' /\ RepliedTo(m)'
  <2>1. \A i \in Actions(m) : Untried(m, i)' => Untried(m, i)
    <3>1. CASE InWork(m) /\ QueueOf(m) = q
      BY <3>1 DEF InWork
    <3>2. CASE ~InWork(m)
      BY <1>1, <3>2 DEF Untried
    <3>3. CASE QueueOf(m) # q
      <4>1. current'[QueueOf(m)] = current[QueueOf(m)]
        BY <1>1, <3>3, MineIsMessage
      <4> QED BY <1>1, <4>1 DEF Untried, NextAction
    <3> QED BY <3>1, <3>2, <3>3
  <2> QED BY <1>1, <2>1, RunsUnaffected, RepliesUnaffected, SameAnswers
<1> QED BY <1>1, <1>2, <1>3, <1>4 DEF IInv, Runs, Replied

\* What a consumer in state w may become next.
LEMMA WorkingParts ==
    ASSUME NEW w \in Working, NEW r \in Seq(Result \cup {"failed"})
    PROVE  /\ w.msg \in Message /\ w.results \in Seq(Result \cup {"failed"})
           /\ \A t \in {"validate", "handle", "answer"} :
                [w EXCEPT !.step = t] \in Working
           /\ [w EXCEPT !.results = r] \in Working
           /\ [w EXCEPT !.step = "answer", !.results = r] \in Working
  BY DEF Working

LEMMA AcceptPreserves ==
    ASSUME IInv, NEW q \in Queue, Accept(q)
    PROVE  IInv'
<1> DEFINE w == [current[q] EXCEPT !.step = "handle"]
<1>1. /\ current[q] # Null /\ current[q].step = "validate"
      /\ UNCHANGED <<sent, queue, settled, handled, dropped, replies, losses>>
  BY DEF Accept, At
<1>2. current' = [current EXCEPT ![q] = w]
  BY DEF Accept
<1>3. /\ current[q] \in Working /\ StepIsSound(q) /\ current[q].msg \in Message
      /\ InWork(current[q].msg) /\ QueueOf(current[q].msg) = q
  BY <1>1, InHandIsNew, MineIsMessage
<1>4. /\ w \in Working /\ w.msg = current[q].msg /\ w.step = "handle"
      /\ w.results = <<>>
  BY <1>1, <1>3, WorkingParts DEF StepIsSound, Working
<1> HIDE DEF w
<1>5. current'[q] = w
  BY <1>2 DEF IInv, TypeOK
<1>6. StepIsSound(q)'
  <2>1. <<>> \in Seq(Result) /\ Len(<<>>) = 0 /\ DOMAIN <<>> = {}
    BY EmptySeq, LenProperties
  <2>2. ActionCount[w.msg] \in Nat
    BY <1>3, <1>4, BoundsAreNaturals
  <2>3. /\ w.results \in Seq(Result) /\ DOMAIN w.results = {}
        /\ Len(w.results) <= ActionCount[w.msg]
    BY <1>4, <2>1, <2>2
  <2> QED BY <1>4, <1>5, <2>3 DEF StepIsSound
<1>7. \A i \in Actions(current[q].msg) : Untried(current[q].msg, i)
  BY <1>1, <1>3 DEF Untried
<1> QED BY <1>1, <1>2, <1>4, <1>6, <1>7, OnlyWorkChanges

LEMMA UndecodablePreserves ==
    ASSUME IInv, NEW q \in Queue, Undecodable(q)
    PROVE  IInv'
<1> DEFINE w == [current[q] EXCEPT !.step = "answer", !.results = FailedReply]
<1>1. /\ current[q] # Null /\ current[q].step = "validate"
      /\ UNCHANGED <<sent, queue, settled, handled, dropped, replies, losses>>
  BY DEF Undecodable, At
<1>2. current' = [current EXCEPT ![q] = w]
  BY DEF Undecodable
<1>3. /\ current[q] \in Working /\ current[q].msg \in Message
      /\ InWork(current[q].msg) /\ QueueOf(current[q].msg) = q
  BY <1>1, InHandIsNew, MineIsMessage
<1>4. FailedReply \in Seq(Result \cup {"failed"})
  BY DEF FailedReply
<1>5. /\ w \in Working /\ w.msg = current[q].msg /\ w.step = "answer"
      /\ w.results = FailedReply
  BY <1>3, <1>4, WorkingParts DEF Working
<1> HIDE DEF w
<1>6. current'[q] = w
  BY <1>2 DEF IInv, TypeOK
<1>7. StepIsSound(q)'
  BY <1>5, <1>6 DEF StepIsSound
<1>8. \A i \in Actions(current[q].msg) : Untried(current[q].msg, i)
  BY <1>1, <1>3 DEF Untried
<1> QED BY <1>1, <1>2, <1>5, <1>7, <1>8, OnlyWorkChanges

\* The results with one more, for an action whose turn it is.
LEMMA OneMoreResult ==
    ASSUME IInv, NEW q \in Queue, Unfinished(q), NEW r \in Result, AddResult(q, r)
    PROVE  \E w \in Working :
              /\ current' = [current EXCEPT ![q] = w]
              /\ w.msg = current[q].msg /\ w.step = "handle"
              /\ w.results \in Seq(Result)
              /\ Len(current[q].results) \in Nat /\ Len(w.results) = NextAction(q)
              /\ NextAction(q) \in Actions(current[q].msg)
              /\ NextAction(q) <= ActionCount[current[q].msg]
              /\ DOMAIN w.results = DOMAIN current[q].results \cup {NextAction(q)}
              /\ w.results[NextAction(q)] = r
              /\ \A i \in DOMAIN current[q].results :
                    w.results[i] = current[q].results[i]
<1> DEFINE w == [current[q] EXCEPT !.results = Append(current[q].results, r)]
<1>1. /\ current[q] # Null /\ current[q].step = "handle"
      /\ NextAction(q) \in Actions(current[q].msg)
      /\ NextAction(q) = Len(current[q].results) + 1
      /\ current' = [current EXCEPT ![q] = w]
  BY DEF Unfinished, At, AddResult, NextAction
<1>2. /\ current[q] \in Working /\ current[q].results \in Seq(Result)
      /\ current[q].msg \in Message
  BY <1>1, InHandIsNew, MineIsMessage DEF StepIsSound
<1> DEFINE s == current[q].results
           t == Append(s, r)
<1>3. /\ t \in Seq(Result) /\ Len(t) = Len(s) + 1 /\ t[Len(s) + 1] = r
      /\ \A i \in 1..Len(s) : t[i] = s[i]
      /\ Len(s) \in Nat /\ DOMAIN s = 1..Len(s) /\ DOMAIN t = 1..(Len(s) + 1)
  BY <1>2, AppendProperties, LenProperties
<1>4. t \in Seq(Result \cup {"failed"})
  BY <1>3, SeqMonotonic
<1> HIDE DEF t
<1>5. w \in Working /\ w.msg = current[q].msg /\ w.step = "handle" /\ w.results = t
  BY <1>1, <1>2, <1>4, WorkingParts DEF Working, t
<1> HIDE DEF w
<1>6. 1..(Len(s) + 1) = (1..Len(s)) \cup {Len(s) + 1}
  BY <1>3
<1>7. NextAction(q) <= ActionCount[w.msg]
  BY <1>1, <1>2, <1>3, <1>5, BoundsAreNaturals DEF Actions
<1> QED BY <1>1, <1>3, <1>5, <1>6, <1>7

LEMMA RefuseActionPreserves ==
    ASSUME IInv, NEW q \in Queue, RefuseAction(q)
    PROVE  IInv'
<1>1. /\ Unfinished(q) /\ AddResult(q, "error") /\ "error" \in Result
      /\ current[q] # Null /\ current[q].step = "handle"
      /\ UNCHANGED <<sent, queue, settled, handled, dropped, replies, losses>>
  BY DEF RefuseAction, Unfinished, At, Result
<1>m. PICK m \in Message : m = current[q].msg
  BY <1>1, InHandIsNew, MineIsMessage
<1>2. /\ StepIsSound(q) /\ m \in Message
      /\ InWork(m) /\ ~Settled(m) /\ QueueOf(m) = q
  BY <1>1, <1>m, InHandIsNew, MineIsMessage
<1>3. PICK w \in Working :
      /\ current' = [current EXCEPT ![q] = w]
      /\ w.msg = m /\ w.step = "handle" /\ w.results \in Seq(Result)
      /\ Len(current[q].results) \in Nat /\ Len(w.results) = NextAction(q)
      /\ NextAction(q) <= ActionCount[m]
      /\ DOMAIN w.results = DOMAIN current[q].results \cup {NextAction(q)}
      /\ w.results[NextAction(q)] = "error"
      /\ \A i \in DOMAIN current[q].results : w.results[i] = current[q].results[i]
  BY <1>1, <1>m, OneMoreResult
<1>4. current'[q] = w
  BY <1>3 DEF IInv, TypeOK
<1>5. StepIsSound(q)'
  BY <1>1, <1>2, <1>3, <1>4, <1>m DEF StepIsSound
<1>6. ASSUME NEW i \in Actions(m), Untried(m, i)' PROVE Untried(m, i)
  <2>1. InWork(m)'
    BY <1>2, <1>3, <1>4, NullIsNoWork DEF InWork
  <2>2. i >= NextAction(q)'
    BY <1>2, <1>3, <1>4, <1>6, <2>1 DEF Untried
  <2>3. NextAction(q)' = NextAction(q) + 1 /\ NextAction(q) \in Nat /\ i \in Int
    BY <1>3, <1>4 DEF NextAction, Actions
  <2>4. i >= NextAction(q)
    BY <2>2, <2>3
  <2> QED BY <1>1, <1>2, <2>4 DEF Untried
<1>7. \A i \in Actions(current[q].msg) :
        Untried(current[q].msg, i)' => Untried(current[q].msg, i)
  BY <1>3, <1>4, <1>6, <1>m
<1> QED BY <1>1, <1>3, <1>5, <1>7, <1>m, OnlyWorkChanges

LEMMA HandleActionPreserves ==
    ASSUME IInv, NEW q \in Queue, HandleAction(q)
    PROVE  IInv'
<1>a. current[q] # Null
  BY DEF HandleAction, Unfinished, At
<1>m. PICK m \in Message : m = current[q].msg
  BY <1>a, InHandIsNew, MineIsMessage
<1>k. PICK k : k = NextAction(q)
  OBVIOUS
<1>1. PICK r \in Result : AddResult(q, r)
  BY DEF HandleAction, Result
<1>2. /\ Unfinished(q) /\ current[q] # Null /\ current[q].step = "handle"
      /\ handled' = [handled EXCEPT ![m][k] = handled[m][k] + 1]
      /\ UNCHANGED <<sent, queue, settled, dropped, replies, losses>>
  BY <1>m, <1>k DEF HandleAction, Unfinished, At
<1>3. /\ StepIsSound(q) /\ m \in Message
      /\ InWork(m) /\ ~Settled(m) /\ QueueOf(m) = q
  BY <1>m, <1>2, InHandIsNew, MineIsMessage
<1>4. PICK w \in Working :
      /\ current' = [current EXCEPT ![q] = w]
      /\ w.msg = m /\ w.step = "handle" /\ w.results \in Seq(Result)
      /\ Len(current[q].results) \in Nat /\ Len(w.results) = k
      /\ k <= ActionCount[m] /\ k \in Actions(m)
      /\ DOMAIN w.results = DOMAIN current[q].results \cup {k}
      /\ \A i \in DOMAIN current[q].results : w.results[i] = current[q].results[i]
  BY <1>1, <1>2, <1>m, <1>k, OneMoreResult
<1>5. /\ current' \in [Queue -> Working \cup {Null}]
      /\ current'[q] = w
      /\ \A p \in Queue \ {q} : current'[p] = current[p]
      /\ Queues'
      /\ \A n \in Message : /\ Settled(n)' <=> Settled(n)
                            /\ InWork(n)' <=> InWork(n)
  BY <1>2, <1>4, <1>m, WorkKeepsQueues
<1>6. k = Len(current[q].results) + 1 /\ k \in Nat
  BY <1>4, <1>k DEF NextAction
<1>7. /\ \A n \in Message : handled[n] \in [Actions(n) -> Nat]
      /\ DOMAIN handled = Message /\ \A n \in Message : losses[n] \in Nat
  BY DEF IInv, TypeOK
<1>8. /\ DOMAIN handled' = Message
      /\ handled'[m] = [handled[m] EXCEPT ![k] = handled[m][k] + 1]
      /\ \A n \in Message \ {m} : handled'[n] = handled[n]
  BY <1>2, <1>3, <1>7
<1>9. /\ handled'[m] \in [Actions(m) -> Nat]
      /\ handled'[m][k] = handled[m][k] + 1
      /\ \A i \in Actions(m) \ {k} : handled'[m][i] = handled[m][i]
  BY <1>3, <1>4, <1>7, <1>8
<1>10. TypeOK'
  BY <1>2, <1>5, <1>8, <1>9 DEF IInv, TypeOK
<1>11. Steps'
  <2> SUFFICES ASSUME NEW p \in Queue, current'[p] # Null PROVE StepIsSound(p)'
    BY DEF Steps
  <2>1. CASE p = q
    <3>1. \A i \in DOMAIN w.results : w.results[i] = "ok" => handled'[m][i] > 0
      <4> SUFFICES ASSUME NEW i \in DOMAIN w.results, w.results[i] = "ok"
                   PROVE  handled'[m][i] > 0
        OBVIOUS
      <4>1. CASE i = k
        BY <1>3, <1>4, <1>7, <1>9, <4>1
      <4>2. CASE i # k
        <5>1. i \in DOMAIN current[q].results /\ current[q].results[i] = "ok"
          BY <1>4, <4>2
        <5>2. handled[m][i] > 0
          BY <1>2, <1>3, <1>m, <5>1 DEF StepIsSound
        <5>3. DOMAIN w.results = 1..k /\ i \in 1..ActionCount[m]
          BY <1>3, <1>4, <1>6, LenProperties, BoundsAreNaturals
        <5> QED BY <1>9, <4>2, <5>2, <5>3 DEF Actions
      <4> QED BY <4>1, <4>2
    <3> QED BY <1>4, <1>5, <2>1, <3>1 DEF StepIsSound
  <2>2. CASE p # q
    <3>1. /\ current'[p] = current[p] /\ StepIsSound(p) /\ current[p] # Null
          /\ current[p].msg \in Message /\ QueueOf(current[p].msg) = p
      BY <1>5, <2>2, InHandIsNew, MineIsMessage
    <3>2. handled'[current[p].msg] = handled[current[p].msg]
      BY <1>3, <1>8, <2>2, <3>1
    <3> QED BY <3>1, <3>2 DEF StepIsSound
  <2> QED BY <2>1, <2>2
<1>12. ASSUME NEW n \in Message, n # m PROVE RunsOf(n)' /\ RepliedTo(n)'
  <2>1. \A i \in Actions(n) : Untried(n, i)' => Untried(n, i)
    <3>1. CASE ~InWork(n)
      BY <1>5, <3>1 DEF Untried
    <3>2. CASE InWork(n)
      <4>1. current'[QueueOf(n)] = current[QueueOf(n)]
        BY <1>5, <1>12, <1>m, <3>2, MineIsMessage DEF InWork
      <4> QED BY <1>5, <4>1 DEF Untried, NextAction
    <3> QED BY <3>1, <3>2
  <2> QED BY <1>2, <1>5, <1>8, <1>12, <2>1, RunsUnaffected, RepliesUnaffected, SameAnswers
<1>13. RunsOf(m)'
  <2> SUFFICES ASSUME NEW i \in Actions(m)
               PROVE  handled'[m][i] + TimesBlocked(m)
                          <= IF Untried(m, i)' THEN losses[m] ELSE 1 + losses[m]
    BY <1>2, SameAnswers DEF RunsOf, Deliveries
  <2>1. handled[m][i] + TimesBlocked(m) <= IF Untried(m, i) THEN losses[m] ELSE 1 + losses[m]
    BY <1>3 DEF IInv, Runs, RunsOf, Deliveries
  <2>2. Untried(m, i) <=> i >= k
    BY <1>2, <1>3, <1>k DEF Untried
  <2>3. NextAction(q)' = k + 1
    BY <1>4, <1>5 DEF NextAction
  <2>4. InWork(m)' /\ QueueOf(m) = q /\ current'[q] = w
    BY <1>3, <1>5
  <2>5. Untried(m, i)' <=> i >= k + 1
    BY <1>4, <2>3, <2>4 DEF Untried
  <2>6. i \in Int
    BY DEF Actions
  <2>7. handled[m][i] \in Nat /\ losses[m] \in Nat /\ TimesBlocked(m) \in Nat
    BY <1>3, <1>7, BlockedIsCounted
  <2>8. CASE i = k
    <3>1. Untried(m, i) /\ ~Untried(m, i)'
      BY <1>6, <2>2, <2>5, <2>8
    <3>2. handled[m][i] + TimesBlocked(m) <= losses[m]
      BY <2>1, <3>1
    <3>3. handled'[m][i] = handled[m][i] + 1
      BY <1>9, <2>8
    <3>4. handled'[m][i] + TimesBlocked(m) <= 1 + losses[m]
      BY <2>7, <3>2, <3>3
    <3> QED BY <3>1, <3>4
  <2>9. CASE i # k
    BY <1>6, <1>9, <2>1, <2>2, <2>5, <2>6, <2>7, <2>9
  <2> QED BY <2>8, <2>9
<1>14. RepliedTo(m)'
  <2>1. RepliedTo(m) /\ ~Settled(m)'
    BY <1>3, <1>5 DEF IInv, Replied
  <2>2. ASSUME NEW a, TrueAnswer(m, a) PROVE TrueAnswer(m, a)'
    <3>1. ASSUME NEW i \in Actions(m), handled[m][i] > 0 PROVE handled'[m][i] > 0
      BY <1>3, <1>4, <1>7, <1>9, <3>1
    <3> QED BY <2>2, <3>1 DEF TrueAnswer
  <2> QED BY <1>2, <1>3, <2>1, <2>2 DEF RepliedTo
<1> QED BY <1>5, <1>10, <1>11, <1>12, <1>13, <1>14 DEF IInv, Runs, Replied

-----------------------------------------------------------------------------
(* Steps that settle the batch in hand *)

\* What one more answer changes.
LEMMA OneMoreAnswer ==
    ASSUME IInv, NEW m \in Message, NEW a \in Replies, Reply(m, a)
    PROVE  /\ replies' \in [Message -> Seq(Replies)]
           /\ \A n \in Message \ {m} : replies'[n] = replies[n]
           /\ Len(replies[m]) \in Nat /\ Len(replies'[m]) = Len(replies[m]) + 1
           /\ replies'[m] # <<>>
           /\ \A k \in DOMAIN replies'[m] :
                 \/ replies'[m][k] = a
                 \/ k \in DOMAIN replies[m] /\ replies'[m][k] = replies[m][k]
           /\ TimesBlocked(m)' = IF a = BlockedReply THEN TimesBlocked(m) + 1
                                 ELSE TimesBlocked(m)
<1>1. replies \in [Message -> Seq(Replies)]
  BY DEF IInv, TypeOK, Replies
<1> DEFINE r == Append(replies[m], a)
<1>2. /\ r \in Seq(Replies) /\ Len(r) = Len(replies[m]) + 1 /\ r # <<>>
      /\ Len(replies[m]) \in Nat /\ DOMAIN replies[m] = 1..Len(replies[m])
      /\ \A k \in 1..Len(replies[m]) : r[k] = replies[m][k]
      /\ r[Len(replies[m]) + 1] = a
      /\ DOMAIN r = 1..(Len(replies[m]) + 1)
  BY <1>1, AppendProperties, LenProperties
<1>3. replies' = [replies EXCEPT ![m] = r]
  BY DEF Reply
<1> HIDE DEF r
<1>4. /\ replies' \in [Message -> Seq(Replies)] /\ replies'[m] = r
      /\ \A n \in Message \ {m} : replies'[n] = replies[n]
  BY <1>1, <1>2, <1>3
<1>5. 1..(Len(replies[m]) + 1) = (1..Len(replies[m])) \cup {Len(replies[m]) + 1}
  BY <1>2
<1>6. TimesBlocked(m)' = IF a = BlockedReply THEN TimesBlocked(m) + 1 ELSE TimesBlocked(m)
  <2> DEFINE B == {k \in DOMAIN replies[m] : replies[m][k] = BlockedReply}
             C == {k \in DOMAIN r : r[k] = BlockedReply}
  <2>1. C = IF a = BlockedReply THEN B \cup {Len(replies[m]) + 1} ELSE B
    BY <1>2, <1>5
  <2>2. IsFiniteSet(B) /\ TimesBlocked(m) = Cardinality(B)
    BY BlockedIsCounted DEF TimesBlocked
  <2>3. Len(replies[m]) + 1 \notin B
    BY <1>2
  <2>4. TimesBlocked(m)' = Cardinality(C)
    BY <1>4 DEF TimesBlocked
  <2> HIDE DEF B, C
  <2> QED BY <2>1, <2>2, <2>3, <2>4, FS_AddElement
<1> QED BY <1>2, <1>4, <1>5, <1>6

\* Everything but the answers to the batch that is settled.
LEMMA SettleKeeps ==
    ASSUME IInv, NEW q \in Queue, current[q] # Null,
           NEW m \in Message, m = current[q].msg,
           Settle(q), UNCHANGED <<sent, queue, handled, losses>>,
           \A n \in Message \ {m} : replies'[n] = replies[n],
           \/ TimesBlocked(m)' = TimesBlocked(m)
           \/ /\ current[q].step = "validate"
              /\ TimesBlocked(m)' = TimesBlocked(m) + 1
    PROVE  /\ settled' \in [Queue -> Seq(Message)]
           /\ current' \in [Queue -> Working \cup {Null}]
           /\ Queues' /\ Steps' /\ Runs'
           /\ Settled(m)'
           /\ \A n \in Message \ {m} : Settled(n)' <=> Settled(n)
<1>1. /\ settled' = [settled EXCEPT ![q] = Append(settled[q], m)]
      /\ current' = [current EXCEPT ![q] = Null]
  BY DEF Settle
<1>2. /\ m \in Mine(q) /\ QueueOf(m) = q /\ InWork(m) /\ ~Settled(m)
      /\ InHand(q) = <<m>>
  BY InHandIsNew, MineIsMessage
<1>3. /\ settled[q] \in Seq(Mine(q)) /\ settled[q] \in Seq(Message)
      /\ queue[q] \in Seq(Mine(q)) /\ sent[q] = settled[q] \o InHand(q) \o queue[q]
  BY DEF IInv, Queues, TypeOK
<1>4. /\ Append(settled[q], m) \in Seq(Mine(q)) /\ Append(settled[q], m) \in Seq(Message)
      /\ Elements(Append(settled[q], m)) = Elements(settled[q]) \cup {m}
  BY <1>2, <1>3, AppendProperties, ElementsOfAppend
<1>5. /\ settled' \in [Queue -> Seq(Message)]
      /\ current' \in [Queue -> Working \cup {Null}]
      /\ settled'[q] = Append(settled[q], m) /\ current'[q] = Null
      /\ \A p \in Queue \ {q} : settled'[p] = settled[p] /\ current'[p] = current[p]
  BY <1>1, <1>4 DEF IInv, TypeOK
<1>6. Queues'
  <2> SUFFICES ASSUME NEW p \in Queue
               PROVE  /\ settled'[p] \in Seq(Mine(p))
                      /\ current'[p] # Null => current'[p].msg \in Mine(p)
                      /\ sent[p] = settled'[p] \o InHand(p)' \o queue[p]
    BY DEF Queues, IInv
  <2>1. CASE p = q
    <3>1. InHand(p)' = <<>>
      BY <1>5, <2>1 DEF InHand
    <3>2. settled[q] \o <<m>> \o queue[q] = Append(settled[q], m) \o <<>> \o queue[q]
      <4> DEFINE S == Mine(q)
                 b == settled[q]
                 w == queue[q]
      <4>1. b \in Seq(S) /\ w \in Seq(S) /\ m \in S
        BY <1>2, <1>3
      <4> HIDE DEF S, b, w
      <4>2. b \o <<m>> \o w = Append(b, m) \o <<>> \o w
        BY <4>1, Settling
      <4> QED BY <4>2 DEF b, w
    <3>3. sent[p] = settled[q] \o <<m>> \o queue[q]
      BY <1>2, <1>3, <2>1
    <3> QED BY <1>4, <1>5, <2>1, <3>1, <3>2, <3>3
  <2>2. CASE p # q
    <3>1. InHand(p)' = InHand(p)
      BY <1>5, <2>2 DEF InHand
    <3> QED BY <1>5, <2>2, <3>1 DEF IInv, Queues
  <2> QED BY <2>1, <2>2
<1>7. Steps'
  BY <1>5 DEF IInv, Steps, StepIsSound
<1>8. Settled(m)' /\ ~InWork(m)'
  BY <1>2, <1>4, <1>5 DEF Settled, InWork
<1>9. ASSUME NEW n \in Message, n # m
      PROVE  /\ Settled(n)' <=> Settled(n)
             /\ \A i \in Actions(n) : Untried(n, i)' => Untried(n, i)
  <2>1. Settled(n)' <=> Settled(n)
    BY <1>4, <1>5, <1>9, MineIsMessage DEF Settled
  <2>2. CASE QueueOf(n) = q
    <3>1. ~InWork(n) /\ ~InWork(n)'
      BY <1>5, <1>9, <2>2 DEF InWork
    <3> QED BY <2>1, <3>1 DEF Untried
  <2>3. CASE QueueOf(n) # q
    <3>1. current'[QueueOf(n)] = current[QueueOf(n)]
      BY <1>5, <2>3, MineIsMessage
    <3> QED BY <2>1, <3>1 DEF Untried, InWork, NextAction
  <2> QED BY <2>1, <2>2, <2>3
<1>10. \A i \in Actions(m) : Untried(m, i)' => Untried(m, i)
  BY <1>8 DEF Untried
<1>11. Runs'
  <2> SUFFICES ASSUME NEW n \in Message PROVE RunsOf(n)'
    BY DEF Runs
  <2>1. \A i \in Actions(n) : Untried(n, i)' => Untried(n, i)
    BY <1>9, <1>10
  <2>2. CASE TimesBlocked(n)' = TimesBlocked(n)
    BY <2>1, <2>2, RunsUnaffected
  <2>3. CASE n # m
    BY <2>1, <2>3, RunsUnaffected, SameAnswers
  <2>4. CASE n = m /\ current[q].step = "validate" /\ TimesBlocked(m)' = TimesBlocked(m) + 1
    <3>1. RunsOf(m) /\ \A i \in Actions(m) : Untried(m, i)
      BY <1>2, <2>4 DEF IInv, Runs, Untried
    <3>2. /\ losses[m] \in Nat /\ TimesBlocked(m) \in Nat
          /\ \A i \in Actions(m) : handled[m][i] \in Nat
      BY BlockedIsCounted DEF IInv, TypeOK
    <3>3. \A i \in Actions(m) : ~Untried(m, i)'
      BY <1>8 DEF Untried
    <3> QED BY <2>4, <3>1, <3>2, <3>3 DEF RunsOf, Deliveries
  <2> QED BY <2>2, <2>3, <2>4
<1> QED BY <1>5, <1>6, <1>7, <1>8, <1>9, <1>11

\* The batches of the other queue and the other batches of this one.
LEMMA OthersReplied ==
    ASSUME IInv, NEW m \in Message, RepliedTo(m)',
           UNCHANGED <<handled, losses>>,
           \A n \in Message \ {m} : /\ Settled(n)' <=> Settled(n)
                                    /\ replies'[n] = replies[n]
                                    /\ n \in dropped' <=> n \in dropped
    PROVE  Replied'
<1> SUFFICES ASSUME NEW n \in Message PROVE RepliedTo(n)'
  BY DEF Replied
<1> QED BY RepliesUnaffected

\* "validate": nothing of the batch has run since it was last given back.
LEMMA BlockedPreserves ==
    ASSUME IInv, NEW q \in Queue, Blocked(q)
    PROVE  IInv'
<1>1. /\ current[q] # Null /\ current[q].step = "validate" /\ Settle(q)
      /\ UNCHANGED <<sent, queue, handled, dropped, losses>>
  BY DEF Blocked, At
<1>2. PICK m \in Message : m = current[q].msg
  BY <1>1, InHandIsNew, MineIsMessage
<1>3. ~Settled(m) /\ QueueOf(m) = q
  BY <1>1, <1>2, InHandIsNew, MineIsMessage
<1>4. /\ RepliedTo(m) /\ losses[m] \in Nat
      /\ Len(replies[m]) \in Nat /\ Len(replies[m]) <= losses[m]
  <2>1. RepliedTo(m) /\ losses[m] \in Nat /\ replies[m] \in Seq(Replies)
    BY DEF IInv, Replied, TypeOK, Replies
  <2> QED BY <1>3, <2>1, LenProperties DEF RepliedTo
<1>5. CASE Reply(m, BlockedReply)
  <2>1. BlockedReply \in Replies
    BY DEF BlockedReply, Replies
  <2>2. /\ replies' \in [Message -> Seq(Replies)]
        /\ \A n \in Message \ {m} : replies'[n] = replies[n]
        /\ Len(replies'[m]) = Len(replies[m]) + 1
        /\ replies'[m] # <<>>
        /\ \A k \in DOMAIN replies'[m] :
              \/ replies'[m][k] = BlockedReply
              \/ k \in DOMAIN replies[m] /\ replies'[m][k] = replies[m][k]
        /\ TimesBlocked(m)' = TimesBlocked(m) + 1
    BY <1>5, <2>1, OneMoreAnswer
  <2>3. /\ settled' \in [Queue -> Seq(Message)]
        /\ current' \in [Queue -> Working \cup {Null}]
        /\ Queues' /\ Steps' /\ Runs' /\ Settled(m)'
        /\ \A n \in Message \ {m} : Settled(n)' <=> Settled(n)
    BY <1>1, <1>2, <2>2, SettleKeeps
  <2>4. TypeOK'
    BY <1>1, <2>2, <2>3 DEF IInv, TypeOK, Replies
  <2>5. (\A k \in DOMAIN replies[m] : TrueAnswer(m, replies[m][k]))'
    <3>1. \A k \in DOMAIN replies[m] : TrueAnswer(m, replies[m][k])
      BY <1>4 DEF RepliedTo
    <3> QED BY <1>1, <2>2, <3>1 DEF TrueAnswer
  <2>6. RepliedTo(m)'
    BY <1>1, <1>4, <2>2, <2>3, <2>5 DEF RepliedTo, Deliveries
  <2>7. Replied'
    BY <1>1, <2>2, <2>3, <2>6, OthersReplied
  <2> QED BY <2>3, <2>4, <2>7 DEF IInv
<1>6. CASE q = "async" /\ UNCHANGED replies
  <2>1. /\ settled' \in [Queue -> Seq(Message)]
        /\ current' \in [Queue -> Working \cup {Null}]
        /\ Queues' /\ Steps' /\ Runs' /\ Settled(m)'
        /\ \A n \in Message \ {m} : Settled(n)' <=> Settled(n)
    BY <1>1, <1>2, <1>6, SettleKeeps, SameAnswers
  <2>2. TypeOK'
    BY <1>1, <2>1, <1>6 DEF IInv, TypeOK
  <2>3. m \notin SyncMessage
    BY <1>3, <1>6, MineIsMessage
  <2>4. RepliedTo(m)'
    BY <1>1, <1>4, <1>6, <2>1, <2>3 DEF RepliedTo, TrueAnswer
  <2>5. Replied'
    BY <1>1, <1>6, <2>1, <2>4, OthersReplied
  <2> QED BY <2>1, <2>2, <2>5 DEF IInv
<1> QED BY <1>2, <1>5, <1>6 DEF Blocked

\* The results of a batch that is done with are a true answer to it.
LEMMA ResultsAreTrue ==
    ASSUME IInv, NEW q \in Queue, Ready(q), NEW m \in Message, m = current[q].msg
    PROVE  /\ current[q].results \in Replies /\ current[q].results # BlockedReply
           /\ q # "async" => TrueAnswer(m, current[q].results)
<1> DEFINE r == current[q].results
<1>1. current[q] # Null /\ StepIsSound(q) /\ (q # "async" => m \notin AsyncMessage)
  BY InHandIsNew, MineIsMessage DEF Ready, At
<1>2. CASE current[q].step = "answer"
  <2>1. r = FailedReply
    BY <1>1, <1>2 DEF StepIsSound
  <2>2. FailedReply \in Replies /\ FailedReply # BlockedReply
    BY DEF FailedReply, BlockedReply, Replies
  <2> QED BY <1>1, <2>1, <2>2 DEF TrueAnswer
<1>3. CASE current[q].step = "handle" /\ ~Unfinished(q)
  <2>1. /\ r \in Seq(Result) /\ Len(r) <= ActionCount[m]
        /\ \A i \in DOMAIN r : r[i] = "ok" => handled[m][i] > 0
        /\ ~(Len(r) + 1 \in 1..ActionCount[m])
    BY <1>1, <1>3 DEF StepIsSound, Unfinished, At, NextAction, Actions
  <2> HIDE DEF r
  <2>2. Len(r) \in Nat /\ DOMAIN r = 1..Len(r) /\ ActionCount[m] \in Nat
    BY <2>1, LenProperties, BoundsAreNaturals
  <2>3. Len(r) = ActionCount[m]
    BY <2>1, <2>2
  <2>4. r \in Replies
    BY <2>1, SeqMonotonic DEF Replies
  <2>5. r # BlockedReply
    <3>1. ASSUME r = BlockedReply PROVE FALSE
      <4>1. Len(BlockedReply) = 1 /\ BlockedReply[1] = "blocked"
        BY DEF BlockedReply
      <4>2. r[1] \in Result
        <5>1. 1 \in 1..Len(r)
          BY <3>1, <4>1
        <5>2. r \in Seq(Result)
          BY <2>1
        <5> QED BY <5>1, <5>2, ElementOfSeq
      <4> QED BY <3>1, <4>1, <4>2 DEF Result
    <3> QED BY <3>1
  <2>6. q # "async" => TrueAnswer(m, r)
    BY <1>1, <2>1, <2>2, <2>3 DEF TrueAnswer, Actions
  <2> QED BY <2>4, <2>5, <2>6 DEF r
<1> QED BY <1>2, <1>3 DEF Ready, At

\* What is known of the batch that is done with.
LEMMA ReadyFacts ==
    ASSUME IInv, NEW q \in Queue, Ready(q)
    PROVE  \E m \in Message :
              /\ m = current[q].msg /\ current[q] # Null
              /\ QueueOf(m) = q /\ InWork(m) /\ ~Settled(m)
              /\ RepliedTo(m) /\ losses[m] \in Nat
              /\ Len(replies[m]) \in Nat /\ Len(replies[m]) <= losses[m]
              /\ \A k \in DOMAIN replies[m] : TrueAnswer(m, replies[m][k])
<1>1. current[q] # Null
  BY DEF Ready, At
<1>2. PICK m \in Message : m = current[q].msg
  BY <1>1, InHandIsNew, MineIsMessage
<1>3. InWork(m) /\ ~Settled(m) /\ QueueOf(m) = q
  BY <1>1, <1>2, InHandIsNew, MineIsMessage
<1>4. RepliedTo(m) /\ losses[m] \in Nat /\ replies[m] \in Seq(Replies)
  BY DEF IInv, Replied, TypeOK, Replies
<1> QED BY <1>1, <1>2, <1>3, <1>4, LenProperties DEF RepliedTo

LEMMA AnswerPreserves ==
    ASSUME IInv, NEW q \in Queue, Answer(q)
    PROVE  IInv'
<1>1. /\ Ready(q) /\ Settle(q)
      /\ UNCHANGED <<sent, queue, handled, dropped, losses>>
  BY DEF Answer
<1>2. PICK m \in Message :
         /\ m = current[q].msg /\ current[q] # Null
         /\ QueueOf(m) = q /\ RepliedTo(m) /\ losses[m] \in Nat
         /\ Len(replies[m]) \in Nat /\ Len(replies[m]) <= losses[m]
         /\ \A k \in DOMAIN replies[m] : TrueAnswer(m, replies[m][k])
  BY <1>1, ReadyFacts
<1>3. PICK a : a = current[q].results
  OBVIOUS
<1>4. a \in Replies /\ a # BlockedReply /\ (q # "async" => TrueAnswer(m, a))
  BY <1>1, <1>2, <1>3, ResultsAreTrue
<1>5. CASE q # "async"
  <2>1. Reply(m, a)
    BY <1>2, <1>3, <1>5 DEF Answer
  <2>2. /\ replies' \in [Message -> Seq(Replies)]
        /\ \A n \in Message \ {m} : replies'[n] = replies[n]
        /\ Len(replies'[m]) = Len(replies[m]) + 1
        /\ replies'[m] # <<>>
        /\ \A k \in DOMAIN replies'[m] :
              \/ replies'[m][k] = a
              \/ k \in DOMAIN replies[m] /\ replies'[m][k] = replies[m][k]
        /\ TimesBlocked(m)' = TimesBlocked(m)
    BY <1>4, <2>1, OneMoreAnswer
  <2>3. /\ settled' \in [Queue -> Seq(Message)]
        /\ current' \in [Queue -> Working \cup {Null}]
        /\ Queues' /\ Steps' /\ Runs' /\ Settled(m)'
        /\ \A n \in Message \ {m} : Settled(n)' <=> Settled(n)
    BY <1>1, <1>2, <2>2, SettleKeeps
  <2>4. TypeOK'
    BY <1>1, <2>2, <2>3 DEF IInv, TypeOK, Replies
  <2>5. (\A k \in DOMAIN replies[m] : TrueAnswer(m, replies[m][k]))'
    BY <1>1, <1>2, <1>4, <1>5, <2>2 DEF TrueAnswer
  <2>6. RepliedTo(m)'
    BY <1>1, <1>2, <2>2, <2>3, <2>5 DEF RepliedTo, Deliveries
  <2>7. Replied'
    BY <1>1, <2>2, <2>3, <2>6, OthersReplied
  <2> QED BY <2>3, <2>4, <2>7 DEF IInv
<1>6. CASE q = "async"
  <2>1. UNCHANGED replies
    BY <1>6 DEF Answer
  <2>2. /\ settled' \in [Queue -> Seq(Message)]
        /\ current' \in [Queue -> Working \cup {Null}]
        /\ Queues' /\ Steps' /\ Runs' /\ Settled(m)'
        /\ \A n \in Message \ {m} : Settled(n)' <=> Settled(n)
    BY <1>1, <1>2, <2>1, SettleKeeps, SameAnswers
  <2>3. TypeOK'
    BY <1>1, <2>1, <2>2 DEF IInv, TypeOK
  <2>4. m \notin SyncMessage
    BY <1>2, <1>6, MineIsMessage
  <2>5. RepliedTo(m)'
    BY <1>1, <1>2, <2>1, <2>2, <2>4 DEF RepliedTo, TrueAnswer
  <2>6. Replied'
    BY <1>1, <2>1, <2>2, <2>5, OthersReplied
  <2> QED BY <2>2, <2>3, <2>6 DEF IInv
<1> QED BY <1>5, <1>6

LEMMA EncryptFailsPreserves ==
    ASSUME IInv, NEW q \in Queue, EncryptFails(q)
    PROVE  IInv'
<1>1. /\ Ready(q) /\ Settle(q)
      /\ UNCHANGED <<sent, queue, handled, replies, losses>>
      /\ dropped' = dropped \cup {current[q].msg}
  BY DEF EncryptFails
<1>2. PICK m \in Message :
         /\ m = current[q].msg /\ current[q] # Null
         /\ QueueOf(m) = q /\ RepliedTo(m) /\ losses[m] \in Nat
         /\ Len(replies[m]) \in Nat /\ Len(replies[m]) <= losses[m]
  BY <1>1, ReadyFacts
<1>3. /\ settled' \in [Queue -> Seq(Message)]
      /\ current' \in [Queue -> Working \cup {Null}]
      /\ Queues' /\ Steps' /\ Runs' /\ Settled(m)'
      /\ \A n \in Message \ {m} : Settled(n)' <=> Settled(n)
  BY <1>1, <1>2, SettleKeeps, SameAnswers
<1>4. TypeOK'
  BY <1>1, <1>2, <1>3 DEF IInv, TypeOK
<1>5. RepliedTo(m)'
  BY <1>1, <1>2, <1>3 DEF RepliedTo, TrueAnswer, Deliveries
<1>6. Replied'
  BY <1>1, <1>2, <1>3, <1>5, OthersReplied
<1> QED BY <1>3, <1>4, <1>6 DEF IInv

-----------------------------------------------------------------------------
(* Losses *)

\* Giving back the batches in hand of some queues, whatever was answered.
LEMMA GiveBackKeeps ==
    ASSUME IInv, NEW qs \in SUBSET Queue,
           queue' = [q \in Queue |-> IF q \in qs THEN GiveBack(q) ELSE queue[q]],
           current' = [q \in Queue |-> IF q \in qs THEN Null ELSE current[q]],
           Redelivered(qs),
           UNCHANGED <<sent, settled, handled, dropped>>,
           \A m \in Message :
              \/ TimesBlocked(m)' = TimesBlocked(m)
              \/ /\ InWork(m) /\ QueueOf(m) \in qs
                 /\ current[QueueOf(m)].step = "validate"
                 /\ TimesBlocked(m)' = TimesBlocked(m) + 1
    PROVE  /\ queue' \in [Queue -> Seq(Message)]
           /\ current' \in [Queue -> Working \cup {Null}]
           /\ losses' \in [Message -> Nat]
           /\ Queues' /\ Steps' /\ Runs'
           /\ \A m \in Message :
                 /\ Settled(m)' <=> Settled(m)
                 /\ losses[m] \in Nat
                 /\ losses'[m] = IF InWork(m) /\ QueueOf(m) \in qs
                                 THEN losses[m] + 1 ELSE losses[m]
<1>1. ASSUME NEW q \in Queue
      PROVE  /\ sent[q] = settled[q] \o InHand(q) \o queue[q]
             /\ settled[q] \in Seq(Mine(q)) /\ queue[q] \in Seq(Mine(q))
             /\ InHand(q) \in Seq(Mine(q)) /\ InHand(q) \in Seq(Message)
             /\ GiveBack(q) \in Seq(Mine(q)) /\ GiveBack(q) \in Seq(Message)
             /\ queue[q] \in Seq(Message)
  <2>1. /\ sent[q] = settled[q] \o InHand(q) \o queue[q]
        /\ settled[q] \in Seq(Mine(q)) /\ queue[q] \in Seq(Mine(q))
        /\ current[q] # Null => current[q].msg \in Mine(q)
        /\ queue[q] \in Seq(Message)
    BY DEF IInv, Queues, TypeOK
  <2>2. InHand(q) \in Seq(Mine(q))
    BY <2>1 DEF InHand
  <2>3. Mine(q) \subseteq Message
    BY DEF Mine
  <2>4. GiveBack(q) \in Seq(Mine(q))
    BY <2>1, <2>2, ConcatProperties DEF GiveBack
  <2> QED BY <2>1, <2>2, <2>3, <2>4, SeqMonotonic
<1>2. queue' \in [Queue -> Seq(Message)] /\ current' \in [Queue -> Working \cup {Null}]
  BY <1>1 DEF IInv, TypeOK
<1>3. ASSUME NEW m \in Message
      PROVE  /\ losses[m] \in Nat
             /\ losses'[m] = IF InWork(m) /\ QueueOf(m) \in qs
                             THEN losses[m] + 1 ELSE losses[m]
  <2>1. (\E q \in qs : current[q] # Null /\ current[q].msg = m)
          <=> InWork(m) /\ QueueOf(m) \in qs
    <3>1. \A q \in qs : current[q] # Null /\ current[q].msg = m => QueueOf(m) = q
      BY InHandIsNew, MineIsMessage
    <3> QED BY <3>1 DEF InWork
  <2> QED BY <2>1 DEF Redelivered, IInv, TypeOK
<1>4. losses' \in [Message -> Nat]
  BY DEF Redelivered, IInv, TypeOK
<1>5. Queues'
  <2> SUFFICES ASSUME NEW p \in Queue
               PROVE  /\ queue'[p] \in Seq(Mine(p))
                      /\ current'[p] # Null => current'[p].msg \in Mine(p)
                      /\ sent[p] = settled[p] \o InHand(p)' \o queue'[p]
    BY DEF Queues, IInv
  <2>1. CASE p \in qs
    <3>1. InHand(p)' = <<>> /\ queue'[p] = InHand(p) \o queue[p] /\ current'[p] = Null
      BY <2>1 DEF InHand, GiveBack
    <3>2. settled[p] \o InHand(p) \o queue[p]
            = settled[p] \o <<>> \o (InHand(p) \o queue[p])
      <4> DEFINE S == Mine(p)
                 b == settled[p]
                 h == InHand(p)
                 w == queue[p]
      <4>1. b \in Seq(S) /\ h \in Seq(S) /\ w \in Seq(S)
        BY <1>1
      <4> HIDE DEF S, b, h, w
      <4>2. b \o h \o w = b \o <<>> \o (h \o w)
        BY <4>1, GivingBack
      <4> QED BY <4>2 DEF b, h, w
    <3>3. queue'[p] \in Seq(Mine(p))
      BY <1>1, <2>1
    <3> QED BY <1>1, <3>1, <3>2, <3>3
  <2>2. CASE p \notin qs
    <3>1. InHand(p)' = InHand(p) /\ queue'[p] = queue[p] /\ current'[p] = current[p]
      BY <2>2 DEF InHand
    <3> QED BY <3>1 DEF IInv, Queues
  <2> QED BY <2>1, <2>2
<1>6. Steps'
  BY DEF IInv, Steps, StepIsSound
<1>7. \A m \in Message : Settled(m)' <=> Settled(m)
  BY DEF Settled
<1>8. Runs'
  <2> SUFFICES ASSUME NEW m \in Message PROVE RunsOf(m)'
    BY DEF Runs
  <2>1. /\ RunsOf(m) /\ TimesBlocked(m) \in Nat
        /\ \A i \in Actions(m) : handled[m][i] \in Nat
    BY BlockedIsCounted DEF IInv, Runs, TypeOK
  <2>2. CASE InWork(m) /\ QueueOf(m) \in qs
    <3>1. CASE TimesBlocked(m)' = TimesBlocked(m)
      BY <1>3, <2>1, <2>2, <3>1 DEF RunsOf, Deliveries
    <3>2. CASE /\ current[QueueOf(m)].step = "validate"
               /\ TimesBlocked(m)' = TimesBlocked(m) + 1
      <4>1. \A i \in Actions(m) : Untried(m, i)
        BY <2>2, <3>2 DEF Untried
      <4> QED BY <1>3, <2>1, <2>2, <3>2, <4>1 DEF RunsOf, Deliveries
    <3> QED BY <3>1, <3>2
  <2>3. CASE QueueOf(m) \notin qs
    <3>1. current'[QueueOf(m)] = current[QueueOf(m)]
      BY <2>3, MineIsMessage
    <3>2. \A i \in Actions(m) : Untried(m, i)' => Untried(m, i)
      BY <1>7, <3>1 DEF Untried, InWork, NextAction
    <3> QED BY <1>3, <2>3, <3>2, RunsUnaffected
  <2>4. CASE QueueOf(m) \in qs /\ ~InWork(m)
    <3>1. ~InWork(m)'
      BY <2>4 DEF InWork
    <3>2. \A i \in Actions(m) : Untried(m, i)' => Untried(m, i)
      BY <1>7, <2>4, <3>1 DEF Untried
    <3> QED BY <1>3, <2>4, <3>2, RunsUnaffected
  <2> QED BY <2>2, <2>3, <2>4
<1> QED BY <1>2, <1>3, <1>4, <1>5, <1>6, <1>7, <1>8

\* More losses never make an answered batch unsound.
LEMMA RepliesAfterLoss ==
    ASSUME IInv, NEW m \in Message, Settled(m)' <=> Settled(m),
           losses[m] \in Nat, losses'[m] \in Nat, losses'[m] >= losses[m],
           UNCHANGED <<handled, dropped>>, replies'[m] = replies[m]
    PROVE  RepliedTo(m)'
<1>1. RepliedTo(m) /\ Len(replies[m]) \in Nat /\ \A i \in Actions(m) : handled[m][i] \in Nat
  <2>1. replies[m] \in Seq(Replies)
    BY DEF IInv, TypeOK, Replies
  <2> QED BY <2>1, LenProperties DEF IInv, Replied, TypeOK
<1> QED BY <1>1 DEF RepliedTo, TrueAnswer, Deliveries

\* What an answer that goes out before a loss may be.
LEMMA LostAnswers ==
    ASSUME IInv, NEW q \in Queue, AckLost(q)
    PROVE  \E m \in Message :
              /\ m = current[q].msg /\ current[q] # Null
              /\ QueueOf(m) = q /\ InWork(m) /\ ~Settled(m)
              /\ RepliedTo(m) /\ losses[m] \in Nat
              /\ Len(replies[m]) \in Nat /\ Len(replies[m]) <= losses[m]
              /\ \/ UNCHANGED replies
                 \/ \E a \in Replies :
                       /\ TrueAnswer(m, a) /\ Reply(m, a)
                       /\ a = BlockedReply => current[q].step = "validate"
<1>1. current[q] # Null
  BY DEF AckLost, Ready, At
<1>2. PICK m \in Message : m = current[q].msg
  BY <1>1, InHandIsNew, MineIsMessage
<1>3. InWork(m) /\ ~Settled(m) /\ QueueOf(m) = q
  BY <1>1, <1>2, InHandIsNew, MineIsMessage
<1>4. RepliedTo(m) /\ losses[m] \in Nat /\ replies[m] \in Seq(Replies)
  BY DEF IInv, Replied, TypeOK, Replies
<1>5. Len(replies[m]) \in Nat /\ Len(replies[m]) <= losses[m]
  BY <1>3, <1>4, LenProperties DEF RepliedTo
<1>6. CASE Ready(q) /\ q = "sync" /\ Reply(m, current[q].results)
  <2>1. PICK a : a = current[q].results
    OBVIOUS
  <2>2. a \in Replies /\ a # BlockedReply /\ TrueAnswer(m, a)
    BY <1>2, <1>6, <2>1, ResultsAreTrue
  <2> QED BY <1>1, <1>2, <1>3, <1>4, <1>5, <1>6, <2>1, <2>2
<1>7. CASE At(q, "validate") /\ Reply(m, BlockedReply)
  <2>1. BlockedReply \in Replies /\ TrueAnswer(m, BlockedReply)
    BY DEF BlockedReply, Replies, TrueAnswer
  <2> QED BY <1>1, <1>2, <1>3, <1>4, <1>5, <1>7, <2>1 DEF At
<1>8. CASE UNCHANGED replies
  BY <1>1, <1>2, <1>3, <1>4, <1>5, <1>8
<1> QED BY <1>2, <1>6, <1>7, <1>8 DEF AckLost

LEMMA AckLostPreserves ==
    ASSUME IInv, NEW q \in Queue, AckLost(q)
    PROVE  IInv'
<1>1. /\ Redelivered({q})
      /\ UNCHANGED <<sent, settled, handled, dropped>>
      /\ queue' = [queue EXCEPT ![q] = GiveBack(q)]
      /\ current' = [current EXCEPT ![q] = Null]
  BY DEF AckLost
<1>2. /\ queue' = [p \in Queue |-> IF p \in {q} THEN GiveBack(p) ELSE queue[p]]
      /\ current' = [p \in Queue |-> IF p \in {q} THEN Null ELSE current[p]]
  BY <1>1 DEF IInv, TypeOK
<1>3. PICK m \in Message :
         /\ m = current[q].msg /\ current[q] # Null
         /\ QueueOf(m) = q /\ InWork(m) /\ ~Settled(m)
         /\ RepliedTo(m) /\ losses[m] \in Nat
         /\ Len(replies[m]) \in Nat /\ Len(replies[m]) <= losses[m]
         /\ \/ UNCHANGED replies
            \/ \E a \in Replies :
                  /\ TrueAnswer(m, a) /\ Reply(m, a)
                  /\ a = BlockedReply => current[q].step = "validate"
  BY LostAnswers
<1>4. CASE UNCHANGED replies
  <2>1. /\ queue' \in [Queue -> Seq(Message)]
        /\ current' \in [Queue -> Working \cup {Null}]
        /\ losses' \in [Message -> Nat]
        /\ Queues' /\ Steps' /\ Runs'
        /\ \A n \in Message :
              /\ Settled(n)' <=> Settled(n)
              /\ losses[n] \in Nat
              /\ losses'[n] = IF InWork(n) /\ QueueOf(n) \in {q}
                              THEN losses[n] + 1 ELSE losses[n]
    BY <1>1, <1>2, <1>4, GiveBackKeeps, SameAnswers
  <2>2. TypeOK'
    BY <1>1, <1>4, <2>1 DEF IInv, TypeOK
  <2>3. ASSUME NEW n \in Message PROVE RepliedTo(n)'
    <3>1. losses'[n] \in Nat /\ losses'[n] >= losses[n]
      BY <2>1
    <3> QED BY <1>1, <1>4, <2>1, <3>1, RepliesAfterLoss
  <2> QED BY <2>1, <2>2, <2>3 DEF IInv, Replied
<1>5. ASSUME NEW a \in Replies, TrueAnswer(m, a), Reply(m, a),
             a = BlockedReply => current[q].step = "validate"
      PROVE  IInv'
  <2>1. /\ replies' \in [Message -> Seq(Replies)]
        /\ \A n \in Message \ {m} : replies'[n] = replies[n]
        /\ Len(replies'[m]) = Len(replies[m]) + 1
        /\ \A k \in DOMAIN replies'[m] :
              \/ replies'[m][k] = a
              \/ k \in DOMAIN replies[m] /\ replies'[m][k] = replies[m][k]
        /\ TimesBlocked(m)' = IF a = BlockedReply THEN TimesBlocked(m) + 1
                              ELSE TimesBlocked(m)
    BY <1>5, OneMoreAnswer
  <2>2. ASSUME NEW n \in Message
        PROVE  \/ TimesBlocked(n)' = TimesBlocked(n)
               \/ /\ InWork(n) /\ QueueOf(n) \in {q}
                  /\ current[QueueOf(n)].step = "validate"
                  /\ TimesBlocked(n)' = TimesBlocked(n) + 1
    BY <1>3, <1>5, <2>1, SameAnswers
  <2>3. /\ queue' \in [Queue -> Seq(Message)]
        /\ current' \in [Queue -> Working \cup {Null}]
        /\ losses' \in [Message -> Nat]
        /\ Queues' /\ Steps' /\ Runs'
        /\ \A n \in Message :
              /\ Settled(n)' <=> Settled(n)
              /\ losses[n] \in Nat
              /\ losses'[n] = IF InWork(n) /\ QueueOf(n) \in {q}
                              THEN losses[n] + 1 ELSE losses[n]
    BY <1>1, <1>2, <2>2, GiveBackKeeps
  <2>4. TypeOK'
    BY <1>1, <2>1, <2>3 DEF IInv, TypeOK, Replies
  <2>5. (\A k \in DOMAIN replies[m] : TrueAnswer(m, replies[m][k]))'
    <3>1. \A k \in DOMAIN replies[m] : TrueAnswer(m, replies[m][k])
      BY <1>3 DEF RepliedTo
    <3> QED BY <1>1, <1>5, <2>1, <3>1 DEF TrueAnswer
  <2>6. ~Settled(m)' /\ losses'[m] = losses[m] + 1
    BY <1>3, <2>3
  <2>7. RepliedTo(m)'
    BY <1>3, <2>1, <2>5, <2>6 DEF RepliedTo
  <2>8. ASSUME NEW n \in Message, n # m PROVE RepliedTo(n)'
    <3>1. losses'[n] \in Nat /\ losses'[n] >= losses[n]
      BY <2>3
    <3> QED BY <1>1, <2>1, <2>3, <2>8, <3>1, RepliesAfterLoss
  <2> QED BY <2>3, <2>4, <2>7, <2>8 DEF IInv, Replied
<1> QED BY <1>3, <1>4, <1>5

LEMMA RestartPreserves == ASSUME IInv, Restart PROVE IInv'
<1>1. /\ Redelivered(Queue)
      /\ UNCHANGED <<sent, settled, handled, dropped, replies>>
      /\ queue' = [p \in Queue |-> IF p \in Queue THEN GiveBack(p) ELSE queue[p]]
      /\ current' = [p \in Queue |-> IF p \in Queue THEN Null ELSE current[p]]
  BY DEF Restart
<1>2. /\ queue' \in [Queue -> Seq(Message)]
      /\ current' \in [Queue -> Working \cup {Null}]
      /\ losses' \in [Message -> Nat]
      /\ Queues' /\ Steps' /\ Runs'
      /\ \A n \in Message :
            /\ Settled(n)' <=> Settled(n)
            /\ losses[n] \in Nat
            /\ losses'[n] = IF InWork(n) /\ QueueOf(n) \in Queue
                            THEN losses[n] + 1 ELSE losses[n]
  BY <1>1, GiveBackKeeps, SameAnswers
<1>3. TypeOK'
  BY <1>1, <1>2 DEF IInv, TypeOK
<1>4. ASSUME NEW n \in Message PROVE RepliedTo(n)'
  <2>1. losses'[n] \in Nat /\ losses'[n] >= losses[n]
    BY <1>2
  <2> QED BY <1>1, <1>2, <2>1, RepliesAfterLoss
<1> QED BY <1>2, <1>3, <1>4 DEF IInv, Replied

-----------------------------------------------------------------------------
(* Every step, and the theorems *)

LEMMA Inductive == IInv /\ [Next]_vars => IInv'
<1> SUFFICES ASSUME IInv, [Next]_vars PROVE IInv' OBVIOUS
<1>1. CASE \E m \in Message : Publish(m)
  BY <1>1, PublishPreserves
<1>2. CASE \E q \in Queue : Consume(q) \/ AckLost(q)
  BY <1>2, DeliverPreserves, BlockedPreserves, UndecodablePreserves, AcceptPreserves,
     HandleActionPreserves, RefuseActionPreserves, AnswerPreserves,
     EncryptFailsPreserves, AckLostPreserves DEF Consume
<1>3. CASE Restart
  BY <1>3, RestartPreserves
<1>4. CASE UNCHANGED vars
  <2> USE <1>4 DEF vars
  <2>1. TypeOK'
    BY DEF IInv, TypeOK
  <2>2. Queues' /\ Steps'
    BY DEF IInv, Queues, InHand, Steps, StepIsSound
  <2>3. ASSUME NEW m \in Message PROVE RunsOf(m)' /\ RepliedTo(m)'
    <3>1. Settled(m)' <=> Settled(m)
      BY DEF Settled
    <3>2. \A i \in Actions(m) : Untried(m, i)' => Untried(m, i)
      BY <3>1 DEF Untried, InWork, NextAction
    <3> QED BY <3>1, <3>2, RunsUnaffected, RepliesUnaffected, SameAnswers
  <2> QED BY <2>1, <2>2, <2>3 DEF IInv, Runs, Replied
<1> QED BY <1>1, <1>2, <1>3, <1>4 DEF Next

\* The inductive invariant.
THEOREM IInvHolds == Spec => []IInv
<1> QED BY Initially, Inductive, PTL DEF Spec

\* Whatever is rejected, lost or restarted, a queue's batches are settled, in
\* work or waiting in the order they were published in.
THEOREM NothingIsLost == Spec => []Conserved
<1>1. IInv => Conserved
  BY InvariantSuffices
<1> QED BY <1>1, IInvHolds, PTL

\* No action runs more often than its batch was delivered.
THEOREM RunsPerDelivery == Spec => []HandledPerDelivery
<1>1. IInv => HandledPerDelivery
  BY InvariantSuffices
<1> QED BY <1>1, IInvHolds, PTL

\* An answer has a result for every action, and "ok" only for those handled.
THEOREM TrueAnswers == Spec => []AnswersAreTrue
<1>1. IInv => AnswersAreTrue
  BY InvariantSuffices
<1> QED BY <1>1, IInvHolds, PTL

\* A settled sync batch is answered, unless its answer could not be encrypted.
THEOREM SyncIsAnswered == Spec => []Answered
<1>1. IInv => Answered
  BY InvariantSuffices
<1> QED BY <1>1, IInvHolds, PTL
=============================================================================
