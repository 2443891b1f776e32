------------------------- MODULE ScheduleInvokerProofs -------------------------
(***************************************************************************)
(* Theorems about ScheduleInvoker, for any set of requests.  A request is  *)
(* accepted once, so no task is in the queue twice (Distinct): with that,  *)
(* where a task is - waiting, executing or executed - is inductive, and    *)
(* the length of the queue is the number of tasks that wait.               *)
(***************************************************************************)
EXTENDS ScheduleInvoker, TLAPS, FiniteSetTheorems, SequenceTheorems

USE NullIsNoRequest

Elts(q) == {q[k] : k \in DOMAIN q}

Distinct(q) == \A i, j \in DOMAIN q : q[i] = q[j] => i = j

OnePlace ==
    /\ Accepted = Queued \cup Held \cup done
    /\ Queued \cap Held = {}
    /\ (Queued \cup Held) \cap done = {}

IInv == TypeOK /\ OnePlace /\ Distinct(queue)

\* A sequence without repetition is as long as the set of its elements is large.
LEMMA LengthIsCardinality ==
    ASSUME NEW S, NEW q \in Seq(S), Distinct(q)
    PROVE  Len(q) = Cardinality(Elts(q))
<1>1. DOMAIN q = 1..Len(q) /\ Len(q) \in Nat
  BY LenProperties
<1>2. q \in Bijection(1..Len(q), Elts(q))
  BY <1>1 DEF Distinct, Elts, Bijection, Injection, Surjection, IsInjective
<1>3. ExistsBijection(1..Len(q), Elts(q))
  BY <1>2 DEF ExistsBijection
<1>4. IsFiniteSet(1..Len(q)) /\ Cardinality(1..Len(q)) = Len(q)
  BY <1>1, FS_Interval
<1> QED BY <1>3, <1>4, FS_Bijection

\* What a new element at the end changes.
LEMMA AppendOne ==
    ASSUME NEW S, NEW q \in Seq(S), NEW r \in S
    PROVE  /\ Append(q, r) \in Seq(S)
           /\ Elts(Append(q, r)) = Elts(q) \cup {r}
           /\ Distinct(q) /\ r \notin Elts(q) => Distinct(Append(q, r))
<1>1. /\ Append(q, r) \in Seq(S)
      /\ Len(q) \in Nat /\ DOMAIN q = 1..Len(q)
      /\ DOMAIN Append(q, r) = 1..(Len(q) + 1)
      /\ \A i \in 1..Len(q) : Append(q, r)[i] = q[i]
      /\ Append(q, r)[Len(q) + 1] = r
  BY AppendProperties, LenProperties
<1>2. 1..(Len(q) + 1) = (1..Len(q)) \cup {Len(q) + 1} /\ Len(q) + 1 \notin 1..Len(q)
  BY <1>1
<1>3. Elts(Append(q, r)) = Elts(q) \cup {r}
  BY <1>1, <1>2 DEF Elts
<1>4. ASSUME Distinct(q), r \notin Elts(q) PROVE Distinct(Append(q, r))
  BY <1>1, <1>2, <1>4 DEF Elts, Distinct
<1> QED BY <1>1, <1>3, <1>4

\* Taking the first element.
LEMMA TakeOne ==
    ASSUME NEW S, NEW q \in Seq(S), q # <<>>, Distinct(q)
    PROVE  /\ Head(q) \in S
           /\ Tail(q) \in Seq(S)
           /\ Elts(q) = Elts(Tail(q)) \cup {Head(q)}
           /\ Head(q) \notin Elts(Tail(q))
           /\ Distinct(Tail(q))
<1>1. /\ Len(q) \in Nat /\ Len(q) >= 1 /\ DOMAIN q = 1..Len(q)
      /\ Head(q) = q[1] /\ Head(q) \in S
      /\ Tail(q) \in Seq(S)
      /\ DOMAIN Tail(q) = 1..(Len(q) - 1)
      /\ \A i \in 1..(Len(q) - 1) : Tail(q)[i] = q[i + 1]
  BY HeadTailProperties, LenProperties, EmptySeq
<1>2. \A i \in 1..(Len(q) - 1) : i + 1 \in 1..Len(q) /\ i + 1 # 1
  BY <1>1
<1>3. \A i \in 1..Len(q) : i = 1 \/ (i - 1 \in 1..(Len(q) - 1) /\ (i - 1) + 1 = i)
  BY <1>1
<1>4. 1 \in 1..Len(q)
  BY <1>1
<1>5. Elts(q) \subseteq Elts(Tail(q)) \cup {Head(q)}
  <2> SUFFICES ASSUME NEW i \in 1..Len(q), i # 1
               PROVE  q[i] \in Elts(Tail(q))
    BY <1>1 DEF Elts
  <2>1. Tail(q)[i - 1] = q[i] /\ i - 1 \in DOMAIN Tail(q)
    BY <1>1, <1>3
  <2> QED BY <2>1 DEF Elts
<1>6. Elts(Tail(q)) \cup {Head(q)} \subseteq Elts(q)
  BY <1>1, <1>2, <1>4 DEF Elts
<1>7. Head(q) \notin Elts(Tail(q))
  BY <1>1, <1>2, <1>4 DEF Elts, Distinct
<1>8. Distinct(Tail(q))
  <2> SUFFICES ASSUME NEW i \in 1..(Len(q) - 1), NEW j \in 1..(Len(q) - 1),
                      Tail(q)[i] = Tail(q)[j]
               PROVE  i = j
    BY <1>1 DEF Distinct
  <2>1. q[i + 1] = q[j + 1]
    BY <1>1
  <2>2. i + 1 = j + 1
    BY <2>1, <1>1, <1>2 DEF Distinct
  <2> QED BY <2>2
<1> QED BY <1>1, <1>5, <1>6, <1>7, <1>8

LEMMA Initially == Init => IInv
<1> SUFFICES ASSUME Init PROVE IInv OBVIOUS
<1>1. TypeOK
  BY DEF Init, TypeOK
<1>2. DOMAIN queue = {}
  BY DEF Init
<1>3. Queued = {} /\ Distinct(queue)
  BY <1>2 DEF Queued, Distinct
<1>4. Held = {} /\ done = {} /\ Accepted = {}
  BY DEF Init, Held, Accepted
<1> QED BY <1>1, <1>3, <1>4 DEF IInv, OnePlace

\* An answer that accepts nothing leaves every task where it is.
LEMMA InvokePreserves ==
    ASSUME IInv, NEW r \in Request, Invoke(r)
    PROVE  IInv'
<1> USE DEF IInv, TypeOK, Invoke, Answer
<1>1. /\ pc' \in [Request -> {"new", "unknown", "refused", "submit", "accepted"}]
      /\ pc'[r] # "accepted" /\ pc[r] # "accepted"
      /\ \A s \in Request \ {r} : pc'[s] = pc[s]
  OBVIOUS
<1>2. Accepted' = Accepted
  BY <1>1 DEF Accepted
<1>3. TypeOK'
  BY <1>1
<1>4. Queued' = Queued /\ Held' = Held /\ Distinct(queue)'
  BY DEF Queued, Held, Distinct
<1> QED BY <1>2, <1>3, <1>4 DEF OnePlace

\* The accepted task is new everywhere: it becomes the worker's or the last.
LEMMA SubmitPreserves ==
    ASSUME IInv, NEW r \in Request, Submit(r)
    PROVE  IInv'
<1> USE DEF IInv, TypeOK
<1>1. /\ pc' \in [Request -> {"new", "unknown", "refused", "submit", "accepted"}]
      /\ pc[r] = "submit" /\ pc'[r] = "accepted" /\ done' = done
      /\ \A s \in Request \ {r} : pc'[s] = pc[s]
  BY DEF Submit, Answer
<1>2. Accepted' = Accepted \cup {r} /\ r \notin Accepted
  BY <1>1 DEF Accepted
<1>3. r \notin Queued /\ r \notin Held /\ r \notin done
  BY <1>2 DEF OnePlace
<1>4. CASE worker = "none"
  <2>1. task = Null /\ task' = r /\ worker' = "starting" /\ queue' = queue
    BY <1>4 DEF Submit
  <2>2. Held = {} /\ Held' = {r} /\ Queued' = Queued /\ Distinct(queue)'
    BY <2>1 DEF Held, Queued, Distinct
  <2>3. TypeOK'
    BY <1>1, <2>1
  <2> QED BY <1>1, <1>2, <1>3, <2>2, <2>3 DEF OnePlace
<1>5. CASE worker # "none"
  <2>1. queue' = Append(queue, r) /\ task' = task /\ worker' = worker
    BY <1>5 DEF Submit
  <2>2. queue' \in Seq(Request) /\ Queued' = Queued \cup {r} /\ Distinct(queue)'
    BY <1>3, <2>1, AppendOne DEF Elts, Queued, Distinct
  <2>3. Held' = Held
    BY <2>1 DEF Held
  <2>4. TypeOK'
    BY <1>1, <2>1, <2>2
  <2> QED BY <1>1, <1>2, <1>3, <2>2, <2>3, <2>4 DEF OnePlace
<1> QED BY <1>4, <1>5

LEMMA StartWorkerPreserves == ASSUME IInv, StartWorker PROVE IInv'
BY DEF IInv, StartWorker, TypeOK, OnePlace, Accepted, Queued, Held, Distinct

LEMMA TakeTaskPreserves == ASSUME IInv, TakeTask PROVE IInv'
<1> USE DEF IInv, TypeOK
<1>1. /\ task = Null /\ task' = Head(queue) /\ queue' = Tail(queue)
      /\ worker' = "active" /\ pc' = pc /\ done' = done
  BY DEF TakeTask
<1>2. /\ Head(queue) \in Request /\ queue' \in Seq(Request)
      /\ Queued = Queued' \cup {Head(queue)} /\ Head(queue) \notin Queued'
      /\ Distinct(queue)'
  <2>1. queue # <<>> /\ queue \in Seq(Request) /\ Distinct(queue)
    BY DEF TakeTask
  <2> HIDE DEF IInv, TypeOK
  <2>2. /\ Head(queue) \in Request /\ Tail(queue) \in Seq(Request)
        /\ Elts(queue) = Elts(Tail(queue)) \cup {Head(queue)}
        /\ Head(queue) \notin Elts(Tail(queue))
        /\ Distinct(Tail(queue))
    BY <2>1, TakeOne
  <2>3. Queued = Elts(queue) /\ Queued' = Elts(Tail(queue))
    BY <1>1 DEF Elts, Queued
  <2>4. Distinct(queue)' <=> Distinct(Tail(queue))
    BY <1>1 DEF Distinct
  <2> QED BY <1>1, <2>2, <2>3, <2>4
<1>3. Held = {} /\ Held' = {Head(queue)} /\ Accepted' = Accepted
  BY <1>1, <1>2 DEF Held, Accepted
<1>4. TypeOK'
  BY <1>1, <1>2
<1> QED BY <1>1, <1>2, <1>3, <1>4 DEF OnePlace

LEMMA EndTaskPreserves == ASSUME IInv, EndTask PROVE IInv'
<1> USE DEF IInv, TypeOK, EndTask
<1>1. Held = {task} /\ Held' = {} /\ task \in Request
  BY DEF Held
<1>2. Accepted' = Accepted /\ Queued' = Queued /\ Distinct(queue)'
  BY DEF Accepted, Queued, Distinct
<1>3. TypeOK'
  BY <1>1
<1> QED BY <1>1, <1>2, <1>3 DEF OnePlace

LEMMA Inductive == IInv /\ [Next]_vars => IInv'
<1> SUFFICES ASSUME IInv, [Next]_vars PROVE IInv' OBVIOUS
<1>1. CASE UNCHANGED vars
  BY <1>1 DEF vars, IInv, TypeOK, OnePlace, Accepted, Queued, Held, Distinct
<1>2. CASE WorkerStep
  BY <1>2, StartWorkerPreserves, TakeTaskPreserves, EndTaskPreserves DEF WorkerStep
<1>3. CASE \E r \in Request : Invoke(r) \/ Submit(r)
  BY <1>3, InvokePreserves, SubmitPreserves
<1> QED BY <1>1, <1>2, <1>3 DEF Next

\* The inductive invariant: every accepted task is in one place, once.
THEOREM IInvHolds == Spec => []IInv
<1> QED BY Initially, Inductive, PTL DEF Spec

\* Whatever requests overtake the check of the active count, each accepted task
\* waits, executes or has been executed, in exactly one of these places.
THEOREM TaskIsInOnePlace == Spec => []TasksInOnePlace
<1>1. IInv => TasksInOnePlace
  <2> SUFFICES ASSUME IInv PROVE TasksInOnePlace OBVIOUS
  <2>1. Len(queue) = Cardinality(Elts(queue))
    BY LengthIsCardinality DEF IInv, TypeOK
  <2>2. Queued = Elts(queue)
    BY DEF Queued, Elts
  <2> QED BY <2>1, <2>2 DEF TasksInOnePlace, IInv, OnePlace
<1> QED BY <1>1, IInvHolds, PTL
=============================================================================
