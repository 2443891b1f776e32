------------------------------ MODULE SdkListener ------------------------------
(***************************************************************************)
(* RabbitMqM3SdkListener: the two queues through which the Maestro server  *)
(* sends batches of actions to the private agent.  Each queue has one      *)
(* consumer; a batch is validated and decrypted, its actions are handled   *)
(* one after another, and a batch from the sync queue is answered.         *)
(*                                                                         *)
(* The broker and the listener container are modelled as this repository   *)
(* configures them: durable queues, one consumer each, acknowledgement     *)
(* after the listener returns (AUTO), rejection without requeueing when it *)
(* throws, redelivery of what was not acknowledged when the process or its *)
(* connection goes away.                                                   *)
(***************************************************************************)
EXTENDS Sequences, FiniteSets, Integers

CONSTANTS
    SyncMessage,   \* batches sent to the sync queue
    AsyncMessage,  \* batches sent to the async queue
    ActionCount,   \* ActionCount[m]: the number of actions in batch m
    MaxLosses,     \* bound on the redeliveries of one batch
    Null

Message == SyncMessage \cup AsyncMessage
Queue   == {"sync", "async"}
Actions(m) == 1..ActionCount[m]

ASSUME QueuesAreSeparate == SyncMessage \cap AsyncMessage = {} /\ Null \notin Message

Result == {"ok", "error"}

\* A batch in the hands of a consumer.
Working == [msg: Message, step: {"validate", "handle", "answer"},
            results: Seq(Result \cup {"failed"})]

ASSUME NullIsNoWork == Null \notin Working

ASSUME BoundsAreNaturals == ActionCount \in [Message -> Nat] /\ MaxLosses \in Nat

VARIABLES
    sent,        \* sent[q]: the batches published to queue q, in order
    queue,       \* queue[q]: those the broker still has to deliver
    current,     \* current[q]: the batch the consumer of q works on, or Null
    settled,     \* settled[q]: the batches acknowledged or rejected, in order
    handled,     \* handled[m][i]: how often the handler of action i of m ran
    dropped,     \* batches rejected because encrypting the answer failed
    replies,     \* replies[m]: the answers sent to m, in order
    losses       \* losses[m]: how often m was given back to the broker

vars == <<sent, queue, current, settled, handled, dropped, replies, losses>>

QueueOf(m) == IF m \in SyncMessage THEN "sync" ELSE "async"

Elements(s) == {s[i] : i \in DOMAIN s}

\* M3BatchResult: the results of the actions in order, or one error for the
\* batch.  The blocked one is not encrypted, for nobody was authenticated.
BlockedReply == <<"blocked">>
FailedReply  == <<"failed">>

\* A consumer validates its batch, handles its actions, and answers.
Work(m, step, results) == [msg |-> m, step |-> step, results |-> results]

Init ==
    /\ sent = [q \in Queue |-> <<>>]
    /\ queue = [q \in Queue |-> <<>>]
    /\ current = [q \in Queue |-> Null]
    /\ settled = [q \in Queue |-> <<>>]
    /\ handled = [m \in Message |-> [i \in Actions(m) |-> 0]]
    /\ dropped = {}
    /\ replies = [m \in Message |-> <<>>]
    /\ losses = [m \in Message |-> 0]

\* The Maestro server publishes a batch.
Publish(m) ==
    LET q == QueueOf(m)
    IN  /\ m \notin Elements(sent[q])
        /\ sent' = [sent EXCEPT ![q] = Append(@, m)]
        /\ queue' = [queue EXCEPT ![q] = Append(@, m)]
        /\ UNCHANGED <<current, settled, handled, dropped, replies, losses>>

-----------------------------------------------------------------------------
(* The consumer of queue q *)

At(q, step) == current[q] # Null /\ current[q].step = step

Deliver(q) ==
    /\ current[q] = Null
    /\ queue[q] # <<>>
    /\ current' = [current EXCEPT ![q] = Work(Head(queue[q]), "validate", <<>>)]
    /\ queue' = [queue EXCEPT ![q] = Tail(@)]
    /\ UNCHANGED <<sent, settled, handled, dropped, replies, losses>>

\* The consumer is done with its batch: the broker forgets it.
Settle(q) ==
    /\ settled' = [settled EXCEPT ![q] = Append(@, current[q].msg)]
    /\ current' = [current EXCEPT ![q] = Null]

Reply(m, answer) == replies' = [replies EXCEPT ![m] = Append(@, answer)]

\* AuthException: the answer goes out as it is, from the async queue too if the
\* batch names an address for it; without one the container rejects the batch.
Blocked(q) ==
    /\ At(q, "validate")
    /\ Settle(q)
    /\ \/ Reply(current[q].msg, BlockedReply)
       \/ q = "async" /\ UNCHANGED replies
    /\ UNCHANGED <<sent, queue, handled, dropped, losses>>

\* Any other exception while the batch is validated and decrypted.
Undecodable(q) ==
    /\ At(q, "validate")
    /\ current' = [current EXCEPT ![q].step = "answer", ![q].results = FailedReply]
    /\ UNCHANGED <<sent, queue, settled, handled, dropped, replies, losses>>

Accept(q) ==
    /\ At(q, "validate")
    /\ current' = [current EXCEPT ![q].step = "handle"]
    /\ UNCHANGED <<sent, queue, settled, handled, dropped, replies, losses>>

\* The action getM3ApiResult is called with next.
NextAction(q) == Len(current[q].results) + 1

Unfinished(q) == At(q, "handle") /\ NextAction(q) \in Actions(current[q].msg)

AddResult(q, r) == current' = [current EXCEPT ![q].results = Append(@, r)]

\* The handler runs, and returns a result or throws.
HandleAction(q) ==
    /\ Unfinished(q)
    /\ handled' = [handled EXCEPT ![current[q].msg][NextAction(q)] = @ + 1]
    /\ \E r \in {"ok", "error"} : AddResult(q, r)
    /\ UNCHANGED <<sent, queue, settled, dropped, replies, losses>>

\* Mutant of RefuseAction: an action without a handler is reported done.
ReportDone(q) ==
    /\ Unfinished(q)
    /\ AddResult(q, "ok")
    /\ UNCHANGED <<sent, queue, settled, handled, dropped, replies, losses>>

\* Its parameters cannot be read, its region is unknown, or no handler
\* supports it.
RefuseAction(q) ==
    /\ Unfinished(q)
    /\ AddResult(q, "error")
    /\ UNCHANGED <<sent, queue, settled, handled, dropped, replies, losses>>

Ready(q) == At(q, "answer") \/ (At(q, "handle") /\ ~Unfinished(q))

\* Mutant of Answer: the test for the async queue is the wrong way round.
AnswerAsync(q) ==
    /\ Ready(q)
    /\ Settle(q)
    /\ IF q = "sync" THEN UNCHANGED replies
                     ELSE Reply(current[q].msg, current[q].results)
    /\ UNCHANGED <<sent, queue, handled, dropped, losses>>

\* Only a batch from the sync queue gets its results back.
Answer(q) ==
    /\ Ready(q)
    /\ Settle(q)
    /\ IF q = "async" THEN UNCHANGED replies
                      ELSE Reply(current[q].msg, current[q].results)
    /\ UNCHANGED <<sent, queue, handled, dropped, losses>>

\* Mutant of EncryptFails: a rejected batch is requeued, as by default.
RequeueRejected(q) ==
    /\ Ready(q)
    /\ q = "sync"
    /\ queue' = [queue EXCEPT ![q] = <<current[q].msg>> \o @]
    /\ current' = [current EXCEPT ![q] = Null]
    /\ UNCHANGED <<sent, settled, handled, dropped, replies, losses>>

\* signer.encrypt throws outside the try block: the container rejects the
\* batch, whose actions were handled, and nobody is answered.
EncryptFails(q) ==
    /\ Ready(q)
    /\ q = "sync"
    /\ Settle(q)
    /\ dropped' = dropped \cup {current[q].msg}
    /\ UNCHANGED <<sent, queue, handled, replies, losses>>

-----------------------------------------------------------------------------
(* Losses *)

MayLose(q) == current[q] # Null => losses[current[q].msg] < MaxLosses

InHand(q) == IF current[q] = Null THEN <<>> ELSE <<current[q].msg>>

\* Mutants of GiveBack: what was not acknowledged goes to the end of the queue;
\* it was acknowledged on delivery (AcknowledgeMode.NONE).
GiveBackLast(q) == queue[q] \o InHand(q)
Forget(q) == queue[q]

\* The broker puts a batch that was not acknowledged back where it was.
GiveBack(q) == InHand(q) \o queue[q]

Redelivered(qs) ==
    losses' = [m \in Message |->
                  IF \E q \in qs : current[q] # Null /\ current[q].msg = m
                  THEN losses[m] + 1 ELSE losses[m]]

\* The connection is gone when the listener returns: the answer, of whichever
\* kind, may have been sent, the acknowledgement was not.
AckLost(q) ==
    /\ MayLose(q)
    /\ Ready(q) \/ At(q, "validate")
    /\ queue' = [queue EXCEPT ![q] = GiveBack(q)]
    /\ current' = [current EXCEPT ![q] = Null]
    /\ \/ UNCHANGED replies
       \/ Ready(q) /\ q = "sync" /\ Reply(current[q].msg, current[q].results)
       \/ At(q, "validate") /\ Reply(current[q].msg, BlockedReply)
    /\ Redelivered({q})
    /\ UNCHANGED <<sent, settled, handled, dropped>>

\* The process dies at any point of its work.
Restart ==
    /\ \E q \in Queue : current[q] # Null
    /\ \A q \in Queue : MayLose(q)
    /\ queue' = [q \in Queue |-> GiveBack(q)]
    /\ current' = [q \in Queue |-> Null]
    /\ Redelivered(Queue)
    /\ UNCHANGED <<sent, settled, handled, dropped, replies>>

Consume(q) ==
    \/ Deliver(q) \/ Blocked(q) \/ Undecodable(q) \/ Accept(q)
    \/ HandleAction(q) \/ RefuseAction(q) \/ Answer(q) \/ EncryptFails(q)

Next ==
    \/ \E m \in Message : Publish(m)
    \/ \E q \in Queue : Consume(q) \/ AckLost(q)
    \/ Restart

Spec == Init /\ [][Next]_vars

\* The container's consumer threads run as long as the process does.
FairSpec == Spec /\ \A q \in Queue : WF_vars(Consume(q))

-----------------------------------------------------------------------------
(* Properties *)

TypeOK ==
    /\ sent \in [Queue -> Seq(Message)]
    /\ queue \in [Queue -> Seq(Message)]
    /\ current \in [Queue -> Working \cup {Null}]
    /\ settled \in [Queue -> Seq(Message)]
    /\ DOMAIN handled = Message
    /\ \A m \in Message : handled[m] \in [Actions(m) -> Nat]
    /\ dropped \subseteq Message
    /\ replies \in [Message -> Seq(Seq(Result \cup {"failed", "blocked"}))]
    /\ losses \in [Message -> Nat]

\* The batches of a queue are settled in the order they were published in,
\* and every one of them is settled, in work or waiting: none is lost, skipped
\* or overtaken, whatever is rejected, redelivered or handled twice.
Conserved ==
    /\ TypeOK
    /\ \A q \in Queue : sent[q] = settled[q] \o InHand(q) \o queue[q]

\* A batch is handled again only because it was redelivered: no action runs
\* more often than its batch was delivered, and what is not yet the turn of
\* the present delivery has run at most once per earlier one.
Deliveries(m) == 1 + losses[m]

Pending(m, i) ==
    \/ m \notin Elements(settled[QueueOf(m)]) /\ current[QueueOf(m)] = Null
    \/ /\ current[QueueOf(m)] # Null
       /\ current[QueueOf(m)].msg = m
       /\ \/ current[QueueOf(m)].step = "validate"
          \/ current[QueueOf(m)].step = "handle" /\ i >= NextAction(QueueOf(m))

HandledPerDelivery ==
    \A m \in Message : \A i \in Actions(m) :
        handled[m][i] <= IF Pending(m, i) THEN losses[m] ELSE Deliveries(m)

\* An answer with results has one for every action, in order, and says "ok"
\* only of actions that were handled: one that fails or has no handler neither
\* ends the batch nor shifts the results of the others.  The results of an
\* async batch go nowhere, and each "blocked" stands for a delivery of its own
\* that ran none of the actions.
TrueAnswer(m, answer) ==
    /\ m \in AsyncMessage => answer = BlockedReply
    /\ \/ answer \in {BlockedReply, FailedReply}
       \/ /\ Len(answer) = ActionCount[m]
          /\ \A i \in Actions(m) : answer[i] = "ok" => handled[m][i] > 0

TimesBlocked(m) == Cardinality({k \in DOMAIN replies[m] : replies[m][k] = BlockedReply})

AnswersAreTrue ==
    \A m \in Message :
        /\ \A k \in DOMAIN replies[m] : TrueAnswer(m, replies[m][k])
        /\ \A i \in Actions(m) : handled[m][i] + TimesBlocked(m) <= Deliveries(m)

\* A sync batch that is done with has been answered, unless the answer could
\* not be encrypted; it is answered at most once per delivery.
Answered ==
    \A m \in SyncMessage :
        /\ m \in Elements(settled["sync"]) \ dropped => replies[m] # <<>>
        /\ Len(replies[m]) <= Deliveries(m)

\* Every batch that is published is eventually acknowledged or rejected, when
\* the process and its connection fail finitely often.
EverySettled ==
    \A m \in Message :
        m \in Elements(sent[QueueOf(m)]) ~> m \in Elements(settled[QueueOf(m)])
=============================================================================
