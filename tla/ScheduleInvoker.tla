---------------------------- MODULE ScheduleInvoker ----------------------------
(***************************************************************************)
(* ScheduleProcessorInvoker: the operations page starts a schedule by hand.*)
(* A request is refused while the executor has an active thread; otherwise *)
(* the task is submitted.  The check and the submission are two steps, and *)
(* the executor (a ThreadPoolExecutor of one thread with an unbounded      *)
(* queue) counts a thread as active only between taking a task and ending  *)
(* it.                                                                     *)
(***************************************************************************)
EXTENDS Sequences, Integers, FiniteSets

CONSTANTS
    Request,   \* requests of the page, each served by a thread of its own
    Null       \* no task, or no operation

ASSUME NullIsNoRequest == Null \notin Request

\* What the parameter "restart" may name: an operation, or nothing known.
Operation == {"MOCK", Null}

VARIABLES
    pc,        \* pc[r]: what request r does next, or how it was answered
    queue,     \* tasks waiting in the executor, each the request that made it
    worker,    \* "none", "starting", "waiting" or "active"
    task,      \* the task the worker was made for or executes, or Null
    done       \* the requests whose task has been executed

vars == <<pc, queue, worker, task, done>>

Init ==
    /\ pc = [r \in Request |-> "new"]
    /\ queue = <<>>
    /\ worker = "none"
    /\ task = Null
    /\ done = {}

\* getActiveCount
ActiveCount == IF worker = "active" THEN 1 ELSE 0

Answer(r, reply) == pc' = [pc EXCEPT ![r] = reply]

\* invoke up to the switch.
Invoke(r) ==
    /\ pc[r] = "new"
    /\ \E operation \in Operation :
          Answer(r, IF operation = Null THEN "unknown"
                    ELSE IF ActiveCount # 0 THEN "refused"
                    ELSE "submit")
    /\ UNCHANGED <<queue, worker, task, done>>

\* Mutant of Submit: a task for the one thread that is busy is dropped.
SubmitOrDrop(r) ==
    /\ pc[r] = "submit"
    /\ IF worker = "none"
       THEN /\ worker' = "starting"
            /\ task' = r
       ELSE UNCHANGED <<worker, task>>
    /\ Answer(r, "accepted")
    /\ UNCHANGED <<queue, done>>

\* Mutant of Submit: the task runs in the thread of the request.
RunHere(r) ==
    /\ pc[r] = "submit"
    /\ task' = r
    /\ worker' = "active"
    /\ Answer(r, "accepted")
    /\ UNCHANGED <<queue, done>>

\* callExecutor.execute: the first task makes the thread, the others queue.
Submit(r) ==
    /\ pc[r] = "submit"
    /\ IF worker = "none"
       THEN /\ worker' = "starting"
            /\ task' = r
            /\ UNCHANGED queue
       ELSE /\ queue' = Append(queue, r)
            /\ UNCHANGED <<worker, task>>
    /\ Answer(r, "accepted")
    /\ UNCHANGED done

\* The new thread locks itself and starts its first task.
StartWorker ==
    /\ worker = "starting"
    /\ worker' = "active"
    /\ UNCHANGED <<pc, queue, task, done>>

\* The idle thread takes a task and locks itself.
TakeTask ==
    /\ worker = "waiting"
    /\ queue # <<>>
    /\ worker' = "active"
    /\ task' = Head(queue)
    /\ queue' = Tail(queue)
    /\ UNCHANGED <<pc, done>>

\* The task ends and the thread unlocks itself.
EndTask ==
    /\ worker = "active"
    /\ worker' = "waiting"
    /\ task' = Null
    /\ done' = done \cup {task}
    /\ UNCHANGED <<pc, queue>>

WorkerStep == StartWorker \/ TakeTask \/ EndTask

Next == WorkerStep \/ \E r \in Request : Invoke(r) \/ Submit(r)

\* The executor's thread is scheduled and its tasks end; a request thread that
\* has been started comes to its end.
Fairness == WF_vars(WorkerStep) /\ \A r \in Request : WF_vars(Submit(r))

Spec == Init /\ [][Next]_vars /\ Fairness

-----------------------------------------------------------------------------
(* Properties *)

Accepted == {r \in Request : pc[r] = "accepted"}
Queued   == {queue[k] : k \in DOMAIN queue}
Held     == IF task = Null THEN {} ELSE {task}

TypeOK ==
    /\ pc \in [Request -> {"new", "unknown", "refused", "submit", "accepted"}]
    /\ queue \in Seq(Request)
    /\ worker \in {"none", "starting", "waiting", "active"}
    /\ task \in Request \cup {Null}
    /\ done \subseteq Request
    /\ worker \in {"starting", "active"} <=> task # Null

\* "ONLY ONE SCHEDULER PER TIME CAN BE EXECUTED VIA THIS POINT": every accepted
\* task is in exactly one place - waiting, executing or executed - so tasks
\* whose requests overtook the check still run one after the other, once.
TasksInOnePlace ==
    /\ TypeOK
    /\ Accepted = Queued \cup Held \cup done
    /\ Queued \cap Held = {} /\ (Queued \cup Held) \cap done = {}
    /\ Len(queue) = Cardinality(Queued)

\* The page says "submitted to executor" only of tasks that will be executed.
AcceptedIsExecuted == \A r \in Request : pc[r] = "accepted" ~> r \in done
=============================================================================
