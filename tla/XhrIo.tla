--------------------------------- MODULE XhrIo ---------------------------------
(***************************************************************************)
(* goog.net.XhrIo of maestro-web.js: an object that sends one request after*)
(* another and reports each with events.  Its listeners are the            *)
(* application: they may call send, abort and dispose again from within an *)
(* event, or throw.  Outside, the network answers or does not, and timers  *)
(* fire, whenever no script runs.  The stack of what the running script    *)
(* still has to do is "todo" of ClosureEvents.                             *)
(*                                                                         *)
(* No script or page of the repository makes a goog.net.XhrIo: the library  *)
(* is vendored with the pages, and modelled as they would use it.          *)
(*                                                                         *)
(* inOpen_ and inAbort_ decide nothing (onReadyStateChange_ calls the same *)
(* helper either way) and are left out.  The XMLHttpRequest of the browser *)
(* is external: open reports ready state 1 at once; send reports the       *)
(* answer later, or at once when it is cached; abort is reported too, but  *)
(* only when active_ is off already; and it has withCredentials, which can *)
(* not be set once it was sent.                                            *)
(***************************************************************************)
EXTENDS ClosureEvents, FiniteSets

CONSTANTS Again,         \* the types a listener may listen to again
          MaxRequests,   \* bound: requests sent
          MaxEntries     \* bound: length of an array of listeners

ASSUME BoundsAssumption == MaxRequests \in Nat \ {0} /\ MaxEntries \in Nat

\* goog.net.EventType, with READY_STATE_CHANGE as "change".
EventTypes == {"change", "complete", "success", "error", "abort", "ready", "timeout"}

ASSUME TypesAssumption == EventTypes \subseteq Types /\ Again \subseteq Types

Requests == 1..MaxRequests
None == 0

VARIABLES xhr,        \* xhr_: the request, or None
          active,     \* active_
          inSend,     \* inSend_
          reported,   \* errorDispatched_
          timer,      \* the request whose timeout is pending, or None
          rechecks,   \* pending setTimeout(onReadyStateChange_, 0)
          state,      \* ready state of the XMLHttpRequest xhr_
          sent,       \* it was sent, and not aborted
          good,       \* its answer is a success
          disposed,   \* disposed_
          contexts,   \* goog.net.xhrMonitor: stack_
          blocked,    \* contextsToXhr_, xhrToContexts_: <<context, xhr>>
          throwing,   \* an exception is on its way up the stack
          thrown,     \* an exception has cut a script short since the start
          requests,   \* requests so far
          timed,      \* those sent while setTimeoutInterval had set an interval
          log         \* request -> the events that were dispatched about it

io == <<xhr, active, inSend, reported, timer>>
native == <<rechecks, state, sent, good>>
monitor == <<contexts, blocked>>
fault == <<throwing, thrown>>
history == <<requests, timed, log>>
vars == <<events, todo, io, native, disposed, monitor, fault, history>>

Init ==
    /\ InitEvents /\ todo = <<>>
    /\ xhr = None /\ active = FALSE /\ inSend = FALSE /\ reported = FALSE
    /\ timer = None /\ rechecks = 0
    /\ state = 0 /\ sent = FALSE /\ good = FALSE
    /\ disposed = FALSE
    /\ contexts = <<>> /\ blocked = {}
    /\ throwing = FALSE /\ thrown = FALSE
    /\ requests = 0 /\ timed = {} /\ log = [r \in Requests |-> <<>>]

Op(name) == [op |-> name]
Dispatch(t) == [op |-> "dispatch", type |-> t, req |-> xhr]
Ready(r) == [op |-> "dispatch", type |-> "ready", req |-> r]
Closed(r) == [op |-> "closed", req |-> r]

-----------------------------------------------------------------------------
(* goog.net.XhrMonitor_ *)

MarkOpen(r) == blocked \cup {<<contexts[i], r>> : i \in DOMAIN contexts}

\* Mutant: a closed request goes on blocking its contexts.
MarkKept(pairs, r) == pairs

MarkClosed(pairs, r) == {p \in pairs : p[2] # r}

\* popContext, with updateDependentContexts_ of the context it takes off.
Popped ==
    LET top == contexts[Len(contexts)]
    IN  blocked \cup {<<p[1], q[2]>> : p \in {x \in blocked : x[2] = top},
                                       q \in {x \in blocked : x[1] = top}}

-----------------------------------------------------------------------------
(* The calls of an application, from a listener or from anywhere else.  The *)
(* operators say what is put in front of "rest".                            *)

\* An exception leaves the functions that are running.
Throw(rest) ==
    /\ throwing' = TRUE
    /\ thrown' = TRUE
    /\ todo' = rest
    /\ UNCHANGED <<events, io, native, disposed, monitor, history>>

\* send, up to the call of open, which may throw.
Send(rest) ==
    IF xhr # None THEN Throw(rest)
    ELSE /\ requests < MaxRequests
         /\ requests' = requests + 1
         /\ xhr' = requests + 1
         /\ active' = TRUE
         /\ reported' = FALSE
         /\ state' = 1 /\ sent' = FALSE /\ good' = FALSE
         /\ blocked' = MarkOpen(requests + 1)
         /\ \/ todo' = <<Op("change"), Op("opened")>> \o rest
            \/ todo' = <<Op("failed")>> \o rest
         /\ UNCHANGED <<events, inSend, timer, rechecks, disposed, contexts,
                        fault, timed, log>>

\* Mutant: active_ is not looked at.
AbortAnyway(rest) ==
    /\ xhr # None
    /\ active' = FALSE
    /\ state' = 0 /\ sent' = FALSE
    /\ todo' = <<Dispatch("complete"), Dispatch("abort"), Op("cleanUp")>> \o rest
    /\ UNCHANGED <<events, xhr, inSend, reported, timer, rechecks, good,
                   disposed, monitor, fault, history>>

\* abort: the native request is aborted, then the events follow.
Abort(rest) ==
    /\ xhr # None /\ active
    /\ active' = FALSE
    /\ state' = 0 /\ sent' = FALSE
    /\ todo' = <<Dispatch("complete"), Dispatch("abort"), Op("cleanUp")>> \o rest
    /\ UNCHANGED <<events, xhr, inSend, reported, timer, rechecks, good,
                   disposed, monitor, fault, history>>

\* dispose: no event is dispatched and every listener is removed.
Dispose(rest) ==
    /\ ~disposed
    /\ disposed' = TRUE
    /\ xhr' = None /\ active' = FALSE /\ timer' = None
    /\ state' = 0 /\ sent' = FALSE
    /\ blocked' = MarkClosed(blocked, xhr)
    /\ RemoveAll
    /\ todo' = rest
    /\ UNCHANGED <<locked, inSend, reported, rechecks, good, contexts, fault,
                   history>>

Relisten(t, fn, rest) ==
    /\ Len(listeners[t]) < MaxEntries
    /\ listeners' = [listeners EXCEPT ![t] = Listen(@, fn)]
    /\ todo' = rest
    /\ UNCHANGED <<locked, io, native, disposed, monitor, fault, history>>

\* fireListener: what a listener may do.
Call ==
    LET w    == todo[1]
        rest == AfterCall(w) \o Tail(todo)
    IN  /\ ~throwing /\ Doing("walk") /\ Callable(w)
        /\ \/ todo' = rest /\ UNCHANGED <<events, io, native, disposed,
                                         monitor, fault, history>>
           \/ Send(rest)
           \/ Abort(rest)
           \/ Dispose(rest)
           \/ \E t \in Again : Relisten(t, listeners[w.type][w.at].fn, rest)
           \/ Throw(rest)

-----------------------------------------------------------------------------
(* The functions of XhrIo, one step for each part between two dispatches    *)

\* dispatchEvent
DispatchEvent ==
    LET d == todo[1]
    IN  /\ ~throwing /\ Doing("dispatch")
        /\ contexts' = IF xhr = None THEN contexts ELSE Append(contexts, xhr)
        /\ Push(<<Start(d.type)>> \o IF xhr = None THEN <<>> ELSE <<Op("pop")>>)
        /\ Lock(d.type)
        /\ log' = IF d.type = "change" \/ disposed THEN log
                  ELSE [log EXCEPT ![d.req] = Append(@, d.type)]
        /\ UNCHANGED <<listeners, io, native, disposed, blocked, fault, requests,
                       timed>>

\* The finally of dispatchEvent.
PopContext ==
    /\ Doing("pop")
    /\ blocked' = Popped
    /\ contexts' = Front(contexts)
    /\ todo' = Tail(todo)
    /\ UNCHANGED <<events, io, native, disposed, fault, history>>

\* onReadyStateChangeHelper_: an answer that arrives during send is looked at
\* again when the script is over.
StateChange ==
    /\ ~throwing /\ Doing("change")
    /\ IF ~active THEN todo' = Tail(todo) /\ UNCHANGED rechecks
       ELSE IF inSend /\ state = 4
       THEN todo' = Tail(todo) /\ rechecks' = rechecks + 1
       ELSE /\ Push(<<Dispatch("change"), Op("complete")>>)
            /\ UNCHANGED rechecks
    /\ UNCHANGED <<events, io, state, sent, good, disposed, monitor, fault, history>>

\* The second half of the helper, after the listeners have run.
CheckComplete ==
    /\ ~throwing /\ Doing("complete")
    /\ IF xhr = None \/ state # 4
       THEN todo' = Tail(todo) /\ UNCHANGED <<active, reported>>
       ELSE /\ active' = FALSE
            /\ reported' = (reported \/ ~good)
            /\ Push((IF good THEN <<Dispatch("complete"), Dispatch("success")>>
                     ELSE IF reported THEN <<>>
                     ELSE <<Dispatch("complete"), Dispatch("error")>>)
                        \o <<Op("cleanUp")>>)
    /\ UNCHANGED <<events, xhr, inSend, timer, native, disposed, monitor,
                   fault, history>>

\* error_: open or send has thrown.
Fail ==
    /\ ~throwing /\ Doing("failed")
    /\ active' = FALSE
    /\ reported' = TRUE
    /\ state' = 0 /\ sent' = FALSE
    /\ Push((IF reported THEN <<>>
             ELSE <<Dispatch("complete"), Dispatch("error")>>) \o <<Op("cleanUp")>>)
    /\ UNCHANGED <<events, xhr, inSend, timer, rechecks, good, disposed, monitor,
                   fault, history>>

\* The native send may throw, or be answered at once.
NativeSend ==
    \/ Push(<<Op("failed")>>) /\ UNCHANGED <<state, sent, good>>
    \/ /\ sent' = TRUE
       /\ \/ Push(<<Op("sent")>>) /\ UNCHANGED <<state, good>>
          \/ /\ state' = 4 /\ good' \in BOOLEAN
             /\ Push(<<Op("change"), Op("sent")>>)

\* send, after open.  When the listeners of the state change have ended the
\* request, or have ended it and sent another one, what is done to xhr_ outside
\* the try (its headers, withCredentials) throws, and the exception leaves
\* send.  It cuts the script short if the caller of send has more to do.
SendThrows ==
    /\ xhr = None \/ sent
    /\ throwing' = TRUE
    /\ thrown' = (thrown \/ Tail(todo) # <<>>)
    /\ todo' = Tail(todo)
    /\ UNCHANGED <<timer, timed, inSend, state, sent, good>>

\* The request goes out, with a timeout only if an interval is set.
SendsRequest ==
    /\ xhr # None /\ ~sent
    /\ throwing' = FALSE /\ UNCHANGED thrown
    /\ \/ timer' = xhr /\ timed' = timed \cup {xhr}
       \/ timer' = None /\ timed' = timed \ {xhr}
    /\ inSend' = TRUE
    /\ NativeSend

SendOpened ==
    /\ Doing("opened")
    /\ SendThrows \/ SendsRequest
    /\ UNCHANGED <<events, xhr, active, reported, rechecks, disposed, monitor,
                   requests, log>>

\* The native send has returned.
SendReturns ==
    /\ Doing("sent")
    /\ inSend' = FALSE
    /\ throwing' = FALSE
    /\ todo' = Tail(todo)
    /\ UNCHANGED <<events, xhr, active, reported, timer, native, disposed,
                   monitor, thrown, history>>

\* Mutant: the timeout is left running.
CleanUpUntimed ==
    /\ ~throwing /\ Doing("cleanUp")
    /\ IF xhr = None THEN todo' = Tail(todo) /\ UNCHANGED <<xhr, contexts>>
       ELSE /\ xhr' = None
            /\ contexts' = Append(contexts, xhr)
            /\ Push(<<Ready(xhr), Closed(xhr)>>)
    /\ UNCHANGED <<events, active, inSend, reported, timer, native, disposed,
                   blocked, fault, history>>

\* cleanUpXhr_: the object is free before READY is dispatched.
CleanUpXhr ==
    /\ ~throwing /\ Doing("cleanUp")
    /\ IF xhr = None THEN todo' = Tail(todo) /\ UNCHANGED <<xhr, timer, contexts>>
       ELSE /\ xhr' = None
            /\ timer' = None
            /\ contexts' = Append(contexts, xhr)
            /\ Push(<<Ready(xhr), Closed(xhr)>>)
    /\ UNCHANGED <<events, active, inSend, reported, native, disposed, blocked,
                   fault, history>>

\* The end of cleanUpXhr_; not in a finally.
CloseXhr ==
    /\ ~throwing /\ Doing("closed")
    /\ contexts' = Front(contexts)
    /\ blocked' = MarkClosed(Popped, todo[1].req)
    /\ todo' = Tail(todo)
    /\ UNCHANGED <<events, io, native, disposed, fault, history>>

\* Mutant: the timeout is reported, but the request goes on.
OnlyReported ==
    /\ ~throwing /\ Doing("timedOut")
    /\ todo' = Tail(todo)
    /\ UNCHANGED <<events, io, native, disposed, monitor, fault, history>>

\* timeout_, after the listeners of TIMEOUT: abort, whatever they did.
AbortTimedOut ==
    /\ ~throwing /\ Doing("timedOut")
    /\ IF xhr # None /\ active THEN Abort(Tail(todo))
       ELSE todo' = Tail(todo) /\ UNCHANGED <<events, io, native, disposed,
                                             monitor, fault, history>>

EventStep ==
    /\ ~throwing
    /\ Skip \/ RemoveOnce \/ EndWalk
    /\ UNCHANGED <<io, native, disposed, monitor, fault, history>>

\* A finally block, or native code that reports the exception and goes on,
\* is where an exception is not simply passed on.
Unwind ==
    /\ throwing
    /\ IF Idle THEN throwing' = FALSE /\ UNCHANGED <<events, todo>>
       ELSE /\ todo[1].op \notin {"pop", "opened", "sent"}
            /\ IF Doing("walk") THEN Unlock(todo[1].type) ELSE UNCHANGED events
            /\ todo' = Tail(todo)
            /\ UNCHANGED throwing
    /\ UNCHANGED <<io, native, disposed, monitor, thrown, history>>

Script ==
    \/ Call \/ EventStep \/ DispatchEvent \/ PopContext
    \/ StateChange \/ CheckComplete \/ Fail \/ SendOpened \/ SendReturns
    \/ CleanUpXhr \/ CloseXhr \/ AbortTimedOut \/ Unwind

-----------------------------------------------------------------------------
(* What happens when no script is running                                   *)

Application ==
    /\ Idle /\ ~throwing
    /\ \/ ~disposed /\ xhr = None /\ Send(<<>>)
       \/ Abort(<<>>)
       \/ Dispose(<<>>)

NetworkChange ==
    /\ Idle /\ ~throwing
    /\ xhr # None /\ sent /\ state < 4
    /\ state' \in {3, 4} /\ state < state'
    /\ IF state' = 4 THEN good' \in BOOLEAN ELSE UNCHANGED good
    /\ todo' = <<Op("change")>>
    /\ UNCHANGED <<events, io, rechecks, sent, disposed, monitor, fault, history>>

\* timeout_
TimerFires ==
    /\ Idle /\ ~throwing
    /\ timer # None
    /\ timer' = None
    /\ todo' = IF xhr = None THEN <<>> ELSE <<Dispatch("timeout"), Op("timedOut")>>
    /\ UNCHANGED <<events, xhr, active, inSend, reported, native, disposed,
                   monitor, fault, history>>

\* setTimeout(onReadyStateChange_, 0)
Recheck ==
    /\ Idle /\ ~throwing
    /\ rechecks > 0
    /\ rechecks' = rechecks - 1
    /\ todo' = <<Op("change")>>
    /\ UNCHANGED <<events, io, state, sent, good, disposed, monitor, fault, history>>

Next == Script \/ Application \/ NetworkChange \/ TimerFires \/ Recheck

\* A script that runs goes on, and a timer fires in the end.  Nothing makes the
\* network answer.
Spec == Init /\ [][Next]_vars /\ WF_vars(Script) /\ WF_vars(TimerFires)

-----------------------------------------------------------------------------
(* Properties *)

Lifecycles ==
    {<<"complete", "success", "ready">>, <<"complete", "error", "ready">>,
     <<"complete", "abort", "ready">>, <<"timeout", "complete", "abort", "ready">>}

\* The events about a request: COMPLETE once, then one of SUCCESS, ERROR and
\* ABORT, then READY, and nothing after it; TIMEOUT only in front of an abort.
\* This holds whatever listeners call from within events (abort in COMPLETE,
\* send in READY, abort in TIMEOUT, abort while send opens the request), as long
\* as no exception cuts a script short.  A request that is over has had all its
\* events, unless the object was disposed of.
LifecycleOrder ==
    ~thrown => \A r \in Requests :
        /\ \E l \in Lifecycles : IsPrefix(log[r], l)
        /\ (Idle /\ r <= requests /\ r # xhr /\ ~disposed) => log[r] \in Lifecycles

\* When no script runs, the object is either free, with nothing pending, or has
\* an active request, with a timeout of its own exactly if an interval was set
\* when it was sent: a stale timeout would abort a later request, and xhr_
\* without active_ would refuse every later send.
FreeOrActive ==
    (Idle /\ ~thrown) =>
        /\ timer = IF xhr \in timed THEN xhr ELSE None
        /\ active <=> xhr # None

\* The stack of contexts is empty between scripts, and a context is only
\* blocked by a request that is still open (XhrMonitor_): a request that is
\* over blocks none.
MonitorReleased ==
    (Idle /\ ~thrown) => contexts = <<>> /\ \A p \in blocked : p[2] = xhr

\* An array is locked as often as it is walked through, also when listeners
\* throw; a walk stays inside its array; flagged listeners are gone when the
\* last walk is over, and all of them once the object is disposed of.
WalksAreLocked ==
    \A t \in Types :
        LET walks == {i \in DOMAIN todo : todo[i].op = "walk" /\ todo[i].type = t}
        IN  /\ locked[t] = Cardinality(walks)
            /\ \A i \in walks : todo[i].len <= Len(listeners[t])
            /\ locked[t] = 0 => \A i \in DOMAIN listeners[t] : Present(listeners[t][i])
            /\ disposed => \A i \in DOMAIN listeners[t] : ~Present(listeners[t][i])

\* Every request that was sent while an interval was set comes to its end,
\* though the network may never answer, unless an exception cuts a script
\* short: the timeout aborts it.  By default no interval is set, and nothing
\* ends a request that is not answered.
EveryRequestEnds ==
    \A r \in Requests : (xhr = r /\ r \in timed) ~> (xhr # r \/ thrown)
=============================================================================
