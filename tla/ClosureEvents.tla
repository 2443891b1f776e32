----------------------------- MODULE ClosureEvents -----------------------------
(***************************************************************************)
(* goog.events of maestro-web.js: the arrays of listeners of one event     *)
(* target, one array per event type.  A dispatched event walks through its *)
(* array with the length the array had at the start; the listeners it      *)
(* calls may add and remove listeners and dispatch further events.  An     *)
(* array that is being walked through is locked: a removed listener stays  *)
(* in its place, flagged, until the last walk is over.                     *)
(*                                                                         *)
(* A browser runs one piece of script at a time.  What the script that is  *)
(* running still has to do is the stack "todo"; its head is done next, and *)
(* calls made by a listener are pushed in front of the rest.               *)
(***************************************************************************)
EXTENDS Naturals, Sequences, SequencesExt

CONSTANTS Types,       \* event types
          Registered   \* the listeners of each type at the start

\* Functions that are registered, and what is kept of each registration.
Fns == UNION {{Registered[t][i].fn : i \in DOMAIN Registered[t]} : t \in Types}
Listener == [fn : Fns, once : BOOLEAN, removed : BOOLEAN]

ASSUME RegisteredAssumption ==
    /\ Registered \in [Types -> Seq(Listener)]
    /\ \A t \in Types : \A i \in DOMAIN Registered[t] : ~Registered[t][i].removed

VARIABLES listeners,   \* listenerTree_: type -> [fn, once, removed]
          locked,      \* type -> the walks through its array (locked_)
          todo         \* the stack of the running script

events == <<listeners, locked>>

InitEvents ==
    /\ listeners = Registered
    /\ locked = [t \in Types |-> 0]

Idle == todo = <<>>
Doing(name) == todo # <<>> /\ todo[1].op = name
Push(ops) == todo' = ops \o Tail(todo)

Walk(t, at, len) == [op |-> "walk", type |-> t, at |-> at, len |-> len]
Once(t, at) == [op |-> "once", type |-> t, at |-> at]

Present(e) == ~e.removed

\* The loop of cleanUp_: what is not removed moves up.
Purge(array) ==
    LET kept[n \in 0..Len(array)] ==
            IF n = 0 THEN <<>>
            ELSE IF Present(array[n]) THEN Append(kept[n - 1], array[n])
            ELSE kept[n - 1]
    IN  kept[Len(array)]

\* Mutant: the array is cleaned up although it is being walked through.
CleanUpNow(array, walks) == Purge(array)

\* cleanUp_
CleanUp(array, walks) == IF walks = 0 THEN Purge(array) ELSE array

\* listen: only the first entry of the function is looked at.  When that one
\* is removed but still in its place, another entry is added.
Listen(array, fn) ==
    LET same == {i \in DOMAIN array : array[i].fn = fn}
    IN  IF \E i \in same : (\A j \in same : i <= j) /\ Present(array[i])
        THEN array
        ELSE Append(array, [fn |-> fn, once |-> FALSE, removed |-> FALSE])

\* unlistenByKey
Unlisten(array, at) == [array EXCEPT ![at].removed = TRUE]

\* removeAll of the target
RemoveAll ==
    listeners' = [t \in Types |->
        CleanUp([i \in DOMAIN listeners[t] |->
                    [listeners[t][i] EXCEPT !.removed = TRUE]], locked[t])]

\* fireListeners_: the array is locked and its length is taken.
Start(t) == Walk(t, 1, Len(listeners[t]))
Lock(t) == locked' = [locked EXCEPT ![t] = @ + 1]

\* The finally of fireListeners_.
Unlock(t) ==
    /\ locked' = [locked EXCEPT ![t] = @ - 1]
    /\ listeners' = [listeners EXCEPT ![t] = CleanUp(@, locked[t] - 1)]

AtEnd(w) == w.at > w.len
Callable(w) == ~AtEnd(w) /\ Present(listeners[w.type][w.at])

\* A removed listener is passed over.
Skip ==
    /\ Doing("walk") /\ ~AtEnd(todo[1]) /\ ~Callable(todo[1])
    /\ Push(<<[todo[1] EXCEPT !.at = @ + 1]>>)
    /\ UNCHANGED events

EndWalk ==
    /\ Doing("walk") /\ AtEnd(todo[1])
    /\ Unlock(todo[1].type)
    /\ todo' = Tail(todo)

\* What follows the call of a listener: a callOnce listener is removed.
AfterCall(w) ==
    (IF listeners[w.type][w.at].once THEN <<Once(w.type, w.at)>> ELSE <<>>)
        \o <<[w EXCEPT !.at = @ + 1]>>

RemoveOnce ==
    LET o == todo[1]
    IN  /\ Doing("once")
        /\ listeners' = [listeners EXCEPT
               ![o.type] = CleanUp(Unlisten(@, o.at), locked[o.type])]
        /\ todo' = Tail(todo)
        /\ UNCHANGED locked
=============================================================================
