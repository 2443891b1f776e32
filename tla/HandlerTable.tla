------------------------------ MODULE HandlerTable ------------------------------
(***************************************************************************)
(* How RabbitMqM3SdkListener finds the handler of an action.  At start-up  *)
(* the handler beans are entered into a table by cloud, SDK version and    *)
(* action type, in whatever order Spring lists them; an action is looked up*)
(* for the cloud of its region and the SDK version of its sender.          *)
(***************************************************************************)
EXTENDS Integers

CONSTANTS
    Handler,      \* handler beans
    Cloud,        \* clouds
    ActionType,   \* action types
    MaxVersion,   \* SDK versions are 1..MaxVersion, each preceded by the one below
    Null          \* Java null: no region, no cloud, no handler, no map

Version == 1..MaxVersion

\* The cloud of a handler, or of a request: Null without a region.
AnyCloud == Cloud \cup {Null}

\* What an IM3ApiHandler declares.
Support == [cloud: AnyCloud, version: Version, actions: SUBSET ActionType]

ASSUME NullIsNoHandler == Null \notin Handler \cup Cloud \cup Support

\* The maps from action types to handlers, and from versions to those.
ActionMap  == [ActionType -> Handler \cup {Null}]
VersionMap == [Version -> ActionMap \cup {Null}]

ASSUME NullIsNoMap == Null \notin ActionMap \cup VersionMap

ASSUME VersionsAreCounted == MaxVersion \in Nat

VARIABLES
    declared,   \* declared[h]: what bean h supports, or Null until it is entered
    table       \* table[c][v][a]: the handler entered; a missing map is Null

tableVars == <<declared, table>>

NoVersions == [v \in Version |-> Null]
NoActions  == [a \in ActionType |-> Null]

TableInit ==
    /\ declared = [h \in Handler |-> Null]
    /\ table = [c \in AnyCloud |-> Null]

\* initVersionMap: the maps made on demand, then an entry for every action;
\* a later bean replaces an earlier one.
Entered(h, s) ==
    LET versions == IF table[s.cloud] = Null THEN NoVersions ELSE table[s.cloud]
        actions  == IF versions[s.version] = Null THEN NoActions
                    ELSE versions[s.version]
    IN  [versions EXCEPT ![s.version] =
            [a \in ActionType |-> IF a \in s.actions THEN h ELSE actions[a]]]

\* initHandlers takes the next bean of the list.
InitHandler(h) ==
    \E s \in Support :
        /\ declared[h] = Null
        /\ declared' = [declared EXCEPT ![h] = s]
        /\ table' = [table EXCEPT ![s.cloud] = Entered(h, s)]

TableNext == \E h \in Handler : InitHandler(h)

TableSpec == TableInit /\ [][TableNext]_tableVars

-----------------------------------------------------------------------------
(* getHandler *)

EmptyAt(c, v) == table[c][v] = Null \/ \A a \in ActionType : table[c][v][a] = Null

At(c, v, a) == IF v = 0 \/ table[c][v] = Null THEN Null ELSE table[c][v][a]

\* Mutants of GetHandler: the previous version is asked first; the fallback
\* looks two versions back.
PreferPrevious(c, version, a) ==
    LET find[v \in 0..MaxVersion] ==
            IF v = 0 THEN Null
            ELSE IF EmptyAt(c, v) THEN find[v - 1]
            ELSE IF At(c, v - 1, a) # Null THEN At(c, v - 1, a)
            ELSE table[c][v][a]
    IN  find[version]

SkipVersion(c, version, a) ==
    LET find[v \in 0..MaxVersion] ==
            IF v = 0 THEN Null
            ELSE IF EmptyAt(c, v) THEN find[v - 1]
            ELSE IF table[c][v][a] # Null THEN table[c][v][a]
            ELSE IF v = 1 THEN Null ELSE At(c, v - 2, a)
    IN  find[version]

\* The newest version with any handler decides: an action it lacks is looked
\* up in the version right before it, and no further.
GetHandler(c, version, a) ==
    LET find[v \in 0..MaxVersion] ==
            IF v = 0 THEN Null
            ELSE IF EmptyAt(c, v) THEN find[v - 1]
            ELSE IF table[c][v][a] # Null THEN table[c][v][a]
            ELSE At(c, v - 1, a)
    IN  find[version]

\* The lookup dereferences the map of the cloud: nothing entered, no answer.
Served(c) == table[c] # Null

-----------------------------------------------------------------------------
(* Properties *)

\* The entries a reader of the beans' declarations would expect.
Supports(h, c, v, a) ==
    declared[h] # Null /\ declared[h].cloud = c /\ declared[h].version = v
        /\ a \in declared[h].actions

Supported(c, v, a) == \E h \in Handler : Supports(h, c, v, a)

\* The handler found supports the action in the region's cloud, in the newest
\* version up to the sender's that any handler supports it in.
NewestHandlerFound ==
    \A c \in AnyCloud, version \in Version, a \in ActionType :
        Served(c) /\ GetHandler(c, version, a) # Null =>
            \E v \in 1..version :
                /\ Supports(GetHandler(c, version, a), c, v, a)
                /\ \A newer \in (v + 1)..version : ~Supported(c, newer, a)

\* An action without a handler is not supported in the newest version with any
\* handler, nor in the one before: nothing recent is refused by mistake.
RecentActionFound ==
    \A c \in AnyCloud, version \in Version, a \in ActionType :
        Served(c) /\ GetHandler(c, version, a) = Null =>
            \A v \in 1..version :
                (\A newer \in (v + 1)..version, b \in ActionType : ~Supported(c, newer, b))
                    => /\ ~Supported(c, v, a)
                       /\ v > 1 => ~Supported(c, v - 1, a)
=============================================================================
