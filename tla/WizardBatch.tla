------------------------------ MODULE WizardBatch ------------------------------
(***************************************************************************)
(* AbstractAdminCommand: a wizard is turned into requests of one kind, the *)
(* requests into console commands, and the commands are executed one after *)
(* another until one fails; the rest is skipped and every command comes    *)
(* back with its result.  The wizards that make more than one request are  *)
(* those for the shapes and for the images of a region: their commands are *)
(* CreateShape and CreateImage of RegionConfig, step by step.              *)
(*                                                                         *)
(* Nothing makes a batch atomic: between any two steps of it other threads *)
(* work on the same documents, by wizards of their own or by commands sent *)
(* one at a time, an operation may throw, and the process may be restarted.*)
(***************************************************************************)
EXTENDS RegionConfig, SequencesExt

CONSTANTS
    Wizard,      \* the wizards that are sent
    Runner,      \* the threads that get them
    NoBatch

\* What a wizard asks for: shapes or images for the region it names.
Batch == [command: {"create_shape"}, alias: Alias, items: Seq(ShapeId)]
             \cup [command: {"create_image"}, alias: Alias, items: Seq(NativeId)]

ASSUME WizardsAreBatches == Wizard \subseteq Batch /\ NoBatch \notin Batch
ASSUME RunnersAreThreads == Runner \subseteq Thread

VARIABLES
    batch,     \* batch[t]: the commands thread t executes, in order, or NoBatch
    results,   \* results[t]: the results of those executed so far
    stored,    \* history: the items the batch of t has stored
    known      \* history: the regions that had its first item when it began

batchVars == <<batch, results, stored, known>>

BatchInit ==
    /\ Init
    /\ batch = [t \in Thread |-> NoBatch]
    /\ results = [t \in Thread |-> <<>>]
    /\ stored = [t \in Thread |-> <<>>]
    /\ known = [t \in Thread |-> {}]

\* The requests without those whose command appeared before: a put into the
\* map leaves the place of a key that is there.
FirstOnes(requests) ==
    LET put[k \in 0..Len(requests)] ==
            IF k = 0 THEN <<>>
            ELSE IF requests[k] \in ToSet(put[k - 1]) THEN put[k - 1]
            ELSE Append(put[k - 1], requests[k])
    IN  put[Len(requests)]

\* prepareCommands keys a LinkedHashMap by command; whether two commands with
\* the same text are one key is up to SdkAdminCommand of the SDK.
PrepareCommands(requests) == {FirstOnes(requests), requests}

\* Region id has the item the command is for.
Has(command, id, item) ==
    IF command = "create_shape" THEN HasShape(regions[id], item)
    ELSE \E i \in Found(item) : images[i].regionId = id

HavingFirst(b) ==
    {id \in Registered(b.alias) : b.items # <<>> /\ Has(b.command, id, b.items[1])}

\* getParams of a valid wizard; an invalid one throws before anything is done.
StartBatch(t) ==
    /\ t \in Runner /\ pc[t] \in Replies /\ batch[t] = NoBatch
    /\ \E w \in Wizard : \E items \in PrepareCommands(w.items) :
          batch' = [batch EXCEPT ![t] = [w EXCEPT !.items = items]]
    /\ results' = [results EXCEPT ![t] = <<>>]
    /\ stored' = [stored EXCEPT ![t] = <<>>]
    /\ known' = [known EXCEPT ![t] = HavingFirst(batch'[t])]
    /\ UNCHANGED vars

\* The command executeCommand comes to next.
Unfinished(t) == batch[t] # NoBatch /\ Len(results[t]) < Len(batch[t].items)
Item(t) == batch[t].items[Len(results[t]) + 1]

\* The flag success, set to what became of the last command executed.
Success(t) == \A k \in DOMAIN results[t] : results[t][k] = "SUCCESS"

Record(t, outcome) == results' = [results EXCEPT ![t] = Append(@, outcome)]

\* execute(request) begins: the region of the alias is looked up.  It throws at
\* once when there is none or the request is refused (Reject).
ExecuteBegins(t) ==
    /\ pc[t] \in Replies
    /\ \/ Reject(t)
       \/ \E id \in Registered(batch[t].alias) :
             \/ batch[t].command = "create_shape" /\ CreateShape(t, id, Item(t))
             \/ batch[t].command = "create_image" /\ CreateImage(t, id, Item(t))

ExecuteGoesOn(t) == SaveRegion(t) \/ FindImage(t) \/ SaveImage(t) \/ DatabaseFails(t)

\* One step of a command, and its result when that is the last one.
Execute(t) ==
    /\ Unfinished(t) /\ Success(t)
    /\ ExecuteBegins(t) \/ ExecuteGoesOn(t)
    /\ Note(t)
    /\ \/ pc'[t] = "ok" /\ Record(t, "SUCCESS")
       \/ pc'[t] = "error" /\ Record(t, "FAILED")
       \/ pc'[t] \in Steps /\ UNCHANGED results
    /\ stored' = IF Writing(t) /\ pc'[t] = "ok"
                 THEN [stored EXCEPT ![t] = Append(@, Item(t))] ELSE stored
    /\ UNCHANGED <<batch, known>>

\* Mutant of Skip: a skipped command is reported as done.
SkipSilently(t) ==
    /\ Unfinished(t) /\ ~Success(t)
    /\ Record(t, "SUCCESS")
    /\ UNCHANGED <<vars, batch, stored, known>>

Skip(t) ==
    /\ Unfinished(t) /\ ~Success(t)
    /\ Record(t, "SKIPPED")
    /\ UNCHANGED <<vars, batch, stored, known>>

\* The commands are returned with their results.
FinishBatch(t) ==
    /\ batch[t] # NoBatch /\ ~Unfinished(t)
    /\ batch' = [batch EXCEPT ![t] = NoBatch]
    /\ results' = [results EXCEPT ![t] = <<>>]
    /\ stored' = [stored EXCEPT ![t] = <<>>]
    /\ known' = [known EXCEPT ![t] = {}]
    /\ UNCHANGED vars

\* A thread without a batch executes the command of a single request.
Single(t) ==
    /\ batch[t] = NoBatch
    /\ Operation(t) /\ Note(t)
    /\ UNCHANGED batchVars

\* The process dies in the middle of a batch: nobody learns its results.
LoseBatches ==
    /\ Restart
    /\ batch' = [t \in Thread |-> NoBatch]
    /\ results' = [t \in Thread |-> <<>>]
    /\ stored' = [t \in Thread |-> <<>>]
    /\ known' = [t \in Thread |-> {}]

BatchNext ==
    \/ \E t \in Thread :
          Single(t) \/ StartBatch(t) \/ Execute(t) \/ Skip(t) \/ FinishBatch(t)
    \/ LoseBatches

BatchSpec == BatchInit /\ [][BatchNext]_<<vars, batchVars>>

-----------------------------------------------------------------------------
(* Properties *)

BatchTypeOK ==
    /\ batch \in [Thread -> Batch \cup {NoBatch}]
    /\ results \in [Thread -> Seq({"SUCCESS", "FAILED", "SKIPPED"})]
    /\ stored \in [Thread -> Seq(ShapeId \cup NativeId)]
    /\ known \in [Thread -> SUBSET RegionId]

\* The results read SUCCESS, ..., SUCCESS, then at most one FAILED, and SKIPPED
\* for everything after it.
StopsAtFailure(r) ==
    \A k \in 1..(Len(r) - 1) : r[k + 1] = "SKIPPED" <=> r[k] # "SUCCESS"

Done(t) == {k \in DOMAIN results[t] : results[t][k] = "SUCCESS"}

\* The region still has the item, or an overtaken command has since saved an
\* older copy of its document.
HasOrLost(b, item) ==
    \E id \in Registered(b.alias) :
        \/ Has(b.command, id, item)
        \/ b.command = "create_shape" /\ <<"save", id>> \in spoiled

\* What a running batch reports is what it did, whatever the other threads do
\* meanwhile: the results show where it stopped; the commands with SUCCESS, and
\* no others, have stored their items; and those are still there, but for the
\* shapes of a region whose document an overtaken command overwrote.
ReportIsTrue ==
    /\ BatchTypeOK
    /\ \A t \in Thread : batch[t] # NoBatch =>
          /\ StopsAtFailure(results[t])
          /\ Done(t) = DOMAIN stored[t]
          /\ \A k \in Done(t) : /\ stored[t][k] = batch[t].items[k]
                                /\ HasOrLost(batch[t], stored[t][k])

\* Nothing has hidden from the commands that region id has the first item: it is
\* the only one of its alias, its document was never overwritten by an overtaken
\* command, and no other region has an image with the native id.
InPlainSight(b, id) ==
    /\ Registered(b.alias) = {id}
    /\ IF b.command = "create_shape" THEN <<"save", id>> \notin spoiled
       ELSE \A i \in Found(b.items[1]) : images[i].regionId = id

\* A wizard that is sent again after its first command took effect changes
\* nothing: the first command is refused and the rest is skipped, so a batch
\* that was interrupted is never completed by repeating it.
RepetitionIsInert ==
    \A t \in Thread : batch[t] # NoBatch =>
        \A id \in known[t] : InPlainSight(batch[t], id) => stored[t] = <<>>
=============================================================================
