# M3 private agent: a verification project in TLA+

The private agent connects OpenStack clouds to a Maestro server.  It is a Spring
application that keeps regions, tenants, networks and images as documents in
Mongo, takes batches of SDK actions from AMQP queues, offers an administrator
API over HTTP, and has a diagnostic web interface.  The repository contains the
agent's own shell around services that come as library artifacts (the Mongo
repositories, the OpenStack client, the SDK); those are modelled from how the
code here uses them.

The modules follow the Java code below `src/src/main/java/io/maestro3/` and the
scripts of the pages below `src/src/main/resources/static/js/`.  `PROJECT.json` maps every definition
that models code to the lines it stands for.

## 1. Inventory

| Component | State | Operations | Talks to |
|---|---|---|---|
| Admin HTTP API, `OpenStackAdminController` and the commands in `admin/factory/impl/openstack` | none of its own; every command works on copies of documents | one POST per command: register a region, its credentials, shapes, project meta, images, security modes; create and edit tenants; configure a tenant network; wizards | Mongo repositories, OpenStack client, instance counter, security group service |
| Region documents | alias, allowed shapes, credentials, meta, management flag, security modes | read and saved as a whole by every region command | all region commands, tenant commands read the modes |
| Tenant documents | alias, region, security mode, flags, credentials | `create_tenant`, `set_security_mode`, `set_tenant_*`, `create_tenant_user` | region documents (modes) |
| Image documents, instance counters | native id and region; one counter per region | `create_image`, `create_region` | region documents |
| Tenant networks | OpenStack networks, VLAN documents | `configure_tenant_network` | OpenStack (minutes-long remote call), VLAN service |
| Wizards, `AbstractAdminCommand` | the results of a running batch | a form becomes requests, requests become commands, commands run until one fails | the commands above |
| SDK listener, `RabbitMqM3SdkListener` | two queues in the broker, the batch each consumer works on | validate, decrypt, handle every action, answer | broker, handlers |
| Handler table | cloud, version and action to handler | entered at start-up, looked up per action | SDK listener |
| Memory monitor, `DoMemoryService` | ring of samples | timer replaces the oldest; page reads a window | diagnostic page |
| Schedule invoker, `ScheduleProcessorInvoker` | executor of one thread | check, submit | operations page |
| Scheduled jobs page, JMX page, tenant pages, health check, run report | caches of annotations; shared maps; joins of collections | render | Mongo, JVM beans |
| Script of the health check page, `tabReporting.js` | `currentData`, the marked tab and the displayed contents; `sessionStorage.tabActive` | restore the stored tab, click, unload; the page asks for itself again and again | the document, `sessionStorage`, the report of the server |
| Script of the JMX pages, `radar.js` | marked tabs and displayed contents of nested lists | load, click | the document |
| Events of the Closure library, `goog.events` in the vendored `maestro-web.js` | arrays of listeners, each with a lock counter | listen, listen once, remove, dispatch | the page scripts, `XhrIo` |
| Requests of the Closure library, `goog.net.XhrIo` in `maestro-web.js`; loaded with the pages, constructed by none of them | one XMLHttpRequest, its timeout, flags; the monitor of contexts | send, abort, dispose, state changes, timeout, clean-up | listeners that call back in, network, timers of the browser |
| Rest of the Closure library | none that the pages use | element lookup, classes, styles | the page scripts |
| System endpoints, validation, user details, configuration, views | none that changes here | delegate, check, wire, format | |

How they meet.  Every HTTP request and every page is served by a thread of the
servlet container; nothing in the commands locks anything, so two commands
interleave at every database or remote operation.  Each of the two AMQP queues
has a single consumer thread.  The memory monitor has a timer thread, the
schedule invoker an executor thread.  The database and OpenStack survive a
restart; threads and their copies do not.  In the browser one piece of script
runs at a time; what interleaves there are the calls that listeners make from
within events, and, between scripts, answers, timers, clicks and reloads.

### What is hard, and what would be right

* **Whole-document saves.**  A command loads a document, changes one field and
  saves all of it.  Right: a region has at most one default mode and no shape
  twice whatever interleaves, and no save undoes what others did, but that of a
  command which another one has overtaken.
* **Checks that are old when they are used.**  `create_tenant` and
  `set_security_mode` check modes, `delete_security_mode` counts tenants,
  `configure_tenant_network` looks a name up before a remote call.  Right: tenants
  have modes their region has and names are registered once, unless the command
  that broke it had been overtaken between its check and its write.
* **Partial failure.**  An update of several tenants fails in the middle; the
  network exists but registering it fails; the answer fails after the VLAN was
  saved; a wizard stops half-way.  Right: what was done is accounted for, and
  results say what happened, whatever other administrators do meanwhile.
* **Crashes.**  A region is saved and its counter not; a batch was handled and
  not acknowledged.  Right: nothing else is lost, actions run once per delivery.
* **Order and progress of batches.**  Right: batches of a queue are settled in
  order, all of them, and never for ever.
* **Time.**  A page reads the ring while the timer writes it.  Right: the page
  shows the samples it selected, without a hole.
* **Check-then-submit.**  Several requests overtake the check of the executor.
  Right: an accepted task waits its turn, and every one is executed.
* **State that must outlive a page.**  The health check page reloads itself while
  regions come and go, is left before it was loaded, or is discarded without an
  unload handler.  Right: the tab chosen last is the one the page comes back to.
* **Reentrant events.**  A listener adds and removes listeners of the array that
  is being walked through, dispatches the same event again, aborts, sends or
  disposes from within an event, or throws.  Right: no entry moves under a walk or
  stays for ever; a request has its events in order and comes to its end, and
  the object is free afterwards.
* **Timeouts that race answers.**  Right: a request that is over is not reported
  again, and a stale timeout never aborts a later request.

`PROJECT.json` lists each hazard at its line with the properties that cover it.

## 2. Modules

    SecurityModes ──implements──> SecurityPolicy      MCSecurityModes,  SecurityModesProofs
    RegionConfig  ──implements──> RegionRegistry      MCRegionConfig,   RegionConfigProofs
    WizardBatch extends RegionConfig                  MCWizardBatch,    RegionConfigProofs
    TenantNetwork                                     MCTenantNetwork,  TenantNetworkProofs
    SdkListener                                       MCSdkListener,    SdkListenerProofs
    ScheduleInvoker                                   MCScheduleInvoker, ScheduleInvokerProofs
    HandlerTable, MemoryMonitor                       (each with its MC module), ServerProofs
    BrowserSession = TabReporting + RadarTabs on PageDom
                  ──implements──> TabMemory           MCBrowserSession, BrowserSessionProofs
    XhrIo on ClosureEvents                            MCXhrIo,          XhrIoProofs

*Commands that overtake each other.*  No lock keeps the commands of the API
apart, so a command may write on the strength of something it read and that is
no longer so.  SecurityModes, RegionConfig and TenantNetwork therefore do not
assume that commands come one at a time; each has a history variable that names
the threads which another one has overtaken (`overtaken`, `raced`), and `spoiled`
remembers what such threads wrote all the same.  `Note(t)` keeps them, beside
every step of a thread; no guard reads them.  The properties then say what the
code promises in every interleaving, and which damage is possible, to what, and
by which command.

**SecurityModes.**  State: `modes` (the mode map of every region document),
`tenants`, and per request thread `pc` (its next database operation, or its
reply), `req`, `snap` (its copy of the region) and `todo` (the tenant copies it
is going to save).  A step is one database operation with the thread-local work
up to the next one: `CreateConfiguration`, `OverrideConfiguration`,
`DeleteSecurityMode`, `SetSecurityMode`, `CreateTenant` begin a command (the
region lookup), `SetTenantField` stands for the three commands that load a tenant
and save it with another flag or user; `CountTenants`, `SelectTenants`,
`CheckTenantAbsent`, `SaveRegion`, `UpdateTenant`, `SaveNewTenant` go on with a
command, `UpdateFails` is the update that throws.  `OtherRegionCommand` stands
for the region commands that do not touch modes but save the document that holds
them.  `Restart` loses every copy.  A command is overtaken when another thread
changes the modes of its region, or who uses them (`Changed`); `spoiled` has the
modes that such a command took away or handed out.  `Offered[t]` are the
commands sent to a thread.  Regions are the registered ones; registering them is
RegionConfig.

**SecurityPolicy** is the abstract specification: configured modes, a default
and an assignment of tenants, with commands that take effect at once.
`SecurityModes!ImplementsPolicy` maps the documents to it and leaves out the
writes of overtaken commands.

**RegionConfig.**  State: `regions`, `counters`, `images`, and per thread `pc`,
`rid`, `copy`, `native`; `cutShort` records the regions whose registration a
restart or an exception of the database interrupted.  `CreateRegion`,
`InsertRegion`, `RefindRegion`, `AddCounter` are `create_region`, whose second
lookup by alias is a step of its own; `CreateImage`, `FindImage`, `SaveImage` are
`create_image`; the other commands load a region (`Loads`), change one field and
end in `SaveRegion`.  `DatabaseFails` is an operation that throws.  What a thread
is about to write has a `Target`: the alias it inserts, the document it saves, the
native id it registers.  A thread is overtaken when another one writes its target
first.

**RegionRegistry** is its abstract specification: regions by alias, edited in
one step each.

**WizardBatch** extends RegionConfig: a wizard is a batch of its `CreateShape` or
`CreateImage` commands, the only wizards that make more than one request.
`Execute` is one step of the command that is next, so that other threads run
between its lookup, its check and its save; `Record` its result, `Skip` the
commands after one that failed, `StartBatch` and `FinishBatch` the ends of
`executeCommand`'s loop.  `Single` is a thread without a batch, `LoseBatches` the
end of the process.  The histories `stored` and `known` say what a batch wrote
and which regions had its first item when it began.

**TenantNetwork.**  State: `networks` (in OpenStack), `vlans` (documents), and
per thread `pc`, `req`, `made`; `failed` records the networks whose command was
answered with an error, or lost, before the VLAN was saved, and `raced` the
threads whose name was registered for their tenant after they had checked it.
`Configure`,
`CheckVLANExist`, `SetupNetworking`, `RegisterVLAN` are the stages;
`SetupFails` and `RegisterFails` the exceptions, and `RegisterVLAN` itself
contains the two places where a missing router or gateway turns the answer into
an error, one before and one after the VLAN is saved.

**SdkListener.**  State: per queue what was `sent`, what is in the `queue`, what
its consumer has in `current`, what is `settled`; per batch how often each
action was `handled`, the `replies`, the `losses`.  `Blocked` (authentication
fails), `Undecodable`, `Accept`, `HandleAction`, `RefuseAction`, `Answer`,
`EncryptFails` are the paths of `processMessage`; `AckLost` (after any answer,
"blocked" included) and `Restart` give what is not acknowledged back to the broker.

**HandlerTable.**  `InitHandler` enters the next bean, with any declaration, in
any order; `GetHandler` is the lookup with its fallback through versions.

**MemoryMonitor.**  Slots are known by the age of their sample.  `Tick` is time,
`Collect` the timer, `Request`, `ReadSlot`, `Show` the page: the slots are
looked at one by one, rows are references into the ring and are read again when
they are rendered.

**ScheduleInvoker.**  `Invoke` checks, `Submit` hands the task over, `StartWorker`,
`TakeTask`, `EndTask` are the executor's thread, which counts as active only
between the last two.

**PageDom, TabReporting, RadarTabs, BrowserSession.**  PageDom is the document
of the browser tab: which tabs have the class "current", which contents are
displayed, which tabs have an error icon.  TabReporting is the script of the
health check page:
`OpenHealth` renders the report of the moment, `LoadHealth` is `initDom` in its three
layouts with the restoring of `sessionStorage`, `ClickTab` and `ClickMobileTab` the
listeners, `Saved` what the unload handler leaves in the storage, `Refresh` the
page's request for itself; `ReportChanges` and `StateChanges` are the server.
RadarTabs is the script of the JMX pages: lists of tabs inside the contents of
tabs, whose first tabs are selected from the outside inwards, with one click
listener per level on every tab; the one template that uses the script renders a
single list, so nested lists are what the script supports and no page has.
BrowserSession composes both: one browser tab in
which the pages follow one another, sharing the document and the storage, and
that may be discarded without any handler running.

**TabMemory** is its abstract specification: `Load` brings the `saved` choice to
the front, or the first tab; `Click` chooses, `Leave` saves the choice, `Discard`
and `LoadBare` are the only ways to lose one.

**ClosureEvents.**  `listeners` and `locked` are the arrays of one event target and
their lock counters; `todo` is what the running script still has to do, the
frame that is next at its head.  A dispatched event is a frame `walk` with the length the array had;
`Call` in XhrIo is a listener that runs, `Skip`, `EndWalk` and
`RemoveOnce` are the rest of `fireListeners_`, `CleanUp` and its loop `Purge` are `cleanUp_`.

**XhrIo.**  State: the request (`xhr`), `active`, `inSend`, `reported`, the `timer`
(`timed` has the requests sent while `setTimeoutInterval` had set an interval; by
default none is set and no timer starts), what the browser knows of the request (`state`, `sent`, `good`, `rechecks`), the
monitor's `contexts` and `blocked`, an exception on its way (`throwing`), and the events
dispatched about each request (`log`).  Each function is cut where it dispatches an event:
`Send`, `SendOpened` (whose `SendThrows` is the exception of a request that the
listeners of open ended or sent already), `NativeSend`, `SendReturns`; `StateChange`, `CheckComplete`;
`TimerFires`, `AbortTimedOut`; `CleanUpXhr`, `CloseXhr`.  In between a listener may
do whatever an application may.  `Unwind` takes an exception up the stack, past the functions
that have no finally.  No script or page of the repository makes a `goog.net.XhrIo`:
ClosureEvents and XhrIo model the library that the pages load, as a page would use
it.  The monitor of contexts is enabled in Gecko browsers only; elsewhere its two
variables stay empty.

The `MC` modules give the constants their sets for TLC; `*Proofs` hold the
theorems.  Operators whose comment begins with "Mutant" are faulty variants
of the definition that follows them; each property is known to be violated by
at least one (`PROJECT.json`, "mutants").

## 3. Runs

| Run | Instance | What it shows |
|---|---|---|
| `security_threads` | 2 threads, 1 region, 2 modes, 1 alias, 2 tenants, every command, restarts | `TenantModeConfigured`; `AtMostOneDefault`; `MoveIsComplete`: a successful move leaves no tenant behind; `ImplementsPolicy` |
| `region_threads` | 2 threads, one of which executes wizards of two items and registers regions, the other every command; 1 alias, 2 ids, 2 shapes, 1 value, 2 images, exceptions, restarts | `ShapesDistinct`, `ShapesOnlyGrow`, `RegionsHaveCounters`, `DoublesAreExplained`, `ImplementsRegistry`; of the wizards `ReportIsTrue`, `RepetitionIsInert` |
| `region_two_regions` | 1 thread, 2 regions | violation, see section 6 |
| `network_concurrent` | 2 threads, 2 tenants, 3 networks, failures and restarts | `VlansMatchNetworks`, `NetworksAccounted`, `TakenNamesWereRaced` |
| `network_race` | 2 threads, no failures | violation, see section 6 |
| `listener_batches` | 2 sync batches (of two and of no actions), 1 async batch, 1 loss each | `Conserved`, `HandledPerDelivery`, `AnswersAreTrue`, `Answered`, and `EverySettled` under fairness |
| `handler_lookup` | 3 beans, 3 versions, 2 actions, every set of declarations in every order | `NewestHandlerFound`, `RecentActionFound` |
| `memory_page` | 6 slots, period 3, windows of every kind | `RingIsHistory`, `RowsAreKept`, `PageIsComplete` |
| `memory_last_slot` | the same | violation, see section 6 |
| `schedule_page` | 4 requests | `TasksInOnePlace`, and `AcceptedIsExecuted` under fairness |
| `browser_session` | 4 titles, two of them regions, one unlinked; a JMX page with 3 lists; all layouts, reloads, visits, discards | `ChoiceIsShown`, `ImplementsMemory`, `OneTabPerList`, `OtherListsKept`, and `OutageIsSeen` under fairness |
| `xhr_requests` | 2 requests, 2 listeners (one of them of a single call), listeners that send, abort, dispose, listen again and throw | `LifecycleOrder`, `FreeOrActive`, `MonitorReleased`, `WalksAreLocked`, and `EveryRequestEnds` under fairness |

Type invariants are checked as `TypeOK`, or as the first conjunct of another
invariant of the run.

### Bounds

* Threads: two, which is what it takes to overtake; one where a finding needs no
  more.  The theorems have no bound.
* `Offered` sends commands of different kinds to different threads, so that each
  pair of commands that can disturb each other runs on both sides of some
  interleaving, and `create_tenant`, whose race with itself matters, to both.
* Ids (`TenantId`, `RegionId`, `ImageId`, `NetworkId`) bound the documents ever
  created.  `CreationFits`, `ImageFits` and `NetworkFits` stop a command from
  starting that could not be given an id: an artefact of the bound, not a check
  of the code.  Documents are never removed, and every property relates at most
  two of them.
* `region_threads` has one alias and two ids: two regions exist only when two
  overlapping `create_region` commands both found the alias free.  `MaxEdited` = 1
  stops edits from starting while there are two; what edits and wizards do to two
  regions is left to the theorems, which have no such bound.  With two images a
  double image has no third one to explain it; the double that another region
  opens is the trace of `region_two_regions`.
* Descriptions of modes are left blank (`Description` = {}) in `security_threads`,
  and tenants have one field besides their mode: no property tells them apart.
* Two items per wizard: the first and a later command, a failure at either, and the
  same image asked for twice.
* `MaxLosses` = 1: every batch can be redelivered once, so that a batch that was
  handled is handled again, before or after the others of its queue.  Batch sizes
  2, 1 and 0 reach the middle, the end and the empty loop.
* `MaxVersion` = 3: the fallback skips an empty version, looks one version back
  and has one version more to leave out.
* `MaxLate` = 1 and `MaxCompose` = 1 against a period of 3: the timer is late by
  less than a period and the page takes less than one.  This is an assumption of
  `RowsAreKept` and `PageIsComplete`, in the runs and in the theorems (section 4); a page that
  took several periods would lose rows.  The windows are the whole
  store, a part of it, more than it, and one whose `int` product overflows.
* `Half` stands for 2^31, small enough for the overflow to occur.
* `MaxRequests` = 2: a stale timeout, recheck or clean-up of the first request can meet
  the second one.  `MaxEntries` = 3: one listener more than an array has at the start, so that
  a removed entry that is still in its place is listened to again.  Both bounds stop an
  application from calling, and are no check of the code.
* The titles of `browser_session`: the agent's own tab, another fixed one, two regions
  that come and go (so that a stored choice can be missing), one of them with a title that
  is escaped in its link.

`CHECK_DEADLOCK FALSE` where the system comes to rest: all batches settled and
nothing published, all beans entered, all requests answered, all requests of the
bound sent and the object disposed of.

### Fairness

* `SdkListener!FairSpec`: weak fairness of each consumer (`Consume(q)`).  The
  container's threads run as long as the process does and handlers return.
  Nothing makes the server publish, and losses are bounded, not fair: a process
  that restarted for ever would settle nothing.
* `ScheduleInvoker!Spec`: weak fairness of the executor's thread, whose tasks end, and of
  the submission by a request thread that passed the check.

* `BrowserSession!Fairness`: weak fairness of `LoadHealth` and of `Reload`.  The browser
  runs the load handler of a document it has, and honours the `refresh` of a page that stays open.
  Nobody has to click, and a page may be left or discarded at any time.
* `XhrIo!Spec`: weak fairness of `Script` and of `TimerFires`.  A script that runs goes on, and a
  timer of the browser fires in the end.  Nothing makes the network answer: the timeout alone
  must end a request, and only one that was sent with an interval set.

The other modules are checked for safety and state no fairness.

## 4. Proofs

All theorems hold for any number of threads, documents and values, except as the
assumptions at the end of this section say.

* **SecurityModesProofs.**  `TypeCorrect`: an action changes only one thread's
  copies and one document, and both have their types.  `AtMostOneDefaultMode`:
  the property is not inductive by itself, because a save writes a copy loaded
  earlier; `DefaultInv` adds that every copy held by a thread has at most one
  default.  Then no matter how old the copy is, saving it is harmless.
  `ModesConfigured` shows `TenantModeConfigured` by `FreshInv`: what a thread holds
  agrees with the documents unless it was overtaken (`UpToDate`).  The proof has two
  halves.  A thread's own step keeps this (`OwnInv`), and when the thread was
  overtaken, what it takes away or hands out is noted in `spoiled`.  A step of
  another thread either changes nothing the command has read (`OthersKeep`), or
  makes it overtaken.
  `MovesComplete` shows the action property `MoveIsComplete`, and `PolicyImplemented`
  the refinement: every step of a thread that was not overtaken is a step of
  SecurityPolicy or changes nothing it sees.  Both need `PendingInv`, which says what such
  a thread is still going to do: the region it will save differs from the stored
  one by the one edit that it was asked for (`Change`), the copies it will update
  are those of tenants as they are stored (`CopyOf`), and no tenant that
  `set_security_mode` is to move (`ToMove`) is missing among them.
* **RegionConfigProofs.**  `TypeCorrect`, and `ShapesAreDistinct` by `ShapeInv`,
  again a property of stored documents and of copies.  The one lemma about data is
  `AppendDistinct`: appending a shape that the scan did not find.
  `ClaimsInvariant` is what the rest stands on: the alias a thread inserts is free, and what it
  saves is one edit of the stored document (`EditOf`), or the thread was overtaken.
  From it follow `RegionsKeepTheirShapes` and, as a refinement, `RegistryImplemented`:
  every step is a step of RegionRegistry, changes no document, or is the write of an
  overtaken thread.  `RegionsCounted` adds `AliasesClash` (two regions share an alias only
  if an overtaken `create_region` wrote it) and `CountersInv` (a region is being
  registered by one thread, and has its counter exactly when that is over and was
  not cut short).  `DoublesExplained` adds what `create_image` knows between its
  lookup and its save.
  For WizardBatch, `BatchesAreCommands` first shows that batches are made of the
  commands, so that all of the above holds of them.  `ResultsAreTrue` and
  `RepeatedBatchIsInert` then follow for wizards of any length from `BatchInv`: the
  results are in step with what was stored (`Progress`), what was stored is there or was
  overwritten by an overtaken save (`Kept`), and in the middle of a command the thread
  holds the item it is about to write (`Mid`).  `FirstOnes`, the puts into the
  LinkedHashMap, is shown by `Induction` to keep to the items of the wizard.
* **TenantNetworkProofs.**  `TypeCorrect`; `MadeInvHolds`, from which `VlansAgree`
  and `NothingIsLost` follow.  `MadeInv` adds that the networks in the hands of
  different threads are different, fit the request and are not registered yet.
  `OnlyRacesTakeNames` shows `TakenNamesWereRaced` by `CheckedFree`: between the check
  and the registration the name is free, or the thread was raced.
* **SdkListenerProofs.**  `IInvHolds`, and from it `NothingIsLost` (`Conserved`),
  `RunsPerDelivery`, `TrueAnswers` and `SyncIsAnswered`.  The invariant adds to the types that a
  queue's batches are published once and belong to the queue (`Queues`), what the step a consumer is at says
  about the results it has collected (`Steps`), how often each action has run given the deliveries
  and the action that is next (`Runs`), and which replies exist before a batch is settled (`Replied`).
  A delivery that is answered "blocked" runs nothing, so `Runs` bounds runs and blocked
  answers together.
* **ScheduleInvokerProofs.**  `TaskIsInOnePlace`.  The count of the queue equals the
  number of queued tasks only because no task is queued twice: `IInv` adds that.
* **BrowserSessionProofs.**  `TypeCorrect`, `TabsShowTheChoice`, and the
  refinement `ChoiceIsRemembered`: the session implements TabMemory.  What a loaded page shows depends on
  what was there before its script ran, so `IInv` adds `Fresh`: no tab is marked, everything is displayed,
  `currentData` is empty.  `LoadedWide` says which tab a loaded page brings to the front, the
  fact that makes loading a step of `TabMemory!Load`.  For the JMX pages, `EachListHasOneTab` (`OneTabPerList`) and the action
  property `ChoicesAreKept` (`OtherListsKept`) hold for lists nested in any way.  The property speaks of visible lists only and is not
  inductive: a click makes lists visible that were hidden.  `Good` speaks of every list that has a marked
  tab, hidden or not, and adds that the list under its choice has one, too; so no list becomes visible that
  was never started.  Loading starts the lists from the outside inwards and a click runs its listener
  once per level: both are recursive functions, and what they leave is shown with `Induction`, an
  induction principle for sets of numbers.  The runs of a listener after the first change nothing, because
  the tab is marked by then.
* **XhrIoProofs.**  `BaseHolds` and `WalksLocked`; `FreeHolds` and `FreeOrActiveHolds`;
  `MonitorReleasedHolds`; `LifecycleOrderHolds`.  The invariant speaks of any
  stack (`Base(s)`), so that a call from within an event can be taken apart: first
  the listener's own frame goes on (`ReturnBase`), then the call is one of an application
  with that stack for the rest.  Walks are counted by their places in the stack (`Places`, `PlacesAdd`).
  What the loop of `cleanUp_` leaves (`PurgeProperties`) is shown by induction on its
  counter, with `Induction`, which follows from the library's facts about well-founded relations.
  The two properties about the object between scripts need to know what the running script still
  has to do, which is on the stack.  `Free`: a request that is not active any more has its `cleanUp` on the
  stack (`EndsProperly`), at most one of them, and one that was sent with an interval and has no timeout yet, or none any more, has a frame
  there that will give it one or end it (`Enders`); a frame of `open` or `send` that has failed is the
  first one (`FailedFirst`).  When the stack is empty nothing of this can be left, and `FreeOrActive`
  remains.  `Released`: the contexts are those that the `pop` and `closed` frames on the stack take off,
  one each, and a pair of `blocked` names a request that is `xhr` or that a `closed` frame still closes.
  `Life`: what a request's log still lacks is on the stack.  An active request has had no event, or TIMEOUT
  with the `timedOut` frame below its listeners; one that is ending has its `cleanUp` there, with the
  events that complete its log right above it and nothing but listeners above them (`Ending`); every
  other request has its whole log, or READY is dispatched next.  Together with `Free`, which says that
  an event of the end is only dispatched for the request that ends, each dispatch appends what was missing.
  All three hold until a listener throws, because an exception drops such frames (section 6).

* **ServerProofs** extends HandlerTable and MemoryMonitor at once; they share neither
  state nor names (`TableSpec`, `MonitorSpec`).
  * HandlerTable: `HandlerIsNewest` and `RecentActionsAreFound`, from `TableInv`: what the
    maps hold, a bean declares, and what a bean declares, the maps hold, if only for a later bean.  The fallback of
    `GetHandler` through the versions is a recursive function; that it passes over versions without any
    handler, and no other, is shown by `Induction` on the version.
  * MemoryMonitor: `RingIsTheHistory`, `RowsStay` and `PageHasNoHole`.  `Ring(p)`
    names the slot `p` that was set last; then every slot has a rank (`RankOf`: runs of the timer since it was
    set), and its age and the time until the next run make up that many periods, less the lateness
    at most.  Hence the oldest slot is the one after `p`, around the ring.  A page adds `KeptAt(ran)`: the timer
    has run since the request at most once, and what that run replaced is the only row that is not kept; and
    `WarmAt(p, ran)`: every slot already read is a row if it belongs there, but for the one that
    was set meanwhile.  The hypotheses are that the timer is late by less than a period
    (`TimerAssumptions`), that page and timer together take less than one, and that the store time and
    both delays fit into the ring (`PageAssumptions`).  With the code's defaults,
    a sample every 5 s and a store time of 7200 s, all three hold if the timer's lateness and the page's
    time together stay below 5 s.

Assumptions used: `Null` is none of the values it is compared with
(`NullIsNoValue`, `NullIsNoUse`, `NullIsNoDocument`, `NullIsNothingElse`, `NullIsNoWork`,
`NullIsNoHandler`, `NullIsNoMap`, `NullIsNoRequest`); threads are offered commands
(`OfferedAreCommands`), wizards are batches and go to threads (`WizardsAreBatches`,
`RunnersAreThreads`), and whether networks may fail is a flag (`MayFailIsFlag`); the two queues share no
batch (`QueuesAreSeparate`); the titles of a page are among all titles
(`TitlesAssumption`, `NoTabAssumption`), and the lists of tabs of a JMX page form a tree
without empty lists (`JmxAssumption`); versions, bounds and times are natural numbers
(`VersionsAreCounted`, `BoundsAreNaturals`, `TimesAreCounted`, `BoundsAssumption`); listeners are
registered for types that exist and none is removed at the start
(`RegisteredAssumption`, `TypesAssumption`).  None of them bounds threads or documents or
says that commands come one at a time.

Every safety invariant, action property and refinement that a passing run checks is also a theorem.

Only model-checked: the liveness properties `EverySettled`, `AcceptedIsExecuted`, `OutageIsSeen` and
`EveryRequestEnds`.  Liveness under fairness is out of reach of the prover and stays with TLC.

## 5. Not modelled

* What formats: console command texts and wizard steps, views, colours, dates.
* What only reads: describing security modes, scheduled jobs, tenant pages,
  the run report and how the health check makes its report (its result is an input of TabReporting).
* The JMX information page on the server: what a page shows while another request refills the shared maps
  depends on the iteration of library maps during changes, which the code does not define further.
* Of the Closure library: bubbling to parent targets, capture and the counter `remaining_` of
  `goog.events`, listeners of DOM elements, and everything the pages load without calling it
  (formats, dates, JSON, history, animations, collections).
* Error icons of the JMX pages, which radar.js adds as tabReporting.js does; no template of the
  repository nests lists of tabs, but radar.js supports it, and RadarTabs models that.
* The JMX page whose list has no tab: `api-info-body.ftl` renders an empty list when
  there are no domains, radar.js stops with an exception on it, and nothing is left to
  click.  `JmxAssumption` leaves that page out.
* Which fields a request must have: a request is valid or is `Reject`ed.
* Decryption of request bodies, and what a handler does to OpenStack: a handler
  runs and succeeds or fails.
* The figures of a memory sample, a torn read of one sample, and the formatter the
  page's threads share.
* The system endpoints, whose services are not in this repository.

## 6. Where the code and its own statements disagree

* `region_two_regions`: `create_image` looks an image up by native id alone and
  compares the region of the one document it gets.  Register an image in two
  regions and it can be registered again in the first, although the command answers
  "ERROR: Image specified nativeId already exist" for that.  `DoublesExplained` proves
  that there are two ways only to a second registration: this one, and a thread that was
  overtaken between its lookup and its save.
* `network_race`: two `configure_tenant_network` commands for one name both pass
  `checkVLANExist` and both register it.  `OnlyRacesTakeNames` proves that a name is
  registered twice only by a command that was raced in this way.
* `memory_last_slot`: the comment at `DoMemoryService` 103, "ignore last: for app
  initialization state info", reserves the last slot for the state at start-up, and the page
  leaves that slot out.  The search at 103-113 runs over all slots, so the timer stores a
  regular sample there: the state at start-up is lost, and the page misses that sample.

No command locks the document it loads and saves, so what the commands on tenants and regions
promise holds up to overtaking, and the histories `overtaken`, `raced` and `spoiled` say how far
that is.  The save of an overtaken command may take a mode from its tenants, or shapes and
images from its region.  A mode or a region that no such save touched keeps them, whatever runs
beside it (`TenantModeConfigured`, `ShapesOnlyGrow`), a command that is not overtaken does all it
says (`MoveIsComplete`), and some things hold in spite of stale saves: one default mode per
region, and distinct shapes.

One smaller observation has no run: a request that passed the check of
`ScheduleProcessorInvoker` is queued rather than refused when another task has started since.

In the Closure library two more: a listener that throws leaves `abort` and
`onReadyStateChangeHelper_` before `cleanUpXhr_`, and the object refuses every `send` until
it is disposed of (its timeout aborts only what is active), which is why the properties of `xhr_requests` about the object's state are
stated for listeners that do not throw; and `listen` looks at the first entry of a function only, so that
one that is removed during an event and listened to again has two entries until the walk is over.

## 7. What could follow

The JMX information page and its shared maps; how often the code repairs itself after a stale
save, since every later command writes the whole document again; the empty list of the JMX page.
