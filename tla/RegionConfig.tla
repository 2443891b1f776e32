----------------------------- MODULE RegionConfig -----------------------------
(***************************************************************************)
(* OpenStack region documents, the instance counters and the machine image *)
(* documents, as the admin API of the private agent edits them.            *)
(*                                                                         *)
(* Every command runs on a request thread without locks: it looks documents*)
(* up, changes its copies and saves whole documents.  A step is one        *)
(* database operation of one thread with the thread-local work up to the   *)
(* next one.  It may throw without having taken place, which ends the      *)
(* command, and a restart of the process loses the threads' copies.  The   *)
(* security modes inside a region document are module SecurityModes.       *)
(*                                                                         *)
(* What a command is about to write rests on what it read: that an alias is*)
(* free, what a region document holds, that an image is not registered.    *)
(* The history variable overtaken names the threads for which that is no   *)
(* longer so, because another command has written there since; spoiled     *)
(* names what such threads wrote all the same.                             *)
(***************************************************************************)
EXTENDS Sequences, FiniteSets, Integers

CONSTANTS
    Thread,      \* request threads of the servlet container
    Alias,       \* region aliases
    RegionId,    \* region document ids (bounds the regions registered)
    ShapeId,     \* native ids of flavors
    Field,       \* adminUserCredentials, serviceTenantInfo and
                 \* rabbitNotificationConfig, or some of them
    Value,       \* what those fields may hold
    Mapping,     \* platform to shape mappings
    NativeId,    \* native ids of images
    ImageId,     \* image document ids (bounds the images registered)
    Null,        \* Java null
    Offered,     \* Offered[t]: the commands sent to thread t
    MaxEdited    \* bound: no edit starts while there are more regions

Command == {"create_region", "set_field", "create_shape",
            "create_admin_project_meta", "add_project_meta_image",
            "set_region_management", "create_image"}

\* AdminProjectMeta.
Meta == [imagesMapping: SUBSET Mapping]

\* OpenStackRegionConfig.
Region == [regionAlias: Alias, allowedShapes: Seq(ShapeId),
           managementAvailable: BOOLEAN, settings: [Field -> Value \cup {Null}],
           adminProjectMeta: Meta \cup {Null}]

\* OpenStackMachineImage.
Image == [nativeId: NativeId, regionId: RegionId]

ASSUME NullIsNoDocument ==
    Null \notin Region \cup Image \cup Meta \cup RegionId \cup NativeId

ASSUME OfferedAreCommands == Offered \in [Thread -> SUBSET Command]

VARIABLES
    regions,    \* regions[id]: the stored region document, or Null
    counters,   \* ids of the regions that have an instance counter
    images,     \* images[id]: the stored image document, or Null
    pc,         \* pc[t]: the database operation thread t does next, or its reply
    rid,        \* rid[t]: the id of the region thread t looked up
    copy,       \* copy[t]: the region document thread t holds
    native,     \* native[t]: the native id of the image thread t registers
    cutShort,   \* history: the regions whose create_region was cut short
    overtaken,  \* history: the threads another one overtook
    spoiled     \* history: the targets an overtaken thread wrote

store == <<regions, counters, images, cutShort>>
history == <<overtaken, spoiled>>
vars == <<store, pc, rid, copy, native, history>>

Replies == {"idle", "ok", "error"}
Steps   == {"insert", "refind", "count", "save", "find_image", "save_image"}

Free(t, c) == pc[t] \in Replies /\ c \in Offered[t]

Goto(t, p, id, doc, n) ==
    /\ pc' = [pc EXCEPT ![t] = p]
    /\ rid' = [rid EXCEPT ![t] = id]
    /\ copy' = [copy EXCEPT ![t] = doc]
    /\ native' = [native EXCEPT ![t] = n]

Return(t, r) == Goto(t, r, Null, Null, Null)

\* regionService.findByAliasInCloud returns one of the documents, or null.
Registered(a) == {id \in RegionId : regions[id] # Null /\ regions[id].regionAlias = a}

Init ==
    /\ regions = [id \in RegionId |-> Null]
    /\ counters = {}
    /\ images = [i \in ImageId |-> Null]
    /\ pc = [t \in Thread |-> "idle"]
    /\ rid = [t \in Thread |-> Null]
    /\ copy = [t \in Thread |-> Null]
    /\ native = [t \in Thread |-> Null]
    /\ cutShort = {}
    /\ overtaken = {} /\ spoiled = {}

\* A request refused before any write: no such region, or EntityValidator.
Reject(t) ==
    /\ pc[t] \in Replies
    /\ Return(t, "error")
    /\ UNCHANGED store

-----------------------------------------------------------------------------
(* Registering a region *)

\* Mutant of NewRegion: the management flag is left unset.
UnsetFlag(a) ==
    [regionAlias |-> a, allowedShapes |-> <<>>, managementAvailable |-> Null,
     settings |-> [f \in Field |-> Null], adminProjectMeta |-> Null]

NewRegion(a) ==
    [regionAlias |-> a, allowedShapes |-> <<>>, managementAvailable |-> FALSE,
     settings |-> [f \in Field |-> Null], adminProjectMeta |-> Null]

\* Bound: no creation starts that could find every id of RegionId taken.
CreationFits ==
    Cardinality({id \in RegionId : regions[id] # Null})
        + Cardinality({t \in Thread : pc[t] = "insert"})
    < Cardinality(RegionId)

\* Mutant of CreateRegion: the alias is not looked up first.
CreateUnchecked(t) ==
    \E a \in Alias :
        /\ Free(t, "create_region")
        /\ CreationFits
        /\ Goto(t, "insert", Null, NewRegion(a), Null)
        /\ UNCHANGED store

CreateRegion(t) ==
    \E a \in Alias :
        /\ Free(t, "create_region")
        /\ IF Registered(a) # {}
           THEN Return(t, "error")
           ELSE CreationFits /\ Goto(t, "insert", Null, NewRegion(a), Null)
        /\ UNCHANGED store

InsertRegion(t) ==
    /\ pc[t] = "insert"
    /\ \E id \in RegionId :
        /\ regions[id] = Null
        /\ regions' = [regions EXCEPT ![id] = copy[t]]
    /\ Goto(t, "refind", Null, copy[t], Null)
    /\ UNCHANGED <<counters, images, cutShort>>

\* The id is not taken from save: the region is looked up by alias again.
RefindRegion(t) ==
    /\ pc[t] = "refind"
    /\ \E id \in Registered(copy[t].regionAlias) : Goto(t, "count", id, Null, Null)
    /\ UNCHANGED store

AddCounter(t) ==
    /\ pc[t] = "count"
    /\ counters' = counters \cup {rid[t]}
    /\ Return(t, "ok")
    /\ UNCHANGED <<regions, images, cutShort>>

-----------------------------------------------------------------------------
(* Editing a region: each command loads it, changes one field, saves it all *)

\* The command was sent and its alias led the thread to document id; an alias
\* nobody registered is Reject.
Loads(t, c, id) == Free(t, c) /\ regions[id] # Null

Edits(t, c, id) ==
    /\ Loads(t, c, id)
    /\ Cardinality({i \in RegionId : regions[i] # Null}) <= MaxEdited

SaveLater(t, id, doc) == Goto(t, "save", id, doc, Null) /\ UNCHANGED store
AnswerNow(t, r) == Return(t, r) /\ UNCHANGED store

\* Mutant of SetField: the saved document is made from the request.
SaveFromRequest(t) ==
    \E id \in RegionId, f \in Field, v \in Value :
        /\ Edits(t, "set_field", id)
        /\ SaveLater(t, id, [NewRegion(regions[id].regionAlias) EXCEPT !.settings[f] = v])

\* set_service_tenant, set_user and set_rabbit_config, each for its field.
SetField(t) ==
    \E id \in RegionId, f \in Field, v \in Value :
        /\ Edits(t, "set_field", id)
        /\ SaveLater(t, id, [regions[id] EXCEPT !.settings[f] = v])

\* Mutants of HasShape: the scan starts at the second shape; there is no scan.
SkipFirst(doc, s) == \E i \in DOMAIN doc.allowedShapes \ {1} : doc.allowedShapes[i] = s
NoScan(doc, s) == FALSE

HasShape(doc, s) == \E i \in DOMAIN doc.allowedShapes : doc.allowedShapes[i] = s

CreateShape(t, id, s) ==
    /\ Edits(t, "create_shape", id)
    /\ IF HasShape(regions[id], s)
       THEN AnswerNow(t, "error")
       ELSE SaveLater(t, id, [regions[id] EXCEPT !.allowedShapes = Append(@, s)])

\* The new meta replaces the old one, with the mappings of the request.
CreateAdminProjectMeta(t) ==
    \E id \in RegionId, meta \in Meta :
        /\ Edits(t, "create_admin_project_meta", id)
        /\ SaveLater(t, id, [regions[id] EXCEPT !.adminProjectMeta = meta])

AddProjectMetaImage(t) ==
    \E id \in RegionId, m \in Mapping :
        /\ Edits(t, "add_project_meta_image", id)
        /\ IF regions[id].adminProjectMeta = Null
           THEN AnswerNow(t, "error")
           ELSE SaveLater(t, id, [regions[id] EXCEPT !.adminProjectMeta.imagesMapping = @ \cup {m}])

SetRegionManagement(t) ==
    \E id \in RegionId, b \in BOOLEAN :
        /\ Edits(t, "set_region_management", id)
        /\ IF regions[id].managementAvailable = b
           THEN AnswerNow(t, "ok")
           ELSE SaveLater(t, id, [regions[id] EXCEPT !.managementAvailable = b])

SaveRegion(t) ==
    /\ pc[t] = "save"
    /\ regions' = [regions EXCEPT ![rid[t]] = copy[t]]
    /\ Return(t, "ok")
    /\ UNCHANGED <<counters, images, cutShort>>

-----------------------------------------------------------------------------
(* Registering an image *)

\* Bound: no creation starts that could find every id of ImageId taken.
ImageFits ==
    Cardinality({i \in ImageId : images[i] # Null})
        + Cardinality({t \in Thread : pc[t] \in {"find_image", "save_image"}})
    < Cardinality(ImageId)

CreateImage(t, id, n) ==
    /\ Loads(t, "create_image", id)
    /\ ImageFits
    /\ Goto(t, "find_image", id, Null, n)
    /\ UNCHANGED store

\* findByNativeId asks for the native id only, not for the region: what it
\* returns is any one of the images that have it.
Found(n) == {i \in ImageId : images[i] # Null /\ images[i].nativeId = n}

\* Mutant of FindImage: an image that exists is registered again.
IgnoreFound(t) ==
    /\ pc[t] = "find_image"
    /\ Goto(t, "save_image", rid[t], Null, native[t])
    /\ UNCHANGED store

FindImage(t) ==
    /\ pc[t] = "find_image"
    /\ \/ \E i \in Found(native[t]) :
            IF images[i].regionId = rid[t]
            THEN Return(t, "error")
            ELSE Goto(t, "save_image", rid[t], Null, native[t])
       \/ /\ Found(native[t]) = {}
          /\ Goto(t, "save_image", rid[t], Null, native[t])
    /\ UNCHANGED store

SaveImage(t) ==
    /\ pc[t] = "save_image"
    /\ \E i \in ImageId :
        /\ images[i] = Null
        /\ images' = [images EXCEPT
                          ![i] = [nativeId |-> native[t], regionId |-> rid[t]]]
    /\ Return(t, "ok")
    /\ UNCHANGED <<regions, counters, cutShort>>

-----------------------------------------------------------------------------
(* Failures and restarts *)

\* Thread t has stored region id and not yet added its counter.
Registering(t, id) ==
    \/ /\ pc[t] = "refind"
       /\ id \in Registered(copy[t].regionAlias)
    \/ pc[t] = "count" /\ rid[t] = id

CutShort(threads) == {id \in RegionId : \E t \in threads : Registering(t, id)}

\* The operation of thread t throws and has changed nothing.
DatabaseFails(t) ==
    /\ pc[t] \in Steps
    /\ Return(t, "error")
    /\ cutShort' = cutShort \cup CutShort({t})
    /\ UNCHANGED <<regions, counters, images>>

\* The process dies: only the database survives.
Restart ==
    /\ \E t \in Thread : pc[t] # "idle"
    /\ pc' = [t \in Thread |-> "idle"]
    /\ rid' = [t \in Thread |-> Null]
    /\ copy' = [t \in Thread |-> Null]
    /\ native' = [t \in Thread |-> Null]
    /\ cutShort' = cutShort \cup CutShort(Thread)
    /\ overtaken' = {}
    /\ UNCHANGED <<regions, counters, images, spoiled>>

-----------------------------------------------------------------------------
(* The whole *)

\* The database operation thread t does next writes what it is the target of,
\* on the strength of what the thread read there.
Writing(t) == pc[t] \in {"insert", "save", "save_image"}
Target(t) == <<pc[t], IF pc[t] = "insert" THEN copy[t].regionAlias
                      ELSE IF pc[t] = "save" THEN rid[t] ELSE native[t]>>

Rivals(t) == {u \in Thread \ {t} : Writing(u) /\ Target(u) = Target(t)}

\* The history of a step of thread t.
Note(t) ==
    LET wrote == Writing(t) /\ pc'[t] # "error"
    IN  /\ overtaken' = (IF wrote THEN overtaken \cup Rivals(t) ELSE overtaken) \ {t}
        /\ spoiled' = IF wrote /\ t \in overtaken
                      THEN spoiled \cup {Target(t)} ELSE spoiled

Operation(t) ==
    \/ Reject(t)
    \/ CreateRegion(t) \/ InsertRegion(t) \/ RefindRegion(t) \/ AddCounter(t)
    \/ SetField(t)
    \/ \E id \in RegionId : \E s \in ShapeId : CreateShape(t, id, s)
    \/ CreateAdminProjectMeta(t) \/ AddProjectMetaImage(t)
    \/ SetRegionManagement(t) \/ SaveRegion(t)
    \/ \E id \in RegionId : \E n \in NativeId : CreateImage(t, id, n)
    \/ FindImage(t) \/ SaveImage(t)
    \/ DatabaseFails(t)

Next == Restart \/ \E t \in Thread : Operation(t) /\ Note(t)

Spec == Init /\ [][Next]_vars

-----------------------------------------------------------------------------
(* Properties *)

\* A thread in the middle of a command has what the rest of it reads.
HoldsEnough(t) ==
    /\ pc[t] \in {"insert", "refind", "save"} => copy[t] \in Region
    /\ pc[t] \in {"count", "save", "find_image", "save_image"} => rid[t] \in RegionId
    /\ pc[t] \in {"find_image", "save_image"} => native[t] \in NativeId

TypeOK ==
    /\ regions \in [RegionId -> Region \cup {Null}]
    /\ counters \subseteq RegionId
    /\ images \in [ImageId -> Image \cup {Null}]
    /\ pc \in [Thread -> Replies \cup Steps]
    /\ rid \in [Thread -> RegionId \cup {Null}]
    /\ copy \in [Thread -> Region \cup {Null}]
    /\ native \in [Thread -> NativeId \cup {Null}]
    /\ cutShort \subseteq RegionId
    /\ overtaken \subseteq {t \in Thread : Writing(t)}
    /\ \A t \in Thread : HoldsEnough(t)

Distinct(doc) ==
    \A i, j \in DOMAIN doc.allowedShapes :
        doc.allowedShapes[i] = doc.allowedShapes[j] => i = j

\* No stored region lists a flavor twice, however the commands interleave:
\* CreateShape scans the copy it saves, and a save replaces the whole list.
ShapesDistinct == \A id \in RegionId : regions[id] # Null => Distinct(regions[id])

\* What keeps it so: neither does a copy a thread is going to save.
ShapeInv ==
    /\ ShapesDistinct
    /\ \A t \in Thread : copy[t] # Null => Distinct(copy[t])

ListedShapes(doc) == {doc.allowedShapes[i] : i \in DOMAIN doc.allowedShapes}

\* No command removes a shape, so once CreateShape has answered "Shape was
\* successfully added" the region lists it, until an overtaken command saves its
\* copy there: nothing else ever takes a shape out, and no region disappears.
ShapesOnlyGrow ==
    [][\A id \in RegionId : regions[id] # Null =>
          /\ regions'[id] # Null
          /\ \/ ListedShapes(regions[id]) \subseteq ListedShapes(regions'[id])
             \/ \E t \in overtaken : /\ pc[t] = "save" /\ rid[t] = id
                                     /\ regions'[id] = copy[t]]_vars

\* A region has its instance counter, without which its instances cannot be
\* numbered, once create_region is through with it; one whose registration a
\* restart or the database cut short never gets it, for create_region refuses
\* its alias.  The counter is added to whatever the second lookup by alias
\* returns: that is the right region unless two overlapping create_region
\* commands both found the alias free.
RegionsHaveCounters ==
    \A id \in RegionId :
        regions[id] # Null /\ <<"insert", regions[id].regionAlias>> \notin spoiled =>
            (id \in counters <=> id \notin cutShort \cup CutShort(Thread))

\* A region lists an image once: CreateImage refuses a native id the region
\* already has.  This is what its error message promises.
ImagesRegisteredOnce ==
    \A i, j \in ImageId :
        images[i] # Null /\ images[i] = images[j] => i = j

\* It is broken in two ways only: another region has an image with the native
\* id, which the lookup may return instead, or two create_image commands for the
\* native id overlapped.
DoublesAreExplained ==
    \A i, j \in ImageId :
        images[i] # Null /\ images[i] = images[j] /\ i # j =>
            \/ <<"save_image", images[i].nativeId>> \in spoiled
            \/ \E k \in Found(images[i].nativeId) : images[k].regionId # images[i].regionId

Registry == INSTANCE RegionRegistry WITH docs <- regions

\* The region documents implement a registry in which every command takes
\* effect at once on one region, changes one field of it and undoes no other
\* command's change, but for the writes of overtaken commands: each of those
\* puts the copy the thread holds into one document.
ImplementsRegistry ==
    /\ Registry!Init
    /\ [][\/ Registry!Next
          \/ \E t \in overtaken : \E id \in RegionId :
                 regions' = [regions EXCEPT ![id] = copy[t]]]_regions
=============================================================================
