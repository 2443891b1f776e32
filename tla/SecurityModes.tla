---------------------------- MODULE SecurityModes ----------------------------
(***************************************************************************)
(* The security modes of OpenStack regions and the tenants that use them,  *)
(* as the admin API of the private agent edits them.                       *)
(*                                                                         *)
(* A region document holds a map from mode names to configurations, a      *)
(* tenant document names the mode it uses.  Each admin command runs on a   *)
(* request thread, takes no lock, reads whole documents from Mongo, changes*)
(* the copies in memory and saves whole documents.  A step of this module  *)
(* is one database operation of one thread together with the thread-local  *)
(* work up to the next one; a process restart loses every thread.          *)
(*                                                                         *)
(* Regions are never removed and their aliases never change, so a region   *)
(* is named by its alias here; registering them is module RegionConfig.    *)
(*                                                                         *)
(* A command decides by what it has read of its region: its modes and who  *)
(* uses them.  The history variable overtaken names the commands under way *)
(* for which another one has changed that since they began; spoiled names  *)
(* the modes that such commands took away or handed out all the same.      *)
(***************************************************************************)
EXTENDS FiniteSets, Integers

CONSTANTS
    Thread,        \* request threads of the servlet container
    Region,        \* registered OpenStack regions
    Mode,          \* security mode names
    Alias,         \* tenant aliases
    TenantId,      \* document ids Mongo may assign (bounds the creations)
    Description,   \* non-blank mode descriptions
    Field,         \* what else tenant documents hold: managementAvailable,
                   \* describeAllInstances, the user; or some of them
    Checked,       \* those whose command saves a tenant only if it changed
    Value,         \* what they may hold
    Null,          \* Java null, or a blank string
    Offered        \* Offered[t]: the commands sent to thread t

Command == {"configure_security_mode", "delete_security_mode",
            "set_security_mode", "create_tenant", "set_tenant_field",
            "other_region_command"}

\* SecurityModeConfiguration, without the admin group id nothing here reads.
Configuration == [default: BOOLEAN, description: Description \cup {Null}]

\* OpenStackRegionConfig.securityModeConfigurations: Null where no entry.
ModeMap == [Mode -> Configuration \cup {Null}]

\* OpenStackTenant.
Tenant == [alias: Alias, region: Region, mode: Mode \cup {Null},
           settings: [Field -> Value \cup {Null}]]

ASSUME NullIsNoValue ==
    Null \notin Configuration \cup Tenant \cup Mode \cup Alias
                    \cup Description \cup Value

\* Neither is it what a tenant record says of the mode in use.
ASSUME NullIsNoUse == Null \notin [region: Region, mode: Mode \cup {Null}]

ASSUME OfferedAreCommands == Offered \in [Thread -> SUBSET Command]

VARIABLES
    modes,     \* modes[r]: the map in the stored document of region r
    tenants,   \* tenants[i]: the stored tenant document with id i, or Null
    pc,        \* pc[t]: the database operation thread t does next, or its reply
    req,       \* req[t]: the request thread t serves
    snap,      \* snap[t]: the copy of the region's mode map thread t holds
    todo,      \* todo[t][i]: the copy of tenant i thread t is going to save
    overtaken, \* history: the threads another one overtook
    spoiled    \* history: <<region, mode>> pairs an overtaken thread touched

vars == <<modes, tenants, pc, req, snap, todo, overtaken, spoiled>>

-----------------------------------------------------------------------------
(* Requests and threads *)

\* What the request DTOs carry; a field a command does not read is Null/FALSE.
Request == [cmd: Command, region: Region, mode: Mode \cup {Null},
            tenant: Alias \cup {Null}, current: Mode \cup {Null}]

Replies == {"idle", "ok", "unchanged", "error"}
Steps   == {"save_region", "count", "select", "unique", "create", "update"}

NoModes == [m \in Mode |-> Null]
NoTodo  == [i \in TenantId |-> Null]

Free(t, c) == pc[t] \in Replies /\ c \in Offered[t]

\* The handler returns r, or throws (r = "error"); its copies are garbage.
Return(t, r) ==
    /\ pc'   = [pc EXCEPT ![t] = r]
    /\ req'  = [req EXCEPT ![t] = Null]
    /\ snap' = [snap EXCEPT ![t] = NoModes]
    /\ todo' = [todo EXCEPT ![t] = NoTodo]

\* The thread goes on to database operation p with the copies doc and docs.
Continue(t, p, rq, doc, docs) ==
    /\ pc'   = [pc EXCEPT ![t] = p]
    /\ req'  = [req EXCEPT ![t] = rq]
    /\ snap' = [snap EXCEPT ![t] = doc]
    /\ todo' = [todo EXCEPT ![t] = docs]

RequestFor(c, r) ==
    [cmd |-> c, region |-> r, mode |-> Null, tenant |-> Null, current |-> Null]

-----------------------------------------------------------------------------
(* Reading documents *)

Configured(doc, m) == doc[m] # Null
Defaults(doc) == {m \in Mode : Configured(doc, m) /\ doc[m].default}

TenantsOf(r) == {i \in TenantId : tenants[i] # Null /\ tenants[i].region = r}

\* TenantRepository.findProjectsWithSecurityMode.
TenantsWithMode(r, m) == {i \in TenantsOf(r) : tenants[i].mode = m}

\* findByTenantAliasAndRegionIdInCloud / findOpenStackTenantByNameAndRegion;
\* a finder returns any one of several matches.
TenantsNamed(r, a) == {i \in TenantsOf(r) : tenants[i].alias = a}

-----------------------------------------------------------------------------
Init ==
    /\ modes = [r \in Region |-> NoModes]
    /\ tenants = NoTodo
    /\ pc = [t \in Thread |-> "idle"]
    /\ req = [t \in Thread |-> Null]
    /\ snap = [t \in Thread |-> NoModes]
    /\ todo = [t \in Thread |-> NoTodo]
    /\ overtaken = {} /\ spoiled = {}

\* A request refused before any write: no such region, or EntityValidator.
Reject(t) ==
    /\ pc[t] \in Replies
    /\ Return(t, "error")
    /\ UNCHANGED <<modes, tenants>>

(* Security mode commands *)

\* Mutant of Overridden: the flag of the previous default is not cleared.
KeepOldDefault(doc, m, d, flag) ==
    [doc EXCEPT ![m] = [default |-> flag,
                        description |-> IF d = Null THEN doc[m].description ELSE d]]

\* updateDescription and updateDefaultMode on the copy of the document.
Overridden(doc, m, d, flag) ==
    [n \in Mode |->
        IF n = m
        THEN [default |-> flag,
              description |-> IF d = Null THEN doc[m].description ELSE d]
        ELSE IF Configured(doc, n) /\ flag /\ ~doc[m].default
        THEN [doc[n] EXCEPT !.default = FALSE]
        ELSE doc[n]]

\* createConfiguration's refusals; the group lookup is an external answer.
Creatable(doc, m, flag, groupExists) ==
    /\ ~Configured(doc, m)
    /\ groupExists
    /\ flag => Defaults(doc) = {}

Created(doc, m, d, flag) ==
    [doc EXCEPT ![m] = [default |-> flag, description |-> d]]

CreateConfiguration(t) ==
    \E r \in Region, m \in Mode, d \in Description \cup {Null},
       flag, groupExists \in BOOLEAN :
        LET doc == modes[r]
            rq  == [RequestFor("configure_security_mode", r) EXCEPT !.mode = m]
        IN  /\ Free(t, "configure_security_mode")
            /\ IF Creatable(doc, m, flag, groupExists)
               THEN Continue(t, "save_region", rq, Created(doc, m, d, flag), NoTodo)
               ELSE Return(t, "error")
            /\ UNCHANGED <<modes, tenants>>

OverrideConfiguration(t) ==
    \E r \in Region, m \in Mode, d \in Description \cup {Null}, flag \in BOOLEAN :
        LET doc == modes[r]
            new == Overridden(doc, m, d, flag)
            rq  == [RequestFor("configure_security_mode", r) EXCEPT !.mode = m]
        IN  /\ Free(t, "configure_security_mode")
            /\ IF ~Configured(doc, m) THEN Return(t, "error")
               ELSE IF new = doc THEN Return(t, "unchanged")
               ELSE Continue(t, "save_region", rq, new, NoTodo)
            /\ UNCHANGED <<modes, tenants>>

DeleteSecurityMode(t) ==
    \E r \in Region, m \in Mode :
        LET rq == [RequestFor("delete_security_mode", r) EXCEPT !.mode = m]
        IN  /\ Free(t, "delete_security_mode")
            /\ IF Configured(modes[r], m)
               THEN Continue(t, "count", rq, modes[r], NoTodo)
               ELSE Return(t, "error")
            /\ UNCHANGED <<modes, tenants>>

\* Mutant of Deletable: the tenants that use the mode are not counted.
DeleteUsedMode(r, m) == TRUE

\* The tenants of the mode are counted after the region was loaded.
Deletable(r, m) == TenantsWithMode(r, m) = {}

CountTenants(t) ==
    /\ pc[t] = "count"
    /\ IF Deletable(req[t].region, req[t].mode)
       THEN Continue(t, "save_region", req[t],
                     [snap[t] EXCEPT ![req[t].mode] = Null], NoTodo)
       ELSE Return(t, "error")
    /\ UNCHANGED <<modes, tenants>>

\* Every other region command saves the whole region it loaded, modes included.
OtherRegionCommand(t) ==
    \E r \in Region :
        /\ Free(t, "other_region_command")
        /\ Continue(t, "save_region", RequestFor("other_region_command", r),
                    modes[r], NoTodo)
        /\ UNCHANGED <<modes, tenants>>

SaveRegion(t) ==
    /\ pc[t] = "save_region"
    /\ modes' = [modes EXCEPT ![req[t].region] = snap[t]]
    /\ Return(t, "ok")
    /\ UNCHANGED tenants

\* The tenants are named by one alias, by their current mode, or all of them.
SetSecurityMode(t) ==
    \E r \in Region, m \in Mode,
       who \in ({Null} \X (Mode \cup {Null})) \cup (Alias \X {Null}) :
        LET rq == [RequestFor("set_security_mode", r) EXCEPT
                       !.mode = m, !.tenant = who[1], !.current = who[2]]
        IN  /\ Free(t, "set_security_mode")
            /\ IF Configured(modes[r], m)
               THEN Continue(t, "select", rq, modes[r], NoTodo)
               ELSE Return(t, "error")
            /\ UNCHANGED <<modes, tenants>>

\* Mutant of Selections: a finder that returns one document is used throughout.
SelectOne(rq) ==
    IF rq.tenant # Null THEN {{i} : i \in TenantsNamed(rq.region, rq.tenant)}
    ELSE {{i} : i \in TenantsOf(rq.region)}

\* getTenants: the sets of documents the finder it calls may return.
Selections(rq) ==
    IF rq.tenant # Null THEN {{i} : i \in TenantsNamed(rq.region, rq.tenant)}
    ELSE IF rq.current # Null THEN {TenantsWithMode(rq.region, rq.current)} \ {{}}
    ELSE {TenantsOf(rq.region)} \ {{}}

Moved(i, m) == [tenants[i] EXCEPT !.mode = m]

SelectTenants(t) ==
    /\ pc[t] = "select"
    /\ \/ \E sel \in Selections(req[t]) :
             Continue(t, "update", req[t], NoModes,
                      [i \in TenantId |-> IF i \in sel
                                          THEN Moved(i, req[t].mode) ELSE Null])
       \/ /\ Selections(req[t]) = {}
          /\ Return(t, "error")
    /\ UNCHANGED <<modes, tenants>>

\* Saving the next tenant of todo[t], in any order; the last one returns.
UpdateTenant(t) ==
    /\ pc[t] = "update"
    /\ \E i \in TenantId :
        LET rest == [todo[t] EXCEPT ![i] = Null]
        IN  /\ todo[t][i] # Null
            /\ tenants' = [tenants EXCEPT ![i] = todo[t][i]]
            /\ IF rest = NoTodo
               THEN Return(t, "ok")
               ELSE Continue(t, "update", req[t], NoModes, rest)
    /\ UNCHANGED modes

\* ISecurityGroupService.updateSecurityType throws: the tenants updated so
\* far stay updated and the rest is not tried.
UpdateFails(t) ==
    /\ pc[t] = "update"
    /\ req[t].cmd = "set_security_mode"
    /\ Return(t, "error")
    /\ UNCHANGED <<modes, tenants>>

(* Tenant commands *)

\* Bound: no creation starts that could find every id of TenantId taken.
CreationFits ==
    Cardinality({i \in TenantId : tenants[i] # Null})
        + Cardinality({t \in Thread : pc[t] \in {"unique", "create"}})
    < Cardinality(TenantId)

CreateTenant(t) ==
    \E r \in Region, a \in Alias, m \in Mode \cup {Null} :
        /\ Free(t, "create_tenant")
        /\ CreationFits
        /\ Continue(t, "unique",
                    [RequestFor("create_tenant", r) EXCEPT !.tenant = a, !.mode = m],
                    modes[r], NoTodo)
        /\ UNCHANGED <<modes, tenants>>

\* setSecurityMode: the modes a new tenant may get, read from the loaded region;
\* empty when the named mode is not configured, Null when there is no default.
InitialModes(doc, m) ==
    IF m # Null THEN {m} \cap {n \in Mode : Configured(doc, n)}
    ELSE IF Defaults(doc) = {} THEN {Null}
    ELSE Defaults(doc)

CheckTenantAbsent(t) ==
    /\ pc[t] = "unique"
    /\ IF \/ TenantsNamed(req[t].region, req[t].tenant) # {}
          \/ InitialModes(snap[t], req[t].mode) = {}
       THEN Return(t, "error")
       ELSE Continue(t, "create", req[t], snap[t], NoTodo)
    /\ UNCHANGED <<modes, tenants>>

\* Mutant of NewTenant: the alias is not taken over.
Nameless(rq, m) ==
    [alias |-> Null, region |-> rq.region, mode |-> m,
     settings |-> [f \in Field |-> Null]]

\* Null: no user, and the flags are false.
NewTenant(rq, m) ==
    [alias |-> rq.tenant, region |-> rq.region, mode |-> m,
     settings |-> [f \in Field |-> Null]]

SaveNewTenant(t) ==
    /\ pc[t] = "create"
    /\ \E i \in TenantId, m \in InitialModes(snap[t], req[t].mode) :
        /\ tenants[i] = Null
        /\ tenants' = [tenants EXCEPT ![i] = NewTenant(req[t], m)]
    /\ Return(t, "ok")
    /\ UNCHANGED modes

\* set_tenant_management and set_tenant_describer_mode save nothing when the flag
\* is what was asked for; create_tenant_user always does.
Unchanged(i, f, v) == f \in Checked /\ tenants[i].settings[f] = v

\* Mutant of WithField: the copy is made from the request, not from the tenant.
FromRequest(i, f, v) ==
    [NewTenant([region |-> tenants[i].region, tenant |-> tenants[i].alias], Null)
        EXCEPT !.settings[f] = v]

WithField(i, f, v) == [tenants[i] EXCEPT !.settings[f] = v]

\* The commands that load a tenant named a and save it with another value.
SetTenantField(t) ==
    \E r \in Region, a \in Alias, f \in Field, v \in Value \cup {Null} :
        /\ Free(t, "set_tenant_field")
        /\ v = Null => f \in Checked
        /\ \/ \E i \in TenantsNamed(r, a) :
                IF Unchanged(i, f, v)
                THEN Return(t, "unchanged")
                ELSE Continue(t, "update",
                              [RequestFor("set_tenant_field", r) EXCEPT !.tenant = a],
                              NoModes, [NoTodo EXCEPT ![i] = WithField(i, f, v)])
           \/ /\ TenantsNamed(r, a) = {}
              /\ Return(t, "error")
        /\ UNCHANGED <<modes, tenants>>

(* The process dies: only the database survives. *)
Restart ==
    /\ \E t \in Thread : pc[t] # "idle"
    /\ pc' = [t \in Thread |-> "idle"]
    /\ req' = [t \in Thread |-> Null]
    /\ snap' = [t \in Thread |-> NoModes]
    /\ todo' = [t \in Thread |-> NoTodo]
    /\ overtaken' = {}
    /\ UNCHANGED <<modes, tenants, spoiled>>

-----------------------------------------------------------------------------
(* The whole *)

\* Who uses which mode in region r.
Usage(r) == [i \in TenantsOf(r) |-> tenants[i].mode]

\* What a command has read of region r is no longer so.
Changed(r) == modes'[r] # modes[r] \/ Usage(r)' # Usage(r)

Uses(i, r, m) == i \in TenantsOf(r) /\ tenants[i].mode = m

\* The step takes mode m from region r, or gives it to a tenant.
Touches(r, m) ==
    \/ Configured(modes[r], m) /\ ~Configured(modes'[r], m)
    \/ \E i \in TenantId : Uses(i, r, m)' /\ ~Uses(i, r, m)

\* The history of a step of thread t.
Note(t) ==
    /\ overtaken' = {u \in Thread :
          /\ pc'[u] \in Steps
          /\ \/ u \in overtaken
             \/ u # t /\ \E r \in Region : req[u].region = r /\ Changed(r)}
    /\ spoiled' = IF t \in overtaken
                  THEN spoiled \cup {p \in Region \X Mode : Touches(p[1], p[2])}
                  ELSE spoiled

ThreadStep(t) ==
    \/ Reject(t)
    \/ CreateConfiguration(t) \/ OverrideConfiguration(t)
    \/ DeleteSecurityMode(t) \/ CountTenants(t)
    \/ OtherRegionCommand(t) \/ SaveRegion(t)
    \/ SetSecurityMode(t) \/ SelectTenants(t) \/ UpdateTenant(t) \/ UpdateFails(t)
    \/ CreateTenant(t) \/ CheckTenantAbsent(t) \/ SaveNewTenant(t)
    \/ SetTenantField(t)

Next == Restart \/ \E t \in Thread : ThreadStep(t) /\ Note(t)

Spec == Init /\ [][Next]_vars

-----------------------------------------------------------------------------
(* Properties *)

\* A thread in the middle of a command has its request, with the fields the
\* rest of the command reads.
RequestFits(p, rq) ==
    /\ rq \in Request
    /\ p \in {"count", "select"} => rq.mode \in Mode
    /\ p \in {"unique", "create"} => rq.tenant \in Alias

TypeOK ==
    /\ modes \in [Region -> ModeMap]
    /\ tenants \in [TenantId -> Tenant \cup {Null}]
    /\ pc \in [Thread -> Replies \cup Steps]
    /\ req \in [Thread -> Request \cup {Null}]
    /\ snap \in [Thread -> ModeMap]
    /\ todo \in [Thread -> [TenantId -> Tenant \cup {Null}]]
    /\ \A t \in Thread : pc[t] \in Steps => RequestFits(pc[t], req[t])
    /\ overtaken \subseteq {t \in Thread : pc[t] \in Steps}
    /\ spoiled \subseteq Region \X Mode

OneDefault(doc) ==
    \A m, n \in Mode : {m, n} \subseteq Defaults(doc) => m = n

\* A stored region has at most one default security mode, whatever commands
\* interleave: createConfiguration refuses a second one and updateDefaultMode
\* clears the others, and a save replaces the whole map by one that was
\* derived from a single loaded version.
AtMostOneDefault == \A r \in Region : OneDefault(modes[r])

\* What keeps it so: the copies the threads are going to save have the same
\* property, however old they are.
DefaultInv == AtMostOneDefault /\ \A t \in Thread : OneDefault(snap[t])

\* The mode a tenant uses is configured in its region: DeleteSecurityMode
\* refuses to remove a mode tenants use, CreateTenant and SetSecurityMode
\* refuse a mode the region has not.  No interleaving breaks this but by a write
\* of an overtaken command that itself took that mode away or handed it out.
Explained(doc, r, m) == Configured(doc, m) \/ <<r, m>> \in spoiled

TenantModeConfigured ==
    \A i \in TenantId :
        tenants[i] # Null /\ tenants[i].mode # Null
            => Explained(modes[tenants[i].region], tenants[i].region, tenants[i].mode)

\* Its strengthening: what a thread holds agrees with the documents unless it was
\* overtaken, so that what it saves next leaves every tenant with such a mode.
UpToDate(t) ==
    /\ pc[t] \in {"count", "select", "unique", "create"}
           => snap[t] = modes[req[t].region]
    /\ pc[t] = "select" => Configured(snap[t], req[t].mode)
    /\ pc[t] = "save_region" =>
           \A i \in TenantsOf(req[t].region) : tenants[i].mode # Null
               => Explained(snap[t], req[t].region, tenants[i].mode)
    /\ pc[t] = "update" =>
           \A i \in TenantId : todo[t][i] # Null =>
               /\ todo[t][i].region = req[t].region
               /\ todo[t][i].mode # Null =>
                    Explained(modes[req[t].region], req[t].region, todo[t][i].mode)

FreshInv == TenantModeConfigured /\ \A t \in Thread \ overtaken : UpToDate(t)

\* Saved by the last update of a set_security_mode that answers "ok".
LastMove(t) ==
    /\ pc[t] = "update"
    /\ req[t].cmd = "set_security_mode"
    /\ pc'[t] = "ok"

\* When SetSecurityMode succeeds and no tenant of the region was created or given
\* another mode while it was under way, then no tenant it was asked to move is left
\* behind, whatever else other commands did: none in the region keeps the mode
\* named as the current one, and with neither tenant nor current mode named every
\* tenant has the new mode.
MoveIsComplete ==
    [][\A t \in Thread \ overtaken : LastMove(t) /\ req[t].tenant = Null =>
          \A i \in TenantId : tenants'[i] # Null /\ tenants'[i].region = req[t].region =>
              /\ req[t].current = Null => tenants'[i].mode = req[t].mode
              /\ req[t].current # req[t].mode => tenants'[i].mode # req[t].current
                                             \/ req[t].current = Null]_vars

Policy == INSTANCE SecurityPolicy WITH
    configured <- [r \in Region |-> {m \in Mode : Configured(modes[r], m)}],
    default    <- [r \in Region |-> IF Defaults(modes[r]) = {} THEN Null
                                    ELSE CHOOSE m \in Mode : m \in Defaults(modes[r])],
    assigned   <- [i \in TenantId |-> IF tenants[i] = Null THEN Null
                                      ELSE [region |-> tenants[i].region,
                                            mode   |-> tenants[i].mode]]

\* The documents implement the abstract policy, except for the writes of commands
\* that were overtaken: a mode is removed only while unused, tenants move to
\* configured modes only and only by set_security_mode, and no save undoes what
\* another command did to modes and tenants before this one began.
ImplementsPolicy ==
    /\ Policy!Init
    /\ [][\/ Policy!Next
          \/ \E t \in overtaken : SaveRegion(t) \/ UpdateTenant(t) \/ SaveNewTenant(t)
         ]_(Policy!policy)
=============================================================================
