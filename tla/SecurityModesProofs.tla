-------------------------- MODULE SecurityModesProofs --------------------------
(* Theorems about SecurityModes, for any number of threads, regions, modes,  *)
(* tenants and descriptions.                                                 *)
EXTENDS SecurityModes, TLAPS

LEMMA NoDocumentsTyped ==
    /\ NoModes \in ModeMap
    /\ NoTodo \in [TenantId -> Tenant \cup {Null}]
BY DEF NoModes, NoTodo, ModeMap

\* How every action but Restart leaves a thread, and what it keeps.
ThreadMoves(t) ==
    \/ \E r \in Replies : Return(t, r)
    \/ \E p \in Steps, rq \in Request, doc \in ModeMap,
          docs \in [TenantId -> Tenant \cup {Null}] :
             RequestFits(p, rq) /\ Continue(t, p, rq, doc, docs)

DocumentsTyped == /\ modes \in [Region -> ModeMap]
                  /\ tenants \in [TenantId -> Tenant \cup {Null}]

LEMMA HistoryTyped ==
    ASSUME TypeOK, NEW t \in Thread, Note(t)
    PROVE  /\ overtaken' \subseteq {u \in Thread : pc'[u] \in Steps}
           /\ spoiled' \subseteq Region \X Mode
<1>1. overtaken' \subseteq {u \in Thread : pc'[u] \in Steps}
  BY DEF Note
<1>2. spoiled' \subseteq Region \X Mode
  BY DEF Note, TypeOK
<1>3. QED BY <1>1, <1>2

LEMMA ThreadTyped ==
    ASSUME TypeOK, NEW t \in Thread, ThreadMoves(t), DocumentsTyped', Note(t)
    PROVE  TypeOK'
<1>h. /\ overtaken' \subseteq {u \in Thread : pc'[u] \in Steps}
      /\ spoiled' \subseteq Region \X Mode
  BY HistoryTyped
<1>1. CASE \E r \in Replies : Return(t, r)
  <2>1. PICK r \in Replies : Return(t, r)
    BY <1>1
  <2>2. \A u \in Thread : pc'[u] \in Steps => RequestFits(pc'[u], req'[u])
    <3> SUFFICES ASSUME NEW u \in Thread, pc'[u] \in Steps
                 PROVE  RequestFits(pc'[u], req'[u])
      OBVIOUS
    <3>1. u # t
      BY <2>1 DEF Return, Replies, Steps, TypeOK
    <3>2. QED BY <2>1, <3>1 DEF Return, TypeOK
  <2>3. QED
    BY <1>h, <2>1, <2>2, NoDocumentsTyped DEF Return, TypeOK, DocumentsTyped
<1>2. CASE \E p \in Steps, rq \in Request, doc \in ModeMap,
              docs \in [TenantId -> Tenant \cup {Null}] :
                 RequestFits(p, rq) /\ Continue(t, p, rq, doc, docs)
  BY <1>h, <1>2 DEF Continue, TypeOK, DocumentsTyped
<1>3. QED BY <1>1, <1>2 DEF ThreadMoves

LEMMA RequestTyped ==
    ASSUME NEW c \in Command, NEW r \in Region
    PROVE  /\ RequestFor(c, r) \in Request
           /\ \A m \in Mode \cup {Null} : [RequestFor(c, r) EXCEPT !.mode = m] \in Request
           /\ \A a \in Alias \cup {Null} : [RequestFor(c, r) EXCEPT !.tenant = a] \in Request
           /\ \A a \in Alias \cup {Null}, m, n \in Mode \cup {Null} :
                /\ [RequestFor(c, r) EXCEPT !.tenant = a, !.mode = m] \in Request
                /\ [RequestFor(c, r) EXCEPT !.mode = m, !.tenant = a, !.current = n] \in Request
BY DEF RequestFor, Request

LEMMA NewDocumentsTyped ==
    ASSUME NEW doc \in ModeMap, NEW m \in Mode, NEW d \in Description \cup {Null},
           NEW flag \in BOOLEAN
    PROVE  /\ Created(doc, m, d, flag) \in ModeMap
           /\ Configured(doc, m) => Overridden(doc, m, d, flag) \in ModeMap
           /\ [doc EXCEPT ![m] = Null] \in ModeMap
<1>1. Created(doc, m, d, flag) \in ModeMap
  BY DEF Created, ModeMap, Configuration
<1>2. ASSUME Configured(doc, m) PROVE Overridden(doc, m, d, flag) \in ModeMap
  <2>1. doc[m] \in Configuration
    BY <1>2 DEF Configured, ModeMap
  <2>2. \A n \in Mode : Configured(doc, n) => [doc[n] EXCEPT !.default = FALSE] \in Configuration
    BY DEF Configured, ModeMap, Configuration
  <2>3. (IF d = Null THEN doc[m].description ELSE d) \in Description \cup {Null}
    BY <2>1 DEF Configuration
  <2>4. [default |-> flag, description |-> IF d = Null THEN doc[m].description ELSE d]
            \in Configuration
    BY <2>3 DEF Configuration
  <2>5. QED BY <2>2, <2>4 DEF Overridden, ModeMap
<1>3. [doc EXCEPT ![m] = Null] \in ModeMap
  BY DEF ModeMap
<1>4. QED BY <1>1, <1>2, <1>3

\* One action after the other: what it does to the thread that takes it.
LEMMA EveryStepMoves ==
    ASSUME TypeOK, NEW t \in Thread, ThreadStep(t)
    PROVE  ThreadMoves(t)
<1> USE DEF ThreadMoves
<1>r. /\ {"idle", "ok", "unchanged", "error"} \subseteq Replies
      /\ {"save_region", "count", "select", "unique", "create", "update"} \subseteq Steps
  BY DEF Replies, Steps
<1>m. \A r \in Region : modes[r] \in ModeMap
  BY DEF TypeOK
<1>1. CASE Reject(t)
  BY <1>1, <1>r DEF Reject
<1>2. CASE CreateConfiguration(t)
  <2>1. PICK r \in Region, m \in Mode, d \in Description \cup {Null}, flag \in BOOLEAN :
          \/ Return(t, "error")
          \/ Continue(t, "save_region",
                [RequestFor("configure_security_mode", r) EXCEPT !.mode = m],
                Created(modes[r], m, d, flag), NoTodo)
    BY <1>2 DEF CreateConfiguration
  <2>2. Created(modes[r], m, d, flag) \in ModeMap
    BY <1>m, NewDocumentsTyped
  <2>3. [RequestFor("configure_security_mode", r) EXCEPT !.mode = m] \in Request
    BY RequestTyped DEF Command
  <2>4. QED BY <1>r, <2>1, <2>2, <2>3, NoDocumentsTyped DEF RequestFits
<1>3. CASE OverrideConfiguration(t)
  <2>1. PICK r \in Region, m \in Mode, d \in Description \cup {Null}, flag \in BOOLEAN :
          \/ Return(t, "error")
          \/ Return(t, "unchanged")
          \/ /\ Configured(modes[r], m)
             /\ Continue(t, "save_region",
                   [RequestFor("configure_security_mode", r) EXCEPT !.mode = m],
                   Overridden(modes[r], m, d, flag), NoTodo)
    BY <1>3 DEF OverrideConfiguration
  <2>2. Configured(modes[r], m) => Overridden(modes[r], m, d, flag) \in ModeMap
    BY <1>m, NewDocumentsTyped
  <2>3. [RequestFor("configure_security_mode", r) EXCEPT !.mode = m] \in Request
    BY RequestTyped DEF Command
  <2>4. QED BY <1>r, <2>1, <2>2, <2>3, NoDocumentsTyped DEF RequestFits
<1>4. CASE DeleteSecurityMode(t)
  <2>1. \A r \in Region, m \in Mode :
           LET rq == [RequestFor("delete_security_mode", r) EXCEPT !.mode = m]
           IN  rq \in Request /\ rq.mode \in Mode
    BY RequestTyped DEF Command, RequestFor
  <2>2. \/ Return(t, "error")
        \/ \E r \in Region, m \in Mode : Continue(t, "count",
              [RequestFor("delete_security_mode", r) EXCEPT !.mode = m], modes[r], NoTodo)
    BY <1>4 DEF DeleteSecurityMode
  <2>3. QED BY <1>r, <1>m, <2>1, <2>2, NoDocumentsTyped DEF RequestFits
<1>5. CASE CountTenants(t)
  <2>1. RequestFits("count", req[t]) /\ snap[t] \in ModeMap
    BY <1>5, <1>r DEF CountTenants, TypeOK
  <2>2. /\ [snap[t] EXCEPT ![req[t].mode] = Null] \in ModeMap
        /\ RequestFits("save_region", req[t])
    BY <2>1 DEF RequestFits, ModeMap
  <2>3. QED BY <1>5, <1>r, <2>2, NoDocumentsTyped DEF CountTenants, RequestFits
<1>6. CASE OtherRegionCommand(t)
  <2>1. \A r \in Region : RequestFor("other_region_command", r) \in Request
    BY RequestTyped DEF Command
  <2>2. QED BY <1>6, <1>r, <1>m, <2>1, NoDocumentsTyped DEF OtherRegionCommand, RequestFits
<1>7. CASE SaveRegion(t)
  BY <1>7, <1>r DEF SaveRegion
<1>8. CASE SetSecurityMode(t)
  <2>1. \A r \in Region, m \in Mode, a \in Alias \cup {Null}, n \in Mode \cup {Null} :
           LET rq == [RequestFor("set_security_mode", r) EXCEPT
                         !.mode = m, !.tenant = a, !.current = n]
           IN  rq \in Request /\ rq.mode \in Mode
    BY RequestTyped DEF Command, RequestFor
  <2>2. \/ Return(t, "error")
        \/ \E r \in Region, m \in Mode, a \in Alias \cup {Null}, n \in Mode \cup {Null} :
              Continue(t, "select",
                [RequestFor("set_security_mode", r) EXCEPT
                    !.mode = m, !.tenant = a, !.current = n], modes[r], NoTodo)
    <3>1. PICK r \in Region, m \in Mode,
               who \in ({Null} \X (Mode \cup {Null})) \cup (Alias \X {Null}) :
            \/ Return(t, "error")
            \/ Continue(t, "select",
                 [RequestFor("set_security_mode", r) EXCEPT
                     !.mode = m, !.tenant = who[1], !.current = who[2]], modes[r], NoTodo)
      BY <1>8 DEF SetSecurityMode
    <3>2. who[1] \in Alias \cup {Null} /\ who[2] \in Mode \cup {Null}
      OBVIOUS
    <3>3. QED BY <3>1, <3>2
  <2>3. QED BY <1>r, <1>m, <2>1, <2>2, NoDocumentsTyped DEF RequestFits
<1>9. CASE SelectTenants(t)
  <2>1. RequestFits("select", req[t])
    BY <1>9, <1>r DEF SelectTenants, TypeOK
  <2>2. \A i \in TenantId : tenants[i] # Null => Moved(i, req[t].mode) \in Tenant
    BY <2>1 DEF Moved, TypeOK, Tenant, RequestFits
  <2>3. ASSUME NEW sel \in Selections(req[t])
        PROVE  [i \in TenantId |-> IF i \in sel THEN Moved(i, req[t].mode) ELSE Null]
                   \in [TenantId -> Tenant \cup {Null}]
    <3>1. \A i \in sel : i \in TenantId /\ tenants[i] # Null
      BY <2>3 DEF Selections, TenantsNamed, TenantsWithMode, TenantsOf
    <3>2. QED BY <2>2, <3>1
  <2>4. RequestFits("update", req[t])
    BY <2>1 DEF RequestFits
  <2>5. QED BY <1>9, <1>r, <2>3, <2>4, NoDocumentsTyped DEF SelectTenants, RequestFits
<1>10. CASE UpdateTenant(t)
  <2>1. RequestFits("update", req[t])
    BY <1>10, <1>r DEF UpdateTenant, TypeOK
  <2>2. \A i \in TenantId : [todo[t] EXCEPT ![i] = Null] \in [TenantId -> Tenant \cup {Null}]
    BY DEF TypeOK
  <2>3. QED BY <1>10, <1>r, <2>1, <2>2, NoDocumentsTyped DEF UpdateTenant, RequestFits
<1>11. CASE UpdateFails(t)
  BY <1>11, <1>r DEF UpdateFails
<1>12. CASE CreateTenant(t)
  <2>1. \A r \in Region, a \in Alias, m \in Mode \cup {Null} :
           LET rq == [RequestFor("create_tenant", r) EXCEPT !.tenant = a, !.mode = m]
           IN  rq \in Request /\ rq.tenant \in Alias
    BY RequestTyped DEF Command, RequestFor
  <2>2. QED BY <1>12, <1>r, <1>m, <2>1, NoDocumentsTyped DEF CreateTenant, RequestFits
<1>13. CASE CheckTenantAbsent(t)
  <2>1. RequestFits("unique", req[t]) /\ snap[t] \in ModeMap
    BY <1>13, <1>r DEF CheckTenantAbsent, TypeOK
  <2>2. RequestFits("create", req[t])
    BY <2>1 DEF RequestFits
  <2>3. QED BY <1>13, <1>r, <2>1, <2>2, NoDocumentsTyped DEF CheckTenantAbsent, RequestFits
<1>14. CASE SaveNewTenant(t)
  BY <1>14, <1>r DEF SaveNewTenant
<1>15. CASE SetTenantField(t)
  <2>1. PICK r \in Region, a \in Alias, f \in Field, v \in Value \cup {Null} :
          \/ Return(t, "unchanged") \/ Return(t, "error")
          \/ \E i \in TenantsNamed(r, a) :
                Continue(t, "update", [RequestFor("set_tenant_field", r) EXCEPT !.tenant = a],
                         NoModes, [NoTodo EXCEPT ![i] = WithField(i, f, v)])
    BY <1>15 DEF SetTenantField
  <2>2. [RequestFor("set_tenant_field", r) EXCEPT !.tenant = a] \in Request
    BY RequestTyped DEF Command
  <2>3. \A i \in TenantsNamed(r, a) : WithField(i, f, v) \in Tenant
    BY DEF TenantsNamed, TenantsOf, TypeOK, Tenant, WithField
  <2>4. \A i \in TenantsNamed(r, a) :
           [NoTodo EXCEPT ![i] = WithField(i, f, v)] \in [TenantId -> Tenant \cup {Null}]
    BY <2>3, NoDocumentsTyped
  <2>5. QED BY <1>r, <2>1, <2>2, <2>4, NoDocumentsTyped DEF RequestFits
<1>16. QED
  BY <1>1, <1>2, <1>3, <1>4, <1>5, <1>6, <1>7, <1>8, <1>9, <1>10, <1>11,
     <1>12, <1>13, <1>14, <1>15 DEF ThreadStep

\* The stored documents change in three actions only, and stay documents.
LEMMA DocumentsStayTyped ==
    ASSUME TypeOK, NEW t \in Thread, ThreadStep(t)
    PROVE  DocumentsTyped'
<1>1. CASE UNCHANGED <<modes, tenants>>
  BY <1>1 DEF TypeOK, DocumentsTyped
<1>2. CASE SaveRegion(t)
  BY <1>2 DEF SaveRegion, TypeOK, DocumentsTyped
<1>3. CASE UpdateTenant(t)
  BY <1>3 DEF UpdateTenant, TypeOK, DocumentsTyped
<1>4. CASE SaveNewTenant(t)
  <2>1. RequestFits("create", req[t]) /\ snap[t] \in ModeMap
    BY <1>4 DEF SaveNewTenant, TypeOK, Steps
  <2>2. \A m \in InitialModes(snap[t], req[t].mode) : NewTenant(req[t], m) \in Tenant
    BY <2>1 DEF InitialModes, Defaults, NewTenant, Tenant, RequestFits, Request
  <2>3. QED BY <1>4, <2>2 DEF SaveNewTenant, TypeOK, DocumentsTyped
<1>5. QED
  BY <1>1, <1>2, <1>3, <1>4
  DEF ThreadStep, Reject, CreateConfiguration, OverrideConfiguration,
      DeleteSecurityMode, CountTenants, OtherRegionCommand, SetSecurityMode,
      SelectTenants, UpdateFails, CreateTenant, CheckTenantAbsent,
      SetTenantField

\* The variables hold documents, requests and steps of the declared shapes.
THEOREM TypeCorrect == Spec => []TypeOK
<1>1. Init => TypeOK
  BY NoDocumentsTyped DEF Init, TypeOK, Replies, Steps
<1>2. TypeOK /\ [Next]_vars => TypeOK'
  <2> SUFFICES ASSUME TypeOK, [Next]_vars PROVE TypeOK'
    OBVIOUS
  <2>1. ASSUME NEW t \in Thread, ThreadStep(t), Note(t) PROVE TypeOK'
    BY <2>1, EveryStepMoves, DocumentsStayTyped, ThreadTyped
  <2>2. CASE Restart
    BY <2>2, NoDocumentsTyped DEF Restart, TypeOK, Replies, Steps
  <2>3. CASE UNCHANGED vars
    BY <2>3 DEF vars, TypeOK
  <2>4. QED BY <2>1, <2>2, <2>3 DEF Next
<1>3. QED BY <1>1, <1>2, PTL DEF Spec

-----------------------------------------------------------------------------
(* At most one default mode, under any interleaving of the commands. *)

LEMMA NoModesOneDefault == OneDefault(NoModes)
BY DEF OneDefault, NoModes, Defaults, Configured

LEMMA CreatedOneDefault ==
    ASSUME NEW doc \in ModeMap, NEW m \in Mode, NEW d \in Description \cup {Null},
           NEW flag \in BOOLEAN, NEW groupExists \in BOOLEAN,
           OneDefault(doc), Creatable(doc, m, flag, groupExists)
    PROVE  OneDefault(Created(doc, m, d, flag))
<1> DEFINE new == Created(doc, m, d, flag)
<1>1. Defaults(new) \subseteq Defaults(doc) \cup {m} /\ (~flag => Defaults(new) \subseteq Defaults(doc))
  BY NullIsNoValue DEF Created, Creatable, Defaults, Configured, ModeMap, Configuration
<1>2. QED BY <1>1 DEF OneDefault, Creatable

LEMMA OverriddenOneDefault ==
    ASSUME NEW doc \in ModeMap, NEW m \in Mode, NEW d \in Description \cup {Null},
           NEW flag \in BOOLEAN, OneDefault(doc), Configured(doc, m)
    PROVE  OneDefault(Overridden(doc, m, d, flag))
<1> DEFINE new == Overridden(doc, m, d, flag)
<1>1. \A n \in Mode : n \in Defaults(new) /\ n # m => n \in Defaults(doc) /\ ~(flag /\ ~doc[m].default)
  BY NullIsNoValue DEF Overridden, Defaults, Configured, ModeMap, Configuration
<1>2. m \in Defaults(new) => flag
  BY DEF Overridden, Defaults
<1>3. doc[m].default => m \in Defaults(doc)
  BY DEF Defaults
<1>4. doc[m].default \in BOOLEAN
  BY DEF ModeMap, Configuration, Configured
<1>5. Defaults(new) \subseteq Mode
  BY DEF Defaults
<1>6. \A n, k \in Mode : n \in Defaults(doc) /\ k \in Defaults(doc) => n = k
  BY DEF OneDefault
<1>7. \A n, k \in Mode : n \in Defaults(new) /\ k \in Defaults(new) => n = k
  BY <1>1, <1>2, <1>3, <1>4, <1>6
<1>8. QED BY <1>7 DEF OneDefault

LEMMA RemovedOneDefault ==
    ASSUME NEW doc \in ModeMap, NEW m, OneDefault(doc)
    PROVE  OneDefault([doc EXCEPT ![m] = Null])
BY DEF OneDefault, Defaults, Configured, ModeMap

\* The strengthening also speaks of the copies the threads hold.
LEMMA DefaultInvariant == Spec => []DefaultInv
<1>1. Init => DefaultInv
  BY NoModesOneDefault DEF Init, DefaultInv, AtMostOneDefault
<1>2. TypeOK /\ DefaultInv /\ [Next]_vars => DefaultInv'
  <2> SUFFICES ASSUME TypeOK, DefaultInv, [Next]_vars PROVE DefaultInv'
    OBVIOUS
  <2>a. ASSUME NEW t \in Thread, NEW r, Return(t, r)
        PROVE  \A u \in Thread : OneDefault(snap'[u])
    BY <2>a, NoModesOneDefault DEF Return, TypeOK, DefaultInv
  <2>b. ASSUME NEW t \in Thread, NEW p, NEW rq, NEW doc, NEW docs,
               Continue(t, p, rq, doc, docs), OneDefault(doc)
        PROVE  \A u \in Thread : OneDefault(snap'[u])
    BY <2>b DEF Continue, TypeOK, DefaultInv
  <2>m. \A r \in Region : modes[r] \in ModeMap /\ OneDefault(modes[r])
    BY DEF TypeOK, DefaultInv, AtMostOneDefault
  <2>1. ASSUME NEW t \in Thread, ThreadStep(t)
        PROVE  \A u \in Thread : OneDefault(snap'[u])
    <3>1. CASE CreateConfiguration(t)
      BY <3>1, <2>a, <2>b, <2>m, CreatedOneDefault DEF CreateConfiguration
    <3>2. CASE OverrideConfiguration(t)
      BY <3>2, <2>a, <2>b, <2>m, OverriddenOneDefault DEF OverrideConfiguration
    <3>3. CASE CountTenants(t)
      <4>1. OneDefault([snap[t] EXCEPT ![req[t].mode] = Null])
        BY RemovedOneDefault DEF TypeOK, DefaultInv
      <4>2. QED BY <3>3, <4>1, <2>a, <2>b DEF CountTenants
    <3>4. CASE DeleteSecurityMode(t) \/ OtherRegionCommand(t) \/ SetSecurityMode(t)
                \/ CreateTenant(t)
      BY <3>4, <2>a, <2>b, <2>m
      DEF DeleteSecurityMode, OtherRegionCommand, SetSecurityMode, CreateTenant
    <3>5. CASE CheckTenantAbsent(t) \/ SelectTenants(t) \/ UpdateTenant(t)
      BY <3>5, <2>a, <2>b, NoModesOneDefault
      DEF CheckTenantAbsent, SelectTenants, UpdateTenant, DefaultInv
    <3>6. CASE Reject(t) \/ SaveRegion(t) \/ UpdateFails(t) \/ SaveNewTenant(t)
      BY <3>6, <2>a DEF Reject, SaveRegion, UpdateFails, SaveNewTenant
    <3>7. CASE SetTenantField(t)
      BY <3>7, <2>a, <2>b, NoModesOneDefault
      DEF SetTenantField
    <3>8. QED BY <2>1, <3>1, <3>2, <3>3, <3>4, <3>5, <3>6, <3>7 DEF ThreadStep
  <2>2. ASSUME NEW t \in Thread, ThreadStep(t) PROVE AtMostOneDefault'
    <3>1. CASE SaveRegion(t)
      BY <3>1, <2>m DEF SaveRegion, AtMostOneDefault, DefaultInv, TypeOK
    <3>2. CASE UNCHANGED modes
      BY <3>2, <2>m DEF AtMostOneDefault
    <3>3. QED
      BY <2>2, <3>1, <3>2
      DEF ThreadStep, Reject, CreateConfiguration, OverrideConfiguration,
          DeleteSecurityMode, CountTenants, OtherRegionCommand, SetSecurityMode,
          SelectTenants, UpdateTenant, UpdateFails, CreateTenant,
          CheckTenantAbsent, SaveNewTenant, SetTenantField
  <2>3. CASE Restart
    BY <2>3, <2>m, NoModesOneDefault DEF Restart, DefaultInv, AtMostOneDefault
  <2>4. CASE UNCHANGED vars
    BY <2>4, <2>m DEF vars, DefaultInv, AtMostOneDefault
  <2>5. QED BY <2>1, <2>2, <2>3, <2>4 DEF Next, DefaultInv
<1>3. QED BY <1>1, <1>2, TypeCorrect, PTL DEF Spec

\* A stored region never has two default security modes, for any number of
\* concurrent requests.
THEOREM AtMostOneDefaultMode == Spec => []AtMostOneDefault
<1>1. DefaultInv => AtMostOneDefault
  BY DEF DefaultInv
<1>2. QED BY <1>1, DefaultInvariant, PTL

-----------------------------------------------------------------------------
(* Every tenant's mode is configured, but for the writes of overtaken threads. *)

AllConfigured(doc, r) ==
    \A i \in TenantsOf(r) : tenants[i].mode # Null => Explained(doc, r, tenants[i].mode)

\* What a step of a thread that was not overtaken leaves true.
OwnInv(t) == TenantModeConfigured /\ UpToDate(t)

\* A new or overridden map configures every mode the old one did.
LEMMA ModesKept ==
    ASSUME NEW doc \in ModeMap, NEW m \in Mode, NEW d \in Description \cup {Null},
           NEW flag \in BOOLEAN, NEW n \in Mode, Configured(doc, n)
    PROVE  /\ Configured(Created(doc, m, d, flag), n)
           /\ Configured(doc, m) => Configured(Overridden(doc, m, d, flag), n)
<1>1. [default |-> flag, description |-> d] \in Configuration
  BY DEF Configuration
<1>2. Configured(Created(doc, m, d, flag), n)
  BY <1>1, NullIsNoValue DEF Created, Configured, ModeMap
<1>3. ASSUME Configured(doc, m) PROVE Configured(Overridden(doc, m, d, flag), n)
  <2>1. doc[m] \in Configuration /\ doc[n] \in Configuration
    BY <1>3 DEF Configured, ModeMap
  <2>2. [default |-> flag, description |-> IF d = Null THEN doc[m].description ELSE d]
            \in Configuration
    BY <2>1 DEF Configuration
  <2>3. [doc[n] EXCEPT !.default = FALSE] \in Configuration
    BY <2>1 DEF Configuration
  <2>4. QED BY <2>1, <2>2, <2>3, NullIsNoValue DEF Overridden, Configured
<1>4. QED BY <1>2, <1>3

\* When the thread returns it holds nothing.
LEMMA FreshReturn ==
    ASSUME TypeOK, NEW t \in Thread, NEW r \in Replies, Return(t, r),
           TenantModeConfigured'
    PROVE  OwnInv(t)'
<1>1. pc'[t] \in Replies
  BY DEF Return, TypeOK
<1>2. UpToDate(t)'
  BY <1>1 DEF UpToDate, Replies
<1>3. QED BY <1>2 DEF OwnInv

\* When it goes on to step p, its copies must agree with the documents.
LEMMA FreshContinue ==
    ASSUME TypeOK, NEW t \in Thread,
           NEW p, NEW rq, NEW doc, NEW docs, Continue(t, p, rq, doc, docs),
           UNCHANGED <<modes, tenants, spoiled>>, TenantModeConfigured,
           p \in {"count", "select", "unique", "create"} => doc = modes[rq.region],
           p = "select" => Configured(doc, rq.mode),
           p = "save_region" => AllConfigured(doc, rq.region),
           p = "update" => \A i \in TenantId : docs[i] # Null =>
                /\ docs[i].region = rq.region
                /\ docs[i].mode # Null => Explained(modes[rq.region], rq.region, docs[i].mode)
    PROVE  OwnInv(t)'
<1>1. pc'[t] = p /\ req'[t] = rq /\ snap'[t] = doc /\ todo'[t] = docs
  BY DEF Continue, TypeOK
<1>2. UpToDate(t)'
  BY <1>1 DEF UpToDate, AllConfigured, TenantsOf, Configured, Explained
<1>3. TenantModeConfigured'
  BY DEF TenantModeConfigured, Configured, Explained
<1>4. QED BY <1>2, <1>3 DEF OwnInv

LEMMA FreshStep ==
    ASSUME TypeOK, NEW t \in Thread, OwnInv(t), ThreadStep(t), UNCHANGED spoiled
    PROVE  OwnInv(t)'
<1>r. /\ {"idle", "ok", "unchanged", "error"} \subseteq Replies
      /\ {"save_region", "count", "select", "unique", "create", "update"} \subseteq Steps
  BY DEF Replies, Steps
<1>u. UpToDate(t) /\ TenantModeConfigured
  BY DEF OwnInv
<1>m. \A r \in Region : modes[r] \in ModeMap /\ AllConfigured(modes[r], r)
  BY <1>u DEF TypeOK, AllConfigured, TenantModeConfigured, TenantsOf, Explained
<1>k. UNCHANGED <<modes, tenants>> => TenantModeConfigured'
  BY <1>u DEF TenantModeConfigured, Configured, Explained
<1>e. ASSUME Return(t, "error"), UNCHANGED <<modes, tenants>> PROVE OwnInv(t)'
  BY <1>e, <1>k, <1>r, FreshReturn
<1>n. \A i \in TenantId : tenants[i] # Null => tenants[i].mode \in Mode \cup {Null}
  BY DEF TypeOK, Tenant
<1>q. \A c, r : RequestFor(c, r).region = r
  BY DEF RequestFor
<1>1. CASE Reject(t)
  BY <1>1, <1>e DEF Reject
<1>2. CASE CreateConfiguration(t)
  <2>1. PICK r \in Region, m \in Mode, d \in Description \cup {Null}, flag \in BOOLEAN :
          /\ UNCHANGED <<modes, tenants>>
          /\ \/ Return(t, "error")
             \/ Continue(t, "save_region",
                  [RequestFor("configure_security_mode", r) EXCEPT !.mode = m],
                  Created(modes[r], m, d, flag), NoTodo)
    BY <1>2 DEF CreateConfiguration
  <2>2. AllConfigured(Created(modes[r], m, d, flag), r)
    BY <1>m, <1>n, ModesKept DEF AllConfigured, TenantsOf, Explained
  <2>3. [RequestFor("configure_security_mode", r) EXCEPT !.mode = m].region = r
    BY DEF RequestFor
  <2>4. CASE Continue(t, "save_region",
                  [RequestFor("configure_security_mode", r) EXCEPT !.mode = m],
                  Created(modes[r], m, d, flag), NoTodo)
    BY <2>1, <2>2, <2>3, <2>4, <1>u, FreshContinue
  <2>5. QED BY <2>1, <2>4, <1>e
<1>3. CASE OverrideConfiguration(t)
  <2>1. PICK r \in Region, m \in Mode, d \in Description \cup {Null}, flag \in BOOLEAN :
          /\ UNCHANGED <<modes, tenants>>
          /\ \/ Return(t, "error")
             \/ Return(t, "unchanged")
             \/ /\ Configured(modes[r], m)
                /\ Continue(t, "save_region",
                     [RequestFor("configure_security_mode", r) EXCEPT !.mode = m],
                     Overridden(modes[r], m, d, flag), NoTodo)
    BY <1>3 DEF OverrideConfiguration
  <2>2. Configured(modes[r], m) => AllConfigured(Overridden(modes[r], m, d, flag), r)
    BY <1>m, <1>n, ModesKept DEF AllConfigured, TenantsOf, Explained
  <2>3. [RequestFor("configure_security_mode", r) EXCEPT !.mode = m].region = r
    BY DEF RequestFor
  <2>4. CASE /\ Configured(modes[r], m)
             /\ Continue(t, "save_region",
                  [RequestFor("configure_security_mode", r) EXCEPT !.mode = m],
                  Overridden(modes[r], m, d, flag), NoTodo)
    BY <2>1, <2>2, <2>3, <2>4, <1>u, FreshContinue
  <2>5. CASE Return(t, "unchanged")
    BY <2>1, <2>5, <1>k, <1>r, FreshReturn
  <2>6. QED BY <2>1, <2>4, <2>5, <1>e
<1>4. CASE DeleteSecurityMode(t)
  <2>1. PICK r \in Region, m \in Mode :
          /\ UNCHANGED <<modes, tenants>>
          /\ \/ Return(t, "error")
             \/ Continue(t, "count",
                  [RequestFor("delete_security_mode", r) EXCEPT !.mode = m], modes[r], NoTodo)
    BY <1>4 DEF DeleteSecurityMode
  <2>2. [RequestFor("delete_security_mode", r) EXCEPT !.mode = m].region = r
    BY DEF RequestFor
  <2>3. CASE Continue(t, "count",
               [RequestFor("delete_security_mode", r) EXCEPT !.mode = m], modes[r], NoTodo)
    BY <2>1, <2>2, <2>3, <1>u, FreshContinue
  <2>4. QED BY <2>1, <2>3, <1>e
<1>5. CASE CountTenants(t)
  <2>1. /\ UNCHANGED <<modes, tenants>>
        /\ pc[t] = "count"
        /\ RequestFits("count", req[t])
        /\ snap[t] = modes[req[t].region]
    BY <1>5, <1>u, <1>r DEF CountTenants, UpToDate, TypeOK
  <2>2. req[t].region \in Region /\ req[t].mode \in Mode
    BY <2>1 DEF RequestFits, Request
  <2>3. ASSUME Deletable(req[t].region, req[t].mode)
        PROVE  AllConfigured([snap[t] EXCEPT ![req[t].mode] = Null], req[t].region)
    <3>1. \A i \in TenantsOf(req[t].region) : tenants[i].mode # req[t].mode
      BY <2>3 DEF Deletable, TenantsWithMode
    <3>2. AllConfigured(snap[t], req[t].region) /\ snap[t] \in ModeMap
      BY <2>1, <2>2, <1>m
    <3>3. QED BY <3>1, <3>2, <1>n DEF AllConfigured, Configured, ModeMap, TenantsOf, Explained
  <2>4. CASE /\ Deletable(req[t].region, req[t].mode)
             /\ Continue(t, "save_region", req[t],
                         [snap[t] EXCEPT ![req[t].mode] = Null], NoTodo)
    BY <2>1, <2>3, <2>4, <1>u, FreshContinue
  <2>5. QED BY <1>5, <2>1, <2>4, <1>e DEF CountTenants
<1>6. CASE OtherRegionCommand(t)
  BY <1>6, <1>u, <1>m, <1>q, FreshContinue DEF OtherRegionCommand
<1>7. CASE SaveRegion(t)
  <2>1. AllConfigured(snap[t], req[t].region)
    BY <1>7, <1>u DEF SaveRegion, UpToDate, AllConfigured
  <2>2. TenantModeConfigured'
    BY <1>7, <2>1, <1>u DEF SaveRegion, AllConfigured, TenantModeConfigured, TenantsOf,
                            Configured, Explained, TypeOK, Tenant
  <2>3. QED BY <1>7, <2>2, <1>r, FreshReturn DEF SaveRegion
<1>8. CASE SetSecurityMode(t)
  <2>1. PICK r \in Region, m \in Mode, a \in Alias \cup {Null}, n \in Mode \cup {Null} :
          /\ UNCHANGED <<modes, tenants>>
          /\ \/ Return(t, "error")
             \/ /\ Configured(modes[r], m)
                /\ Continue(t, "select", [RequestFor("set_security_mode", r) EXCEPT
                               !.mode = m, !.tenant = a, !.current = n], modes[r], NoTodo)
    <3>1. \A who \in ({Null} \X (Mode \cup {Null})) \cup (Alias \X {Null}) :
             who[1] \in Alias \cup {Null} /\ who[2] \in Mode \cup {Null}
      OBVIOUS
    <3>2. QED BY <1>8, <3>1 DEF SetSecurityMode
  <2>2. LET rq == [RequestFor("set_security_mode", r) EXCEPT
                      !.mode = m, !.tenant = a, !.current = n]
        IN  rq.region = r /\ rq.mode = m
    BY DEF RequestFor
  <2>3. CASE /\ Configured(modes[r], m)
             /\ Continue(t, "select", [RequestFor("set_security_mode", r) EXCEPT
                            !.mode = m, !.tenant = a, !.current = n], modes[r], NoTodo)
    BY <2>1, <2>2, <2>3, <1>u, FreshContinue
  <2>4. QED BY <2>1, <2>3, <1>e
<1>9. CASE SelectTenants(t)
  <2>1. /\ UNCHANGED <<modes, tenants>>
        /\ RequestFits("select", req[t])
        /\ snap[t] = modes[req[t].region]
        /\ Configured(snap[t], req[t].mode)
    BY <1>9, <1>u, <1>r DEF SelectTenants, UpToDate, TypeOK
  <2>2. \A sel \in Selections(req[t]) : sel \subseteq TenantsOf(req[t].region)
    BY DEF Selections, TenantsNamed, TenantsWithMode
  <2>3. \A i \in TenantsOf(req[t].region) :
           /\ Moved(i, req[t].mode).mode = req[t].mode
           /\ Moved(i, req[t].mode).region = req[t].region
    BY DEF Moved, TenantsOf, TypeOK, Tenant
  <2>4. ASSUME NEW sel \in Selections(req[t])
        PROVE  LET docs == [i \in TenantId |-> IF i \in sel
                                THEN Moved(i, req[t].mode) ELSE Null]
               IN  \A i \in TenantId : docs[i] # Null =>
                      /\ docs[i].region = req[t].region
                      /\ docs[i].mode # Null =>
                            Explained(modes[req[t].region], req[t].region, docs[i].mode)
    BY <2>1, <2>2, <2>3 DEF Explained
  <2>5. QED BY <1>9, <2>1, <2>4, <1>u, <1>e, FreshContinue DEF SelectTenants
<1>10. CASE UpdateTenant(t)
  <2>1. PICK i \in TenantId :
          /\ todo[t][i] # Null
          /\ tenants' = [tenants EXCEPT ![i] = todo[t][i]]
          /\ UNCHANGED modes
          /\ \/ Return(t, "ok")
             \/ Continue(t, "update", req[t], NoModes, [todo[t] EXCEPT ![i] = Null])
    BY <1>10 DEF UpdateTenant
  <2>2. \A j \in TenantId : todo[t][j] # Null =>
            /\ todo[t][j].region = req[t].region
            /\ todo[t][j].mode # Null =>
                  Explained(modes[req[t].region], req[t].region, todo[t][j].mode)
    BY <1>10, <1>u DEF UpdateTenant, UpToDate
  <2>3. TenantModeConfigured'
    BY <2>1, <2>2, <1>u DEF TenantModeConfigured, Configured, Explained, TypeOK
  <2>4. CASE Continue(t, "update", req[t], NoModes, [todo[t] EXCEPT ![i] = Null])
    <3>1. /\ pc'[t] = "update" /\ req'[t] = req[t]
          /\ todo'[t] = [todo[t] EXCEPT ![i] = Null]
      BY <2>4 DEF Continue, TypeOK
    <3>2. todo[t] \in [TenantId -> Tenant \cup {Null}]
      BY DEF TypeOK
    <3>3. \A j \in TenantId : todo'[t][j] # Null => todo'[t][j] = todo[t][j]
      BY <3>1, <3>2
    <3>4. UpToDate(t)'
      BY <3>1, <3>3, <2>1, <2>2 DEF UpToDate, Configured, Explained
    <3>5. QED BY <3>4, <2>3 DEF OwnInv
  <2>5. QED BY <2>1, <2>3, <2>4, <1>r, FreshReturn
<1>11. CASE UpdateFails(t)
  BY <1>11, <1>e DEF UpdateFails
<1>12. CASE CreateTenant(t)
  <2>1. \A r \in Region, a \in Alias, m \in Mode \cup {Null} :
           [RequestFor("create_tenant", r) EXCEPT !.tenant = a, !.mode = m].region = r
    BY DEF RequestFor
  <2>2. QED BY <1>12, <2>1, <1>u, FreshContinue DEF CreateTenant
<1>13. CASE CheckTenantAbsent(t)
  <2>1. snap[t] = modes[req[t].region]
    BY <1>13, <1>u DEF CheckTenantAbsent, UpToDate
  <2>2. QED BY <1>13, <2>1, <1>u, <1>e, FreshContinue DEF CheckTenantAbsent
<1>14. CASE SaveNewTenant(t)
  <2>1. snap[t] = modes[req[t].region]
    BY <1>14, <1>u DEF SaveNewTenant, UpToDate
  <2>2. PICK i \in TenantId, m \in InitialModes(snap[t], req[t].mode) :
          tenants' = [tenants EXCEPT ![i] = NewTenant(req[t], m)] /\ UNCHANGED modes
    BY <1>14 DEF SaveNewTenant
  <2>3. m # Null => Configured(modes[req[t].region], m)
    BY <2>1 DEF InitialModes, Defaults
  <2>4. /\ NewTenant(req[t], m).mode = m
        /\ NewTenant(req[t], m).region = req[t].region
    BY DEF NewTenant
  <2>5. TenantModeConfigured'
    BY <2>2, <2>3, <2>4, <1>u DEF TenantModeConfigured, Configured, Explained, TypeOK
  <2>6. QED BY <1>14, <2>5, <1>r, FreshReturn DEF SaveNewTenant
<1>15. CASE SetTenantField(t)
  <2>1. PICK r \in Region, a \in Alias, f \in Field, v \in Value \cup {Null} :
          /\ UNCHANGED <<modes, tenants>>
          /\ \/ Return(t, "unchanged") \/ Return(t, "error")
             \/ \E i \in TenantsNamed(r, a) :
                  Continue(t, "update", [RequestFor("set_tenant_field", r) EXCEPT !.tenant = a],
                           NoModes, [NoTodo EXCEPT ![i] = WithField(i, f, v)])
    BY <1>15 DEF SetTenantField
  <2>2. [RequestFor("set_tenant_field", r) EXCEPT !.tenant = a].region = r
    BY DEF RequestFor
  <2>3. CASE Return(t, "unchanged") \/ Return(t, "error")
    BY <2>1, <2>3, <1>k, <1>r, FreshReturn
  <2>4. ASSUME NEW i \in TenantsNamed(r, a), NEW rq, rq.region = r, NEW docs,
               docs = [NoTodo EXCEPT ![i] = WithField(i, f, v)],
               Continue(t, "update", rq, NoModes, docs)
        PROVE  OwnInv(t)'
    <3>1. \A j \in TenantId : docs[j] # Null => j = i /\ docs[j] = WithField(i, f, v)
      BY <2>4 DEF NoTodo
    <3>2. i \in TenantId /\ tenants[i] \in Tenant /\ tenants[i] # Null /\ tenants[i].region = r
      BY DEF TenantsNamed, TenantsOf, TypeOK
    <3>3. WithField(i, f, v).mode = tenants[i].mode /\ WithField(i, f, v).region = r
      BY <3>2 DEF WithField, Tenant
    <3>4. tenants[i].mode # Null => Explained(modes[r], r, tenants[i].mode)
      BY <3>2, <1>u DEF TenantModeConfigured
    <3>5. \A j \in TenantId : docs[j] # Null =>
              /\ docs[j].region = r
              /\ docs[j].mode # Null => Explained(modes[r], r, docs[j].mode)
      BY <3>1, <3>3, <3>4
    <3>6. \A j \in TenantId : docs[j] # Null =>
              /\ docs[j].region = rq.region
              /\ docs[j].mode # Null => Explained(modes[rq.region], rq.region, docs[j].mode)
      BY <2>4, <3>5
    <3>7. TypeOK /\ UNCHANGED <<modes, tenants, spoiled>>
      BY <2>1
    <3>8. Continue(t, "update", rq, NoModes, docs) /\ TenantModeConfigured
      BY <2>4, <1>u
    <3>9. QED BY ONLY <3>6, <3>7, <3>8, FreshContinue
  <2>5. QED BY <2>1, <2>2, <2>3, <2>4
<1>16. QED
  BY <1>1, <1>2, <1>3, <1>4, <1>5, <1>6, <1>7, <1>8, <1>9, <1>10, <1>11,
     <1>12, <1>13, <1>14, <1>15 DEF ThreadStep

\* What a step of another thread leaves as it is, unless it overtakes u.
OthersKeep(u, r) ==
    /\ pc'[u] = pc[u] /\ req'[u] = req[u] /\ snap'[u] = snap[u] /\ todo'[u] = todo[u]
    /\ modes'[r] = modes[r]
    /\ TenantsOf(r)' = TenantsOf(r)
    /\ \A i \in TenantsOf(r) : tenants'[i].mode = tenants[i].mode

LEMMA UsageKept ==
    ASSUME NEW r, ~Changed(r)
    PROVE  /\ modes'[r] = modes[r]
           /\ TenantsOf(r)' = TenantsOf(r)
           /\ \A i \in TenantsOf(r) : tenants'[i].mode = tenants[i].mode
<1>1. modes'[r] = modes[r] /\ Usage(r)' = Usage(r)
  BY DEF Changed
<1>2. PICK old, new : /\ old = [i \in TenantsOf(r) |-> tenants[i].mode]
                      /\ new = [i \in TenantsOf(r)' |-> tenants'[i].mode]
  OBVIOUS
<1>3. old = new
  BY <1>1, <1>2 DEF Usage
<1>4. DOMAIN old = TenantsOf(r) /\ DOMAIN new = TenantsOf(r)'
  BY <1>2
<1>5. TenantsOf(r)' = TenantsOf(r)
  BY <1>3, <1>4
<1>6. ASSUME NEW i \in TenantsOf(r) PROVE tenants'[i].mode = tenants[i].mode
  <2>1. old[i] = tenants[i].mode
    BY <1>2
  <2>2. new[i] = tenants'[i].mode
    BY <1>2, <1>5
  <2>3. QED BY <1>3, <2>1, <2>2
<1>7. QED BY <1>1, <1>5, <1>6

LEMMA NotOvertaken ==
    ASSUME TypeOK, NEW t \in Thread, ThreadStep(t), Note(t),
           NEW u \in Thread, u # t, u \notin overtaken', pc'[u] \in Steps
    PROVE  u \notin overtaken /\ req[u].region \in Region /\ OthersKeep(u, req[u].region)
<1>1. pc'[u] = pc[u] /\ req'[u] = req[u] /\ snap'[u] = snap[u] /\ todo'[u] = todo[u]
  BY EveryStepMoves DEF ThreadMoves, Return, Continue, TypeOK
<1>2. u \notin overtaken /\ ~(\E r \in Region : req[u].region = r /\ Changed(r))
  BY DEF Note
<1>3. RequestFits(pc[u], req[u])
  BY <1>1 DEF TypeOK
<1>4. req[u].region \in Region
  BY <1>3 DEF RequestFits, Request
<1>5. ~Changed(req[u].region)
  BY <1>2, <1>4
<1>6. QED BY <1>1, <1>2, <1>4, <1>5, UsageKept DEF OthersKeep

\* A thread that no other one overtook is still up to date.
LEMMA FreshKept ==
    ASSUME TypeOK, NEW u \in Thread, UpToDate(u), pc[u] \in Steps,
           OthersKeep(u, req[u].region), spoiled \subseteq spoiled'
    PROVE  UpToDate(u)'
<1>1. PICK r : r = req[u].region
  OBVIOUS
<1>2. /\ pc'[u] = pc[u] /\ req'[u].region = r /\ req'[u].mode = req[u].mode
      /\ snap'[u] = snap[u] /\ todo'[u] = todo[u]
      /\ modes'[r] = modes[r]
      /\ TenantsOf(r)' = TenantsOf(r)
      /\ \A i \in TenantsOf(r) : tenants'[i].mode = tenants[i].mode
  BY <1>1 DEF OthersKeep
<1>3. /\ (pc[u] \in {"count", "select", "unique", "create"} => snap[u] = modes[req[u].region])'
      /\ (pc[u] = "select" => Configured(snap[u], req[u].mode))'
  BY <1>1, <1>2 DEF UpToDate, Configured
<1>4. (pc[u] = "save_region" =>
           \A i \in TenantsOf(req[u].region) : tenants[i].mode # Null
               => Explained(snap[u], req[u].region, tenants[i].mode))'
  <2> SUFFICES ASSUME pc'[u] = "save_region", NEW i \in TenantsOf(req[u].region)',
                      tenants'[i].mode # Null
               PROVE  Explained(snap[u], req[u].region, tenants[i].mode)'
    OBVIOUS
  <2>1. i \in TenantsOf(r)'
    BY <1>2 DEF TenantsOf
  <2>2. i \in TenantsOf(r) /\ tenants'[i].mode = tenants[i].mode
    BY <1>2, <2>1
  <2>3. Explained(snap[u], r, tenants[i].mode)
    BY <1>1, <1>2, <2>2 DEF UpToDate
  <2>4. QED BY <1>2, <2>2, <2>3 DEF Explained, Configured
<1>5. (pc[u] = "update" =>
           \A i \in TenantId : todo[u][i] # Null =>
               /\ todo[u][i].region = req[u].region
               /\ todo[u][i].mode # Null =>
                    Explained(modes[req[u].region], req[u].region, todo[u][i].mode))'
  BY <1>1, <1>2 DEF UpToDate, Explained, Configured
<1>6. QED BY <1>3, <1>4, <1>5 DEF UpToDate

\* The write of a thread that was overtaken is noted where it matters.
LEMMA SpoilingNoted ==
    ASSUME TypeOK, TypeOK', TenantModeConfigured, NEW t \in overtaken, Note(t)
    PROVE  TenantModeConfigured'
<1> SUFFICES ASSUME NEW i \in TenantId, tenants'[i] # Null, tenants'[i].mode # Null
             PROVE  Explained(modes[tenants[i].region], tenants[i].region, tenants[i].mode)'
  BY DEF TenantModeConfigured
<1>1. PICK r \in Region, m \in Mode : r = tenants'[i].region /\ m = tenants'[i].mode
  <2>1. tenants'[i] \in Tenant
    BY DEF TypeOK
  <2>2. QED BY <2>1 DEF Tenant
<1>2. /\ spoiled \subseteq spoiled'
      /\ Touches(r, m) => <<r, m>> \in spoiled'
  BY DEF Note
<1>3. Uses(i, r, m)'
  BY <1>1 DEF Uses, TenantsOf
<1>4. CASE ~Uses(i, r, m)
  BY <1>1, <1>2, <1>3, <1>4 DEF Touches, Explained
<1>5. CASE Uses(i, r, m)
  <2>1. Explained(modes[r], r, m)
    BY <1>5, NullIsNoValue DEF Uses, TenantsOf, TenantModeConfigured
  <2>2. Configured(modes'[r], m) \/ <<r, m>> \in spoiled'
    BY <1>2, <2>1 DEF Explained, Touches
  <2>3. QED BY <1>1, <2>2 DEF Explained, Configured
<1>6. QED BY <1>4, <1>5

LEMMA FreshInvariant == Spec => [](TypeOK /\ FreshInv)
<1>1. Init => FreshInv
  BY DEF Init, FreshInv, TenantModeConfigured, UpToDate, NoTodo
<1>2. TypeOK /\ TypeOK' /\ FreshInv /\ [Next]_vars => FreshInv'
  <2> SUFFICES ASSUME TypeOK, TypeOK', FreshInv, [Next]_vars PROVE FreshInv'
    OBVIOUS
  <2>1. ASSUME NEW t \in Thread, ThreadStep(t), Note(t) PROVE FreshInv'
    <3>1. spoiled \subseteq spoiled' /\ (t \notin overtaken => UNCHANGED spoiled)
      BY <2>1 DEF Note
    <3>2. t \notin overtaken => OwnInv(t)'
      BY <2>1, <3>1, FreshStep DEF FreshInv, OwnInv
    <3>3. TenantModeConfigured'
      <4>1. CASE t \in overtaken
        BY <2>1, <4>1, SpoilingNoted DEF FreshInv
      <4>2. QED BY <3>2, <4>1 DEF OwnInv
    <3>4. ASSUME NEW u \in Thread, u \notin overtaken' PROVE UpToDate(u)'
      <4>1. CASE pc'[u] \notin Steps
        BY <4>1 DEF UpToDate, Steps
      <4>2. CASE u = t /\ pc'[u] \in Steps
        <5>1. t \notin overtaken
          BY <2>1, <3>4, <4>2 DEF Note
        <5>2. QED BY <3>2, <4>2, <5>1 DEF OwnInv
      <4>3. CASE u # t /\ pc'[u] \in Steps
        <5>1. u \notin overtaken /\ OthersKeep(u, req[u].region)
          BY <2>1, <3>4, <4>3, NotOvertaken
        <5>2. pc[u] \in Steps
          BY <4>3, <5>1 DEF OthersKeep
        <5>3. QED BY <3>1, <5>1, <5>2, FreshKept DEF FreshInv
      <4>4. QED BY <4>1, <4>2, <4>3
    <3>5. QED BY <3>3, <3>4 DEF FreshInv
  <2>2. CASE Restart
    BY <2>2 DEF Restart, FreshInv, TenantModeConfigured, Configured, Explained, UpToDate
  <2>3. CASE UNCHANGED vars
    BY <2>3 DEF vars, FreshInv, TenantModeConfigured, Configured, Explained, UpToDate, TenantsOf
  <2>4. QED BY <2>1, <2>2, <2>3 DEF Next
<1>3. QED BY <1>1, <1>2, TypeCorrect, PTL DEF Spec

\* Every tenant's mode is configured in its region, however many commands
\* interleave and whenever the process restarts, unless a command another one had
\* overtaken took that mode away or handed it out.
THEOREM ModesConfigured == Spec => []TenantModeConfigured
<1>1. FreshInv => TenantModeConfigured
  BY DEF FreshInv
<1>2. QED BY <1>1, FreshInvariant, PTL

-----------------------------------------------------------------------------
(* What a command under way holds is an edit of the stored documents. *)

\* How the copy a command is going to save may differ from the stored map.
Change(doc, new, r) ==
    \/ new = doc
    \/ \E m \in Mode, d \in Description \cup {Null}, flag \in BOOLEAN :
          \/ Creatable(doc, m, flag, TRUE) /\ new = Created(doc, m, d, flag)
          \/ Configured(doc, m) /\ new = Overridden(doc, m, d, flag)
    \/ \E m \in Mode : /\ Configured(doc, m)
                       /\ Deletable(r, m)
                       /\ new = [doc EXCEPT ![m] = Null]

\* A copy of tenant i that is going to be saved is a copy of the stored one;
\* only set_security_mode changes its mode, to the one it was asked for.
CopyOf(i, new, rq) ==
    /\ tenants[i] # Null
    /\ new.region = tenants[i].region /\ new.region = rq.region
    /\ new.mode = IF rq.cmd = "set_security_mode" THEN rq.mode ELSE tenants[i].mode

\* The tenants set_security_mode was asked to move and that have not moved yet.
ToMove(rq) ==
    {i \in TenantsOf(rq.region) : /\ tenants[i].mode # rq.mode
                                  /\ rq.current \in {Null, tenants[i].mode}}

\* What the thread holds in the middle of a command is an edit of the stored
\* documents, and nothing the command has to do is missing from it.
Pending(t) ==
    /\ pc[t] = "select" => req[t].cmd = "set_security_mode"
    /\ pc[t] = "save_region" => Change(modes[req[t].region], snap[t], req[t].region)
    /\ pc[t] = "update" =>
          /\ \A i \in TenantId : todo[t][i] # Null => CopyOf(i, todo[t][i], req[t])
          /\ req[t].cmd = "set_security_mode" =>
                /\ req[t].mode \in Mode /\ Configured(modes[req[t].region], req[t].mode)
                /\ req[t].tenant = Null =>
                      \A i \in ToMove(req[t]) : todo[t][i] # Null

PendingInv == \A t \in Thread \ overtaken : Pending(t)

\* A difference stays one as long as the region's tenants keep their modes.
LEMMA ChangeKept ==
    ASSUME NEW old, NEW new, NEW r, Change(old, new, r),
           TenantsOf(r)' = TenantsOf(r),
           \A i \in TenantsOf(r) : tenants'[i].mode = tenants[i].mode
    PROVE  Change(old, new, r)'
<1>1. ASSUME NEW m \in Mode, Deletable(r, m) PROVE Deletable(r, m)'
  <2>1. \A i \in TenantsOf(r) : tenants[i].mode # m
    BY <1>1 DEF Deletable, TenantsWithMode
  <2>2. \A i \in TenantsOf(r)' : tenants'[i].mode # m
    BY <2>1
  <2>3. QED BY <2>2 DEF Deletable, TenantsWithMode, TenantsOf
<1>2. QED BY <1>1 DEF Change, Creatable, Created, Overridden, Configured, Defaults

LEMMA PendingReturn ==
    ASSUME TypeOK, NEW t \in Thread, NEW r \in Replies, Return(t, r)
    PROVE  Pending(t)'
<1>1. pc'[t] \in Replies
  BY DEF Return, TypeOK
<1>2. QED BY <1>1 DEF Pending, Replies

LEMMA PendingContinue ==
    ASSUME TypeOK, NEW t \in Thread,
           NEW p, NEW rq, NEW doc, NEW docs, Continue(t, p, rq, doc, docs),
           UNCHANGED <<modes, tenants>>,
           p = "select" => rq.cmd = "set_security_mode",
           p = "save_region" => Change(modes[rq.region], doc, rq.region),
           p = "update" =>
              /\ \A i \in TenantId : docs[i] # Null => CopyOf(i, docs[i], rq)
              /\ rq.cmd = "set_security_mode" =>
                    /\ rq.mode \in Mode /\ Configured(modes[rq.region], rq.mode)
                    /\ rq.tenant = Null => \A i \in ToMove(rq) : docs[i] # Null
    PROVE  Pending(t)'
<1>1. pc'[t] = p /\ req'[t] = rq /\ snap'[t] = doc /\ todo'[t] = docs
  BY DEF Continue, TypeOK
<1>2. CASE p = "save_region"
  <2>1. PICK old, r : old = modes[rq.region] /\ r = rq.region
    OBVIOUS
  <2>2. TenantsOf(r)' = TenantsOf(r)
    BY DEF TenantsOf
  <2>3. Change(old, doc, r)'
    BY <1>2, <2>1, <2>2, ChangeKept
  <2>4. modes'[req'[t].region] = old /\ snap'[t] = doc /\ req'[t].region = r
    BY <1>1, <2>1
  <2>5. Change(modes[req[t].region], snap[t], req[t].region)'
    BY <2>3, <2>4
  <2>6. pc'[t] = "save_region"
    BY <1>1, <1>2
  <2>7. QED BY <2>5, <2>6 DEF Pending
<1>3. CASE p # "save_region"
  BY <1>1, <1>3 DEF Pending, CopyOf, ToMove, TenantsOf, Configured
<1>4. QED BY <1>2, <1>3

\* A command that edits a tenant saves a copy with the same region and mode.
LEMMA EditIsCopy ==
    ASSUME TypeOK, NEW t \in Thread, SetTenantField(t)
    PROVE  \/ Return(t, "unchanged") \/ Return(t, "error")
           \/ /\ UNCHANGED <<modes, tenants>>
              /\ \E rq, copies :
                    /\ rq.cmd # "set_security_mode"
                    /\ \A i \in TenantId : copies[i] # Null => CopyOf(i, copies[i], rq)
                    /\ Continue(t, "update", rq, NoModes, copies)
<1>1. PICK r \in Region, a \in Alias, f \in Field, v \in Value \cup {Null} :
        /\ UNCHANGED <<modes, tenants>>
        /\ \/ Return(t, "unchanged") \/ Return(t, "error")
           \/ \E i \in TenantsNamed(r, a) :
                Continue(t, "update", [RequestFor("set_tenant_field", r) EXCEPT !.tenant = a],
                         NoModes, [NoTodo EXCEPT ![i] = WithField(i, f, v)])
  BY DEF SetTenantField
<1>2. PICK rq : rq = [RequestFor("set_tenant_field", r) EXCEPT !.tenant = a]
  OBVIOUS
<1>q. rq.cmd # "set_security_mode" /\ rq.region = r
  BY <1>2 DEF RequestFor
<1>3. ASSUME NEW i \in TenantsNamed(r, a), NEW copies,
             copies = [NoTodo EXCEPT ![i] = WithField(i, f, v)],
             NEW j \in TenantId, copies[j] # Null
      PROVE  CopyOf(j, copies[j], rq)
  <2>1. i \in TenantId /\ tenants[i] \in Tenant /\ tenants[i] # Null /\ tenants[i].region = r
    BY DEF TenantsNamed, TenantsOf, TypeOK
  <2>2. WithField(i, f, v).mode = tenants[i].mode /\ WithField(i, f, v).region = r
    BY <2>1 DEF WithField, Tenant
  <2>3. copies[j] = IF j = i THEN WithField(i, f, v) ELSE Null
    BY <1>3 DEF NoTodo
  <2>4. j = i /\ copies[j] = WithField(i, f, v)
    BY <1>3, <2>3
  <2>5. QED BY <1>q, <2>1, <2>2, <2>4 DEF CopyOf
<1>4. ASSUME NEW i \in TenantsNamed(r, a),
             Continue(t, "update", rq, NoModes, [NoTodo EXCEPT ![i] = WithField(i, f, v)])
      PROVE  \E new, copies :
                    /\ new.cmd # "set_security_mode"
                    /\ \A j \in TenantId : copies[j] # Null => CopyOf(j, copies[j], new)
                    /\ Continue(t, "update", new, NoModes, copies)
  <2>1. PICK copies : copies = [NoTodo EXCEPT ![i] = WithField(i, f, v)]
    OBVIOUS
  <2>2. \A j \in TenantId : copies[j] # Null => CopyOf(j, copies[j], rq)
    BY <1>3, <2>1
  <2>3. Continue(t, "update", rq, NoModes, copies)
    BY <1>4, <2>1
  <2>4. QED BY <1>q, <2>2, <2>3
<1>5. QED BY <1>1, <1>2, <1>4

LEMMA PendingStep ==
    ASSUME TypeOK, NEW t \in Thread, UpToDate(t), Pending(t), ThreadStep(t)
    PROVE  Pending(t)'
<1>r. /\ {"idle", "ok", "unchanged", "error"} \subseteq Replies
      /\ {"save_region", "count", "select", "unique", "create", "update"} \subseteq Steps
  BY DEF Replies, Steps
<1>p. Pending(t) /\ UpToDate(t)
  OBVIOUS
<1>e. \A r \in Replies : Return(t, r) => Pending(t)'
  BY PendingReturn
<1>c. ASSUME NEW p \in {"count", "unique", "create"}, NEW rq, NEW doc, NEW docs,
             Continue(t, p, rq, doc, docs), UNCHANGED <<modes, tenants>>
      PROVE  Pending(t)'
  BY <1>c, PendingContinue
<1>s. ASSUME NEW r, NEW rq, NEW new, rq.region = r, Change(modes[r], new, r),
             Continue(t, "save_region", rq, new, NoTodo), UNCHANGED <<modes, tenants>>
      PROVE  Pending(t)'
  BY <1>s, PendingContinue
<1>1. CASE Reject(t) \/ SaveRegion(t) \/ UpdateFails(t) \/ SaveNewTenant(t)
  BY <1>1, <1>e, <1>r DEF Reject, SaveRegion, UpdateFails, SaveNewTenant
<1>2. CASE CreateConfiguration(t)
  <2>1. PICK r \in Region, m \in Mode, d \in Description \cup {Null},
             flag, groupExists \in BOOLEAN :
          /\ UNCHANGED <<modes, tenants>>
          /\ \/ Return(t, "error")
             \/ /\ Creatable(modes[r], m, flag, groupExists)
                /\ Continue(t, "save_region",
                     [RequestFor("configure_security_mode", r) EXCEPT !.mode = m],
                     Created(modes[r], m, d, flag), NoTodo)
    BY <1>2 DEF CreateConfiguration
  <2>2. [RequestFor("configure_security_mode", r) EXCEPT !.mode = m].region = r
    BY DEF RequestFor
  <2>3. Creatable(modes[r], m, flag, groupExists)
           => Change(modes[r], Created(modes[r], m, d, flag), r)
    BY DEF Creatable, Change
  <2>4. QED BY <2>1, <2>2, <2>3, <1>e, <1>r, <1>s
<1>3. CASE OverrideConfiguration(t)
  <2>1. PICK r \in Region, m \in Mode, d \in Description \cup {Null}, flag \in BOOLEAN :
          /\ UNCHANGED <<modes, tenants>>
          /\ \/ Return(t, "error")
             \/ Return(t, "unchanged")
             \/ /\ Configured(modes[r], m)
                /\ Continue(t, "save_region",
                     [RequestFor("configure_security_mode", r) EXCEPT !.mode = m],
                     Overridden(modes[r], m, d, flag), NoTodo)
    BY <1>3 DEF OverrideConfiguration
  <2>2. [RequestFor("configure_security_mode", r) EXCEPT !.mode = m].region = r
    BY DEF RequestFor
  <2>3. Configured(modes[r], m) => Change(modes[r], Overridden(modes[r], m, d, flag), r)
    BY DEF Change
  <2>4. QED BY <2>1, <2>2, <2>3, <1>e, <1>r, <1>s
<1>4. CASE DeleteSecurityMode(t)
  <2>1. \/ Return(t, "error")
        \/ /\ UNCHANGED <<modes, tenants>>
           /\ \E rq, doc : Continue(t, "count", rq, doc, NoTodo)
    BY <1>4 DEF DeleteSecurityMode
  <2>2. QED BY <2>1, <1>e, <1>r, <1>c
<1>5. CASE CountTenants(t)
  <2>1. /\ UNCHANGED <<modes, tenants>>
        /\ pc[t] = "count"
        /\ RequestFits("count", req[t])
        /\ snap[t] = modes[req[t].region]
    BY <1>5, <1>p, <1>r DEF CountTenants, UpToDate, TypeOK
  <2>2. req[t].region \in Region /\ req[t].mode \in Mode
    BY <2>1 DEF RequestFits, Request
  <2>3. ASSUME Deletable(req[t].region, req[t].mode)
        PROVE  Change(modes[req[t].region], [snap[t] EXCEPT ![req[t].mode] = Null],
                      req[t].region)
    <3>1. CASE Configured(snap[t], req[t].mode)
      BY <2>1, <2>2, <2>3, <3>1 DEF Change
    <3>2. CASE snap[t][req[t].mode] = Null
      <4>1. snap[t] \in ModeMap
        BY DEF TypeOK
      <4>2. [snap[t] EXCEPT ![req[t].mode] = Null] = snap[t]
        BY <3>2, <4>1 DEF ModeMap
      <4>3. QED BY <2>1, <4>2 DEF Change
    <3>3. QED BY <3>1, <3>2 DEF Configured
  <2>4. CASE /\ Deletable(req[t].region, req[t].mode)
             /\ Continue(t, "save_region", req[t],
                         [snap[t] EXCEPT ![req[t].mode] = Null], NoTodo)
    BY <2>1, <2>3, <2>4, <1>s
  <2>5. QED BY <1>5, <2>4, <1>e, <1>r DEF CountTenants
<1>6. CASE OtherRegionCommand(t)
  <2>1. PICK r \in Region : /\ UNCHANGED <<modes, tenants>>
                            /\ Continue(t, "save_region",
                                  RequestFor("other_region_command", r), modes[r], NoTodo)
    BY <1>6 DEF OtherRegionCommand
  <2>2. Change(modes[r], modes[r], r) /\ RequestFor("other_region_command", r).region = r
    BY DEF Change, RequestFor
  <2>3. QED BY <2>1, <2>2, <1>s
<1>7. CASE SetSecurityMode(t)
  <2>1. \/ Return(t, "error")
        \/ /\ UNCHANGED <<modes, tenants>>
           /\ \E r, m, a, n : Continue(t, "select",
                [RequestFor("set_security_mode", r) EXCEPT
                    !.mode = m, !.tenant = a, !.current = n], modes[r], NoTodo)
    BY <1>7 DEF SetSecurityMode
  <2>2. \A r, m, a, n : [RequestFor("set_security_mode", r) EXCEPT
                    !.mode = m, !.tenant = a, !.current = n].cmd = "set_security_mode"
    BY DEF RequestFor
  <2>3. CASE \E r, m, a, n : Continue(t, "select",
                [RequestFor("set_security_mode", r) EXCEPT
                    !.mode = m, !.tenant = a, !.current = n], modes[r], NoTodo)
    <3>1. PICK rq, doc : /\ rq.cmd = "set_security_mode"
                         /\ Continue(t, "select", rq, doc, NoTodo)
      <4>1. PICK r, m, a, n : Continue(t, "select",
                [RequestFor("set_security_mode", r) EXCEPT
                    !.mode = m, !.tenant = a, !.current = n], modes[r], NoTodo)
        BY <2>3
      <4> DEFINE rq == [RequestFor("set_security_mode", r) EXCEPT
                            !.mode = m, !.tenant = a, !.current = n]
      <4>2. rq.cmd = "set_security_mode" /\ Continue(t, "select", rq, modes[r], NoTodo)
        BY <2>2, <4>1
      <4> HIDE DEF rq
      <4>3. QED BY <4>2
    <3>2. UNCHANGED <<modes, tenants>>
      BY <1>7 DEF SetSecurityMode
    <3>3. QED BY <3>1, <3>2, PendingContinue
  <2>4. QED BY <2>1, <2>3, <1>e, <1>r
<1>8. CASE SelectTenants(t)
  <2>1. /\ UNCHANGED <<modes, tenants>>
        /\ RequestFits("select", req[t])
        /\ req[t].cmd = "set_security_mode"
        /\ Configured(modes[req[t].region], req[t].mode)
    BY <1>8, <1>p, <1>r DEF SelectTenants, Pending, UpToDate, TypeOK, Configured
  <2>2. PICK rq \in Request : /\ rq = req[t] /\ rq.mode \in Mode
                              /\ rq.cmd = "set_security_mode"
                              /\ Configured(modes[rq.region], rq.mode)
    BY <2>1 DEF RequestFits
  <2>3. \A i \in TenantsOf(rq.region) :
           /\ i \in TenantId /\ tenants[i] # Null
           /\ Moved(i, rq.mode) \in Tenant
           /\ Moved(i, rq.mode).mode = rq.mode
           /\ Moved(i, rq.mode).region = rq.region
           /\ tenants[i].region = rq.region
    BY <2>2 DEF Moved, TenantsOf, TypeOK, Tenant
  <2>4. ASSUME NEW sel \in Selections(rq), NEW docs,
               docs = [i \in TenantId |-> IF i \in sel THEN Moved(i, rq.mode) ELSE Null],
               Continue(t, "update", rq, NoModes, docs)
        PROVE  Pending(t)'
    <3>1. sel \subseteq TenantsOf(rq.region)
      BY <2>4 DEF Selections, TenantsNamed, TenantsWithMode
    <3>2. \A i \in TenantId : docs[i] # Null => CopyOf(i, docs[i], rq)
      BY <2>2, <2>3, <2>4, <3>1 DEF CopyOf
    <3>3. rq.tenant = Null => ToMove(rq) \subseteq sel
      BY <2>4 DEF Selections, ToMove, TenantsWithMode
    <3>4. rq.tenant = Null => \A i \in ToMove(rq) : docs[i] # Null
      <4> SUFFICES ASSUME rq.tenant = Null, NEW i \in ToMove(rq) PROVE docs[i] # Null
        OBVIOUS
      <4>1. i \in sel /\ i \in TenantsOf(rq.region)
        BY <3>1, <3>3
      <4>2. docs[i] = Moved(i, rq.mode)
        BY <4>1, <2>3, <2>4
      <4>3. QED BY <4>1, <4>2, <2>3, NullIsNoValue
    <3>5. QED BY <2>1, <2>2, <2>4, <3>2, <3>4, PendingContinue
  <2>5. \/ Return(t, "error")
        \/ \E sel \in Selections(rq) : Continue(t, "update", rq, NoModes,
              [i \in TenantId |-> IF i \in sel THEN Moved(i, rq.mode) ELSE Null])
    BY <1>8, <2>2 DEF SelectTenants
  <2>6. QED BY <2>4, <2>5, <1>e, <1>r
<1>9. CASE UpdateTenant(t)
  <2>1. PICK i \in TenantId :
          /\ todo[t][i] # Null
          /\ tenants' = [tenants EXCEPT ![i] = todo[t][i]]
          /\ UNCHANGED modes
          /\ \/ Return(t, "ok")
             \/ Continue(t, "update", req[t], NoModes, [todo[t] EXCEPT ![i] = Null])
    BY <1>9 DEF UpdateTenant
  <2>2. CASE Continue(t, "update", req[t], NoModes, [todo[t] EXCEPT ![i] = Null])
    <3>1. PICK rq \in Request : rq = req[t]
      BY <1>9, <1>r DEF UpdateTenant, TypeOK, RequestFits
    <3>2. PICK docs \in [TenantId -> Tenant \cup {Null}] : docs = todo[t]
      BY DEF TypeOK
    <3>3. pc'[t] = "update" /\ req'[t] = rq /\ todo'[t] = [docs EXCEPT ![i] = Null]
      BY <2>2, <3>1, <3>2 DEF Continue, TypeOK
    <3>4. /\ \A j \in TenantId : docs[j] # Null => CopyOf(j, docs[j], rq)
          /\ rq.cmd = "set_security_mode" =>
                /\ rq.mode \in Mode /\ Configured(modes[rq.region], rq.mode)
                /\ rq.tenant = Null => \A j \in ToMove(rq) : docs[j] # Null
      BY <1>9, <1>p, <3>1, <3>2 DEF UpdateTenant, Pending
    <3>5. /\ tenants' = [tenants EXCEPT ![i] = docs[i]] /\ docs[i] # Null
          /\ tenants \in [TenantId -> Tenant \cup {Null}]
      BY <2>1, <3>2 DEF TypeOK
    <3>6. \A j \in TenantId : todo'[t][j] # Null => j # i /\ todo'[t][j] = docs[j]
                                                    /\ tenants'[j] = tenants[j]
      BY <3>2, <3>3, <3>5
    <3>7. \A j \in TenantId : todo'[t][j] # Null => CopyOf(j, todo[t][j], req[t])'
      BY <3>3, <3>4, <3>6 DEF CopyOf
    <3>8. ASSUME rq.cmd = "set_security_mode", rq.tenant = Null, NEW j \in ToMove(rq)'
          PROVE  todo'[t][j] # Null
      <4>1. j \in TenantId
        BY <3>8 DEF ToMove, TenantsOf
      <4>2. j # i
        BY <3>4, <3>5, <3>8 DEF ToMove, TenantsOf, CopyOf
      <4>3. j \in ToMove(rq)
        BY <3>5, <3>8, <4>1, <4>2 DEF ToMove, TenantsOf
      <4>4. QED BY <3>2, <3>3, <3>4, <3>8, <4>1, <4>2, <4>3
    <3>9. pc'[t] = "update" /\ req'[t] = rq
      BY <3>3
    <3>10. rq.tenant = Null /\ rq.cmd = "set_security_mode"
             => \A j \in ToMove(req[t])' : todo'[t][j] # Null
      BY <3>8, <3>9 DEF ToMove, TenantsOf
    <3>11. rq.cmd = "set_security_mode" => Configured(modes[req[t].region], req[t].mode)'
      BY <2>1, <3>4, <3>9 DEF Configured
    <3>12. QED BY <3>4, <3>7, <3>9, <3>10, <3>11 DEF Pending
  <2>3. QED BY <2>1, <2>2, <1>e, <1>r
<1>10. CASE CreateTenant(t) \/ CheckTenantAbsent(t)
  <2>1. \/ Return(t, "error")
        \/ /\ UNCHANGED <<modes, tenants>>
           /\ \E rq, doc : \E p \in {"unique", "create"} : Continue(t, p, rq, doc, NoTodo)
    BY <1>10 DEF CreateTenant, CheckTenantAbsent
  <2>2. QED BY <2>1, <1>e, <1>r, <1>c
<1>11. CASE SetTenantField(t)
  <2>1. \/ Return(t, "unchanged") \/ Return(t, "error")
        \/ /\ UNCHANGED <<modes, tenants>>
           /\ \E rq, docs :
                /\ rq.cmd # "set_security_mode"
                /\ \A i \in TenantId : docs[i] # Null => CopyOf(i, docs[i], rq)
                /\ Continue(t, "update", rq, NoModes, docs)
    BY <1>11, EditIsCopy
  <2>2. QED BY <2>1, <1>e, <1>r, PendingContinue
<1>12. QED
  BY <1>1, <1>2, <1>3, <1>4, <1>5, <1>6, <1>7, <1>8, <1>9, <1>10, <1>11 DEF ThreadStep

\* A tenant of the region stays one, with its mode.
LEMMA CopyKept ==
    ASSUME TypeOK, NEW rq, NEW i \in TenantId, NEW new, CopyOf(i, new, rq),
           TenantsOf(rq.region)' = TenantsOf(rq.region),
           \A j \in TenantsOf(rq.region) : tenants'[j].mode = tenants[j].mode
    PROVE  CopyOf(i, new, rq)'
<1>1. PICK r : r = rq.region
  OBVIOUS
<1>2. tenants[i] # Null /\ tenants[i].region = r /\ new.region = r
  BY <1>1 DEF CopyOf
<1>3. i \in TenantsOf(r)
  BY <1>2 DEF TenantsOf
<1>4. i \in TenantsOf(r)' /\ tenants'[i].mode = tenants[i].mode
  BY <1>1, <1>3
<1>5. tenants'[i] # Null /\ tenants'[i].region = r
  BY <1>4 DEF TenantsOf
<1>6. new.mode = IF rq.cmd = "set_security_mode" THEN rq.mode ELSE tenants'[i].mode
  BY <1>4 DEF CopyOf
<1>7. QED BY <1>1, <1>2, <1>5, <1>6 DEF CopyOf

LEMMA ToMoveKept ==
    ASSUME NEW rq, TenantsOf(rq.region)' = TenantsOf(rq.region),
           \A j \in TenantsOf(rq.region) : tenants'[j].mode = tenants[j].mode
    PROVE  ToMove(rq)' = ToMove(rq)
BY DEF ToMove

\* What a command holds stays such an edit as long as no other one overtakes it.
LEMMA PendingKept ==
    ASSUME TypeOK, NEW u \in Thread, Pending(u), OthersKeep(u, req[u].region)
    PROVE  Pending(u)'
<1>1. PICK rq : rq = req[u]
  OBVIOUS
<1>2. PICK r : r = rq.region
  OBVIOUS
<1>3. PICK old, new, docs : old = modes[r] /\ new = snap[u] /\ docs = todo[u]
  OBVIOUS
<1>4. /\ pc'[u] = pc[u] /\ req'[u] = rq /\ snap'[u] = new /\ todo'[u] = docs
      /\ modes'[r] = old
      /\ TenantsOf(r)' = TenantsOf(r)
      /\ \A i \in TenantsOf(r) : tenants'[i].mode = tenants[i].mode
  BY <1>1, <1>2, <1>3 DEF OthersKeep
<1>5. /\ pc[u] = "select" => rq.cmd = "set_security_mode"
      /\ pc[u] = "save_region" => Change(old, new, r)
      /\ pc[u] = "update" =>
            /\ \A i \in TenantId : docs[i] # Null => CopyOf(i, docs[i], rq)
            /\ rq.cmd = "set_security_mode" =>
                  /\ rq.mode \in Mode /\ Configured(modes[r], rq.mode)
                  /\ rq.tenant = Null => \A i \in ToMove(rq) : docs[i] # Null
  BY <1>1, <1>2, <1>3 DEF Pending
<1>6. pc[u] = "save_region" => Change(old, new, r)'
  BY <1>4, <1>5, ChangeKept
<1>7. (pc[u] = "save_region" => Change(modes[req[u].region], snap[u], req[u].region))'
  BY <1>2, <1>4, <1>6
<1>8. TenantsOf(rq.region)' = TenantsOf(rq.region)
  BY <1>2, <1>4
<1>9. pc[u] = "update" => \A i \in TenantId : docs[i] # Null => CopyOf(i, docs[i], rq)'
  BY <1>2, <1>4, <1>5, <1>8, CopyKept
<1>10. ToMove(rq)' = ToMove(rq)
  BY <1>2, <1>4, <1>8, ToMoveKept
<1>11. (pc[u] = "update" =>
          \A i \in TenantId : todo[u][i] # Null => CopyOf(i, todo[u][i], req[u]))'
  BY <1>4, <1>9
<1>12. (pc[u] = "update" /\ req[u].cmd = "set_security_mode" =>
          /\ req[u].mode \in Mode
          /\ req[u].tenant = Null => \A i \in ToMove(req[u]) : todo[u][i] # Null)'
  BY <1>4, <1>5, <1>10
<1>c. (pc[u] = "update" /\ req[u].cmd = "set_security_mode" =>
          Configured(modes[req[u].region], req[u].mode))'
  BY <1>2, <1>3, <1>4, <1>5 DEF Configured
<1>13. (pc[u] = "select" => req[u].cmd = "set_security_mode")'
  BY <1>4, <1>5
<1>14. QED BY <1>7, <1>11, <1>12, <1>13, <1>c DEF Pending

LEMMA PendingInvariant == Spec => [](TypeOK /\ FreshInv /\ DefaultInv /\ PendingInv)
<1>1. Init => PendingInv
  BY DEF Init, PendingInv, Pending
<1>2. TypeOK /\ FreshInv /\ PendingInv /\ [Next]_vars => PendingInv'
  <2> SUFFICES ASSUME TypeOK, FreshInv, PendingInv, [Next]_vars, NEW u \in Thread,
                      u \notin overtaken'
               PROVE  Pending(u)'
    BY DEF PendingInv
  <2>1. CASE pc'[u] \notin Steps
    BY <2>1 DEF Pending, Steps
  <2>2. ASSUME NEW t \in Thread, ThreadStep(t), Note(t), pc'[u] \in Steps PROVE Pending(u)'
    <3>1. CASE u = t
      <4>1. t \notin overtaken
        BY <2>2, <3>1 DEF Note
      <4>2. QED BY <2>2, <3>1, <4>1, PendingStep DEF PendingInv, FreshInv
    <3>2. CASE u # t
      <4>1. u \notin overtaken /\ OthersKeep(u, req[u].region)
        BY <2>2, <3>2, NotOvertaken
      <4>2. QED BY <4>1, PendingKept DEF PendingInv
    <3>3. QED BY <3>1, <3>2
  <2>3. CASE Restart
    BY <2>3 DEF Restart, Pending
  <2>4. CASE UNCHANGED vars
    <3>1. u \notin overtaken /\ OthersKeep(u, req[u].region)
      BY <2>4 DEF vars, OthersKeep, TenantsOf
    <3>2. QED BY <3>1, PendingKept DEF PendingInv
  <2>5. QED BY <2>1, <2>2, <2>3, <2>4 DEF Next
<1>3. QED BY <1>1, <1>2, FreshInvariant, DefaultInvariant, PTL DEF Spec

\* A set_security_mode that answers "ok" has moved every tenant it was asked to
\* move, whatever other commands ran meanwhile, unless one of them created a tenant
\* of the region, gave one another mode or saved another map of modes.
THEOREM MovesComplete == Spec => MoveIsComplete
<1>1. ASSUME TypeOK, PendingInv, [Next]_vars, NEW t \in Thread \ overtaken,
             LastMove(t), req[t].tenant = Null, NEW i \in TenantId,
             tenants'[i] # Null, tenants'[i].region = req[t].region
      PROVE  /\ req[t].current = Null => tenants'[i].mode = req[t].mode
             /\ req[t].current # req[t].mode => tenants'[i].mode # req[t].current
                                            \/ req[t].current = Null
  <2>1. pc[t] = "update" /\ pc'[t] = "ok" /\ req[t].cmd = "set_security_mode"
    BY <1>1 DEF LastMove
  <2>2. UpdateTenant(t)
    <3>1. ThreadStep(t)
      <4>1. ~Restart /\ ~UNCHANGED vars
        BY <1>1, <2>1 DEF vars, Restart
      <4>2. PICK u \in Thread : ThreadStep(u)
        BY <1>1, <4>1 DEF Next
      <4>3. u = t
        BY <1>1, <2>1, <4>2, EveryStepMoves DEF ThreadMoves, Return, Continue, TypeOK
      <4>4. QED BY <4>2, <4>3
    <3>2. ~Return(t, "error")
      BY <1>1, <2>1 DEF Return, TypeOK
    <3>3. QED
      BY <2>1, <3>1, <3>2
      DEF ThreadStep, Reject, Free, Replies, CreateConfiguration, OverrideConfiguration,
          DeleteSecurityMode, CountTenants, OtherRegionCommand, SaveRegion, SetSecurityMode,
          SelectTenants, UpdateFails, CreateTenant, CheckTenantAbsent, SaveNewTenant,
          SetTenantField
  <2>3. PICK k \in TenantId :
          /\ todo[t][k] # Null
          /\ tenants' = [tenants EXCEPT ![k] = todo[t][k]]
          /\ [todo[t] EXCEPT ![k] = Null] = NoTodo
    <3>1. PICK k \in TenantId :
            /\ todo[t][k] # Null
            /\ tenants' = [tenants EXCEPT ![k] = todo[t][k]]
            /\ \/ [todo[t] EXCEPT ![k] = Null] = NoTodo
               \/ Continue(t, "update", req[t], NoModes, [todo[t] EXCEPT ![k] = Null])
      BY <2>2 DEF UpdateTenant
    <3>2. ~Continue(t, "update", req[t], NoModes, [todo[t] EXCEPT ![k] = Null])
      BY <1>1, <2>1 DEF Continue, TypeOK
    <3>3. QED BY <3>1, <3>2
  <2>4. \A j \in TenantId : j # k => todo[t][j] = Null
    BY <1>1, <2>3 DEF NoTodo, TypeOK
  <2>5. CopyOf(k, todo[t][k], req[t]) /\ \A j \in ToMove(req[t]) : todo[t][j] # Null
    BY <1>1, <2>1, <2>3 DEF PendingInv, Pending
  <2>6. CASE i = k
    <3>1. tenants'[i].mode = req[t].mode
      BY <1>1, <2>1, <2>3, <2>5, <2>6 DEF CopyOf, TypeOK
    <3>2. QED BY <3>1
  <2>7. CASE i # k
    <3>1. tenants'[i] = tenants[i] /\ i \notin ToMove(req[t])
      BY <1>1, <2>3, <2>4, <2>5, <2>7 DEF TypeOK
    <3>2. i \in TenantsOf(req[t].region)
      BY <1>1, <3>1 DEF TenantsOf
    <3>3. tenants[i].mode = req[t].mode \/ req[t].current \notin {Null, tenants[i].mode}
      BY <3>1, <3>2 DEF ToMove
    <3>4. QED BY <3>1, <3>3
  <2>8. QED BY <2>6, <2>7
<1>2. TypeOK /\ PendingInv /\ [Next]_vars =>
        [\A t \in Thread \ overtaken : LastMove(t) /\ req[t].tenant = Null =>
           \A i \in TenantId : tenants'[i] # Null /\ tenants'[i].region = req[t].region =>
             /\ req[t].current = Null => tenants'[i].mode = req[t].mode
             /\ req[t].current # req[t].mode => tenants'[i].mode # req[t].current
                                            \/ req[t].current = Null]_vars
  BY <1>1
<1>3. QED BY <1>2, PendingInvariant, PTL DEF Spec, MoveIsComplete

-----------------------------------------------------------------------------
(* Step by step *)

\* What the policy sees of a map of modes and of a tenant.
ModesOf(doc) == {m \in Mode : Configured(doc, m)}
DefaultOf(doc) == IF Defaults(doc) = {} THEN Null ELSE CHOOSE m \in Mode : m \in Defaults(doc)
UseOf(ten) == IF ten = Null THEN Null ELSE [region |-> ten.region, mode |-> ten.mode]

LEMMA DefaultIs ==
    ASSUME NEW doc, OneDefault(doc)
    PROVE  /\ Defaults(doc) = {} => DefaultOf(doc) = Null
           /\ \A m \in Defaults(doc) : DefaultOf(doc) = m
           /\ DefaultOf(doc) # Null => DefaultOf(doc) \in Defaults(doc)
<1>1. \A m \in Defaults(doc) : m \in Mode /\ \A n \in Defaults(doc) : n = m
  BY DEF OneDefault, Defaults
<1>2. \A m \in Defaults(doc) : (CHOOSE n \in Mode : n \in Defaults(doc)) = m
  BY <1>1
<1>3. QED BY <1>2 DEF DefaultOf

LEMMA CreatedView ==
    ASSUME NEW doc \in ModeMap, NEW m \in Mode, NEW d \in Description \cup {Null},
           NEW flag \in BOOLEAN, OneDefault(doc), ~Configured(doc, m),
           flag => Defaults(doc) = {}
    PROVE  /\ m \notin ModesOf(doc)
           /\ ModesOf(Created(doc, m, d, flag)) = ModesOf(doc) \cup {m}
           /\ \/ DefaultOf(Created(doc, m, d, flag)) = DefaultOf(doc)
              \/ DefaultOf(doc) = Null /\ DefaultOf(Created(doc, m, d, flag)) = m
<1> DEFINE new == Created(doc, m, d, flag)
<1>1. [default |-> flag, description |-> d] \in Configuration
  BY DEF Configuration
<1>2. \A n \in Mode : new[n] = IF n = m THEN [default |-> flag, description |-> d] ELSE doc[n]
  BY DEF Created, ModeMap
<1>3. m \notin ModesOf(doc) /\ ModesOf(new) = ModesOf(doc) \cup {m}
  BY <1>1, <1>2, NullIsNoValue DEF ModesOf, Configured
<1>4. Defaults(new) = IF flag THEN {m} ELSE Defaults(doc)
  BY <1>1, <1>2, NullIsNoValue DEF Defaults, Configured
<1> HIDE DEF new
<1>5. OneDefault(new)
  BY <1>4 DEF OneDefault
<1>6. CASE flag
  BY <1>4, <1>5, <1>6, DefaultIs, <1>3 DEF new
<1>7. CASE ~flag
  BY <1>3, <1>4, <1>7 DEF new, DefaultOf
<1>8. QED BY <1>6, <1>7

LEMMA OverriddenView ==
    ASSUME NEW doc \in ModeMap, NEW m \in Mode, NEW d \in Description \cup {Null},
           NEW flag \in BOOLEAN, OneDefault(doc), Configured(doc, m)
    PROVE  /\ m \in ModesOf(doc)
           /\ ModesOf(Overridden(doc, m, d, flag)) = ModesOf(doc)
           /\ DefaultOf(Overridden(doc, m, d, flag)) \in {DefaultOf(doc), m, Null}
<1> DEFINE new == Overridden(doc, m, d, flag)
<1>1. \A n \in Mode : Configured(new, n) <=> Configured(doc, n)
  <2>1. ASSUME NEW n \in Mode, Configured(doc, n) PROVE Configured(new, n)
    BY <2>1, ModesKept
  <2>2. ASSUME NEW n \in Mode, ~Configured(doc, n) PROVE ~Configured(new, n)
    BY <2>2 DEF Overridden, Configured
  <2>3. QED BY <2>1, <2>2
<1>2. Defaults(new) \subseteq Defaults(doc) \cup {m}
  BY <1>1, NullIsNoValue DEF Overridden, Defaults, Configured, ModeMap, Configuration
<1>3. OneDefault(new)
  BY OverriddenOneDefault
<1> HIDE DEF new
<1>4. DefaultOf(new) \in {DefaultOf(doc), m, Null}
  BY <1>2, <1>3, DefaultIs
<1>5. QED BY <1>1, <1>4 DEF ModesOf, new

LEMMA RemovedView ==
    ASSUME NEW doc \in ModeMap, NEW m \in Mode, OneDefault(doc)
    PROVE  /\ ModesOf([doc EXCEPT ![m] = Null]) = ModesOf(doc) \ {m}
           /\ DefaultOf([doc EXCEPT ![m] = Null]) =
                 IF DefaultOf(doc) = m THEN Null ELSE DefaultOf(doc)
<1> DEFINE new == [doc EXCEPT ![m] = Null]
<1>1. \A n \in Mode : new[n] = IF n = m THEN Null ELSE doc[n]
  BY DEF ModeMap
<1>2. Defaults(new) = Defaults(doc) \ {m}
  BY <1>1 DEF Defaults, Configured
<1>3. ModesOf(new) = ModesOf(doc) \ {m}
  BY <1>1 DEF ModesOf, Configured
<1>4. OneDefault(new)
  BY RemovedOneDefault
<1> HIDE DEF new
<1>5. DefaultOf(new) = IF DefaultOf(doc) = m THEN Null ELSE DefaultOf(doc)
  <2>1. CASE DefaultOf(doc) = m
    <3>1. m \in Defaults(doc)
      BY <2>1, DefaultIs, NullIsNoValue
    <3>2. Defaults(new) = {}
      BY <1>2, <3>1 DEF OneDefault, Defaults
    <3>3. QED BY <2>1, <3>2, <1>4, DefaultIs
  <2>2. CASE DefaultOf(doc) # m
    <3>1. m \notin Defaults(doc)
      BY <2>2, DefaultIs
    <3>2. Defaults(new) = Defaults(doc)
      BY <1>2, <3>1
    <3>3. QED BY <2>2, <3>2 DEF DefaultOf
  <2>3. QED BY <2>1, <2>2
<1>6. QED BY <1>3, <1>5 DEF new

\* The documents as the policy sees them.
PolicyModes == [r \in Region |-> {m \in Mode : Configured(modes[r], m)}]
PolicyDefaults ==
    [r \in Region |-> IF Defaults(modes[r]) = {} THEN Null
                      ELSE CHOOSE m \in Mode : m \in Defaults(modes[r])]
PolicyUses ==
    [i \in TenantId |-> IF tenants[i] = Null THEN Null
                        ELSE [region |-> tenants[i].region, mode |-> tenants[i].mode]]

LEMMA PolicyValues ==
    /\ \A r \in Region : /\ PolicyModes[r] = ModesOf(modes[r])
                         /\ PolicyDefaults[r] = DefaultOf(modes[r])
    /\ \A i \in TenantId : PolicyUses[i] = UseOf(tenants[i])
BY DEF PolicyModes, PolicyDefaults, PolicyUses, ModesOf, DefaultOf, UseOf

LEMMA MapChanges ==
    ASSUME modes \in [Region -> ModeMap], NEW r \in Region, NEW new,
           modes' = [modes EXCEPT ![r] = new]
    PROVE  /\ PolicyModes' = [PolicyModes EXCEPT ![r] = ModesOf(new)]
           /\ PolicyDefaults' = [PolicyDefaults EXCEPT ![r] = DefaultOf(new)]
<1>1. \A q \in Region : modes'[q] = IF q = r THEN new ELSE modes[q]
  OBVIOUS
<1>2. /\ PolicyModes = [q \in Region |-> ModesOf(modes[q])]
      /\ PolicyModes' = [q \in Region |-> ModesOf(modes'[q])]
  BY DEF PolicyModes, ModesOf, Configured
<1>3. /\ PolicyDefaults = [q \in Region |-> DefaultOf(modes[q])]
      /\ PolicyDefaults' = [q \in Region |-> DefaultOf(modes'[q])]
  BY DEF PolicyDefaults, DefaultOf, Defaults, Configured
<1>4. QED BY <1>1, <1>2, <1>3

LEMMA UseChanges ==
    ASSUME tenants \in [TenantId -> Tenant \cup {Null}], NEW i \in TenantId, NEW new,
           tenants' = [tenants EXCEPT ![i] = new]
    PROVE  PolicyUses' = [PolicyUses EXCEPT ![i] = UseOf(new)]
<1>1. \A j \in TenantId : tenants'[j] = IF j = i THEN new ELSE tenants[j]
  OBVIOUS
<1>2. /\ PolicyUses = [j \in TenantId |-> UseOf(tenants[j])]
      /\ PolicyUses' = [j \in TenantId |-> UseOf(tenants'[j])]
  BY DEF PolicyUses, UseOf
<1>3. QED BY <1>1, <1>2

LEMMA PolicyKeeps ==
    /\ UNCHANGED modes => UNCHANGED <<PolicyModes, PolicyDefaults>>
    /\ UNCHANGED tenants => UNCHANGED PolicyUses
<1>1. UNCHANGED modes => UNCHANGED PolicyModes
  BY DEF PolicyModes, Configured
<1>2. UNCHANGED modes => UNCHANGED PolicyDefaults
  BY DEF PolicyDefaults, Defaults, Configured
<1>3. UNCHANGED tenants => UNCHANGED PolicyUses
  BY DEF PolicyUses
<1>4. QED BY <1>1, <1>2, <1>3

\* The actions of the policy, in terms of the documents.
LEMMA PolicyConfigure ==
    ASSUME NEW r \in Region, NEW m \in Mode, m \notin PolicyModes[r],
           PolicyModes' = [PolicyModes EXCEPT ![r] = @ \cup {m}],
           \/ UNCHANGED PolicyDefaults
           \/ /\ PolicyDefaults[r] = Null
              /\ PolicyDefaults' = [PolicyDefaults EXCEPT ![r] = m],
           UNCHANGED PolicyUses
    PROVE  Policy!Configure(r, m)
BY DEF Policy!Configure, PolicyModes, PolicyDefaults, PolicyUses

LEMMA PolicyChangeDefault ==
    ASSUME NEW r \in Region, NEW m \in PolicyModes[r] \cup {Null},
           PolicyDefaults' = [PolicyDefaults EXCEPT ![r] = m],
           UNCHANGED <<PolicyModes, PolicyUses>>
    PROVE  Policy!ChangeDefault(r, m)
BY DEF Policy!ChangeDefault, PolicyModes, PolicyDefaults, PolicyUses

LEMMA PolicyRemove ==
    ASSUME NEW r \in Region, NEW m \in Mode, m \in PolicyModes[r],
           \A i \in TenantId : ~(/\ PolicyUses[i] # Null
                                 /\ PolicyUses[i].region = r
                                 /\ PolicyUses[i].mode = m),
           PolicyModes' = [PolicyModes EXCEPT ![r] = @ \ {m}],
           PolicyDefaults' = [PolicyDefaults EXCEPT ![r] = IF @ = m THEN Null ELSE @],
           UNCHANGED PolicyUses
    PROVE  Policy!Remove(r, m)
BY DEF Policy!Remove, Policy!Uses, PolicyModes, PolicyDefaults, PolicyUses

LEMMA PolicyAdmit ==
    ASSUME NEW i \in TenantId, NEW r \in Region, NEW m,
           PolicyUses[i] = Null,
           m \in PolicyModes[r] \/ m = PolicyDefaults[r],
           PolicyUses' = [PolicyUses EXCEPT ![i] = [region |-> r, mode |-> m]],
           UNCHANGED <<PolicyModes, PolicyDefaults>>
    PROVE  Policy!Admit(i, r, m)
BY DEF Policy!Admit, PolicyModes, PolicyDefaults, PolicyUses

LEMMA PolicyAssign ==
    ASSUME NEW i \in TenantId, NEW m,
           PolicyUses[i] # Null, m \in PolicyModes[PolicyUses[i].region],
           PolicyUses' = [PolicyUses EXCEPT ![i].mode = m],
           UNCHANGED <<PolicyModes, PolicyDefaults>>
    PROVE  Policy!Assign(i, m)
BY DEF Policy!Assign, PolicyModes, PolicyDefaults, PolicyUses

LEMMA PolicyStutter ==
    ASSUME UNCHANGED <<PolicyModes, PolicyDefaults, PolicyUses>>
    PROVE  UNCHANGED Policy!policy
BY DEF Policy!policy, PolicyModes, PolicyDefaults, PolicyUses

\* A region saved by a thread that was not overtaken changes by one command.
LEMMA SaveRegionIsPolicy ==
    ASSUME TypeOK, DefaultInv, NEW t \in Thread, Pending(t), SaveRegion(t)
    PROVE  [Policy!Next]_Policy!policy
<1>1. RequestFits("save_region", req[t]) /\ snap[t] \in ModeMap
  BY DEF SaveRegion, TypeOK, Steps
<1>2. PICK r \in Region : r = req[t].region
  BY <1>1 DEF RequestFits, Request
<1>3. PICK new \in ModeMap : new = snap[t]
  BY <1>1
<1>4. PICK doc \in ModeMap : doc = modes[r]
  BY DEF TypeOK
<1>5. /\ modes' = [modes EXCEPT ![r] = new]
      /\ UNCHANGED tenants
      /\ Change(doc, new, r)
  BY <1>2, <1>3, <1>4 DEF SaveRegion, Pending
<1>6. OneDefault(doc)
  BY <1>4 DEF DefaultInv, AtMostOneDefault
<1>7. /\ PolicyModes[r] = ModesOf(doc) /\ PolicyDefaults[r] = DefaultOf(doc)
      /\ PolicyModes' = [PolicyModes EXCEPT ![r] = ModesOf(new)]
      /\ PolicyDefaults' = [PolicyDefaults EXCEPT ![r] = DefaultOf(new)]
      /\ UNCHANGED PolicyUses
  BY <1>4, <1>5, MapChanges, PolicyValues, PolicyKeeps DEF TypeOK
<1>k. /\ ModesOf(new) = ModesOf(doc) => UNCHANGED PolicyModes
      /\ DefaultOf(new) = DefaultOf(doc) => UNCHANGED PolicyDefaults
  BY <1>7 DEF PolicyModes, PolicyDefaults
<1>8. CASE new = doc
  BY <1>7, <1>8, <1>k, PolicyStutter
<1>9. ASSUME NEW m \in Mode, NEW d \in Description \cup {Null}, NEW flag \in BOOLEAN,
             Creatable(doc, m, flag, TRUE), new = Created(doc, m, d, flag)
      PROVE  Policy!Next
  <2>1. /\ m \notin ModesOf(doc)
        /\ ModesOf(new) = ModesOf(doc) \cup {m}
        /\ \/ DefaultOf(new) = DefaultOf(doc)
           \/ DefaultOf(doc) = Null /\ DefaultOf(new) = m
    <3>1. ~Configured(doc, m) /\ (flag => Defaults(doc) = {})
      BY <1>9 DEF Creatable
    <3>2. /\ m \notin ModesOf(doc)
          /\ ModesOf(Created(doc, m, d, flag)) = ModesOf(doc) \cup {m}
          /\ \/ DefaultOf(Created(doc, m, d, flag)) = DefaultOf(doc)
             \/ DefaultOf(doc) = Null /\ DefaultOf(Created(doc, m, d, flag)) = m
      BY <1>6, <3>1, CreatedView
    <3>3. QED BY <1>9, <3>2
  <2>2. Policy!Configure(r, m)
    BY <1>7, <1>k, <2>1, PolicyConfigure
  <2>3. QED BY <2>2 DEF Policy!Next
<1>10. ASSUME NEW m \in Mode, NEW d \in Description \cup {Null}, NEW flag \in BOOLEAN,
              Configured(doc, m), new = Overridden(doc, m, d, flag)
       PROVE  [Policy!Next]_Policy!policy
  <2>1. /\ m \in ModesOf(doc)
        /\ ModesOf(new) = ModesOf(doc)
        /\ DefaultOf(new) \in {DefaultOf(doc), m, Null}
    BY <1>6, <1>10, OverriddenView
  <2>2. CASE DefaultOf(new) = DefaultOf(doc)
    BY <1>7, <1>k, <2>1, <2>2, PolicyStutter
  <2>3. CASE DefaultOf(new) \in {m, Null}
    <3>1. PICK n \in ModesOf(doc) \cup {Null} : n = DefaultOf(new)
      BY <2>1, <2>3
    <3>2. Policy!ChangeDefault(r, n)
      BY <1>7, <1>k, <2>1, <3>1, PolicyChangeDefault
    <3>3. n \in Mode \cup {Null}
      BY DEF ModesOf
    <3>4. QED BY <3>2, <3>3 DEF Policy!Next
  <2>4. QED BY <2>1, <2>2, <2>3
<1>11. ASSUME NEW m \in Mode, Configured(doc, m), Deletable(r, m),
              new = [doc EXCEPT ![m] = Null]
       PROVE  Policy!Next
  <2>1. /\ ModesOf(new) = ModesOf(doc) \ {m}
        /\ DefaultOf(new) = IF DefaultOf(doc) = m THEN Null ELSE DefaultOf(doc)
    BY <1>6, <1>11, RemovedView
  <2>2. m \in ModesOf(doc)
    BY <1>11 DEF ModesOf
  <2>3. \A i \in TenantId : ~(/\ PolicyUses[i] # Null
                              /\ PolicyUses[i].region = r
                              /\ PolicyUses[i].mode = m)
    <3> SUFFICES ASSUME NEW i \in TenantId, PolicyUses[i] # Null,
                        PolicyUses[i].region = r
                 PROVE  PolicyUses[i].mode # m
      OBVIOUS
    <3>1. tenants[i] # Null
      BY PolicyValues DEF UseOf
    <3>2. PolicyUses[i] = [region |-> tenants[i].region, mode |-> tenants[i].mode]
      BY <3>1, PolicyValues DEF UseOf
    <3>3. i \in TenantsOf(r)
      BY <3>1, <3>2 DEF TenantsOf
    <3>4. tenants[i].mode # m
      BY <1>11, <3>3 DEF Deletable, TenantsWithMode
    <3>5. QED BY <3>2, <3>4
  <2>4. Policy!Remove(r, m)
    BY <1>7, <2>1, <2>2, <2>3, PolicyRemove
  <2>5. QED BY <2>4 DEF Policy!Next
<1>12. QED BY <1>5, <1>8, <1>9, <1>10, <1>11 DEF Change

\* A tenant saved so keeps its mode or is assigned a configured one.
LEMMA UpdateTenantIsPolicy ==
    ASSUME TypeOK, NEW t \in Thread, Pending(t), UpdateTenant(t)
    PROVE  [Policy!Next]_Policy!policy
<1>1. PICK i \in TenantId : /\ todo[t][i] # Null
                            /\ tenants' = [tenants EXCEPT ![i] = todo[t][i]]
                            /\ UNCHANGED modes
  BY DEF UpdateTenant
<1>2. PICK new \in Tenant : new = todo[t][i]
  BY <1>1 DEF TypeOK
<1>3. PICK old \in Tenant : old = tenants[i] /\ old # Null
  BY <1>1 DEF UpdateTenant, Pending, CopyOf, TypeOK
<1>4. /\ new.region = old.region
      /\ \/ new.mode = old.mode
         \/ new.mode \in Mode /\ Configured(modes[new.region], new.mode)
  <2>1. CopyOf(i, todo[t][i], req[t])
    BY <1>1 DEF UpdateTenant, Pending
  <2>2. req[t].cmd = "set_security_mode" =>
           req[t].mode \in Mode /\ Configured(modes[req[t].region], req[t].mode)
    BY DEF UpdateTenant, Pending
  <2>3. QED BY <1>2, <1>3, <2>1, <2>2 DEF CopyOf
<1>5. /\ PolicyUses[i] = [region |-> old.region, mode |-> old.mode]
      /\ PolicyUses' = [PolicyUses EXCEPT ![i] = [region |-> old.region, mode |-> new.mode]]
      /\ UNCHANGED <<PolicyModes, PolicyDefaults>>
  <2>1. UseOf(new) = [region |-> old.region, mode |-> new.mode]
    BY <1>4, NullIsNoValue DEF UseOf
  <2>2. UseOf(old) = [region |-> old.region, mode |-> old.mode]
    BY <1>3 DEF UseOf
  <2>3. PolicyUses' = [PolicyUses EXCEPT ![i] = UseOf(new)]
    BY <1>1, <1>2, UseChanges DEF TypeOK
  <2>4. PolicyUses[i] = UseOf(old)
    BY <1>3, PolicyValues
  <2>5. QED BY <1>1, <2>1, <2>2, <2>3, <2>4, PolicyKeeps
<1>6. CASE new.mode = old.mode
  <2>1. UNCHANGED PolicyUses
    BY <1>5, <1>6 DEF PolicyUses
  <2>2. QED BY <1>5, <2>1, PolicyStutter
<1>7. CASE new.mode \in Mode /\ Configured(modes[new.region], new.mode)
  <2>1. PICK m \in Mode : m = new.mode
    BY <1>7
  <2>2. m \in PolicyModes[old.region]
    BY <1>4, <1>7, <2>1, PolicyValues DEF ModesOf, Tenant
  <2>3. PolicyUses' = [PolicyUses EXCEPT ![i].mode = m]
    <3>1. [PolicyUses[i] EXCEPT !.mode = m] = [region |-> old.region, mode |-> new.mode]
      BY <1>5, <2>1
    <3>2. [PolicyUses EXCEPT ![i].mode = m]
             = [PolicyUses EXCEPT ![i] = [PolicyUses[i] EXCEPT !.mode = m]]
      BY DEF PolicyUses
    <3>3. QED BY <1>5, <3>1, <3>2
  <2>4. PolicyUses[i] # Null
    BY <1>5, NullIsNoUse DEF Tenant
  <2>5. PolicyUses[i].region = old.region
    BY <1>5
  <2>6. m \in PolicyModes[PolicyUses[i].region]
    BY <2>2, <2>5
  <2>7. Policy!Assign(i, m)
    BY <1>5, <2>3, <2>4, <2>6, PolicyAssign
  <2>8. QED BY <2>7 DEF Policy!Next
<1>8. QED BY <1>4, <1>6, <1>7

\* A tenant that is created gets a configured mode, or the default.
LEMMA SaveNewTenantIsPolicy ==
    ASSUME TypeOK, DefaultInv, NEW t \in Thread, UpToDate(t), SaveNewTenant(t)
    PROVE  [Policy!Next]_Policy!policy
<1>1. RequestFits("create", req[t]) /\ snap[t] = modes[req[t].region]
  BY DEF SaveNewTenant, TypeOK, Steps, UpToDate
<1>2. PICK r \in Region : r = req[t].region
  BY <1>1 DEF RequestFits, Request
<1>3. PICK doc \in ModeMap : doc = modes[r]
  BY DEF TypeOK
<1>4. PICK i \in TenantId, m \in InitialModes(doc, req[t].mode) :
        /\ tenants[i] = Null
        /\ tenants' = [tenants EXCEPT ![i] = NewTenant(req[t], m)]
        /\ UNCHANGED modes
  BY <1>1, <1>2, <1>3 DEF SaveNewTenant
<1>5. m \in ModesOf(doc) \/ m = DefaultOf(doc)
  <2>1. OneDefault(doc)
    BY <1>3 DEF DefaultInv, AtMostOneDefault
  <2>2. QED BY <1>4, <2>1, DefaultIs DEF InitialModes, ModesOf
<1>6. m \in Mode \cup {Null}
  BY <1>4 DEF InitialModes, Defaults
<1>7. UseOf(NewTenant(req[t], m)) = [region |-> r, mode |-> m]
  <2>1. NewTenant(req[t], m) \in Tenant
    BY <1>1, <1>6 DEF NewTenant, Tenant, RequestFits, Request
  <2>2. NewTenant(req[t], m).region = r /\ NewTenant(req[t], m).mode = m
    BY <1>2 DEF NewTenant
  <2>3. QED BY <2>1, <2>2, NullIsNoValue DEF UseOf
<1>8. /\ PolicyUses[i] = Null
      /\ PolicyUses' = [PolicyUses EXCEPT ![i] = [region |-> r, mode |-> m]]
      /\ UNCHANGED <<PolicyModes, PolicyDefaults>>
      /\ PolicyModes[r] = ModesOf(doc) /\ PolicyDefaults[r] = DefaultOf(doc)
  <2>1. UseOf(tenants[i]) = Null
    BY <1>4 DEF UseOf
  <2>2. PICK new : new = NewTenant(req[t], m)
    OBVIOUS
  <2>3. PolicyUses' = [PolicyUses EXCEPT ![i] = UseOf(new)]
    BY <1>4, <2>2, UseChanges DEF TypeOK
  <2>4. PolicyUses[i] = Null /\ PolicyModes[r] = ModesOf(doc) /\ PolicyDefaults[r] = DefaultOf(doc)
    BY <1>3, <2>1, PolicyValues
  <2>5. QED BY <1>4, <1>7, <2>2, <2>3, <2>4, PolicyKeeps
<1>9. Policy!Admit(i, r, m)
  BY <1>5, <1>8, PolicyAdmit
<1>10. QED BY <1>6, <1>9 DEF Policy!Next

\* A write of a thread that was overtaken.
OvertakenWrite == \E t \in overtaken : SaveRegion(t) \/ UpdateTenant(t) \/ SaveNewTenant(t)

\* Every other step of the commands is a step of the policy, or invisible to it.
LEMMA PolicyStep ==
    ASSUME TypeOK, FreshInv, DefaultInv, PendingInv, [Next]_vars
    PROVE  [Policy!Next \/ OvertakenWrite]_Policy!policy
<1>1. CASE UNCHANGED <<modes, tenants>>
  BY <1>1, PolicyKeeps, PolicyStutter
<1>2. ASSUME NEW t \in Thread, ThreadStep(t), ~UNCHANGED <<modes, tenants>>
      PROVE  SaveRegion(t) \/ UpdateTenant(t) \/ SaveNewTenant(t)
  BY <1>2
  DEF ThreadStep, Reject, CreateConfiguration, OverrideConfiguration,
      DeleteSecurityMode, CountTenants, OtherRegionCommand, SetSecurityMode,
      SelectTenants, UpdateFails, CreateTenant, CheckTenantAbsent,
      SetTenantField
<1>3. ~UNCHANGED <<modes, tenants>> => \E t \in Thread : ThreadStep(t)
  BY DEF Next, Restart, vars
<1>4. ASSUME NEW t \in Thread \ overtaken,
             SaveRegion(t) \/ UpdateTenant(t) \/ SaveNewTenant(t)
      PROVE  [Policy!Next]_Policy!policy
  <2>1. UpToDate(t) /\ Pending(t)
    BY DEF FreshInv, PendingInv
  <2>2. QED
    BY <1>4, <2>1, SaveRegionIsPolicy, UpdateTenantIsPolicy, SaveNewTenantIsPolicy
<1>5. ASSUME NEW t \in overtaken,
             SaveRegion(t) \/ UpdateTenant(t) \/ SaveNewTenant(t)
      PROVE  OvertakenWrite
  BY <1>5 DEF OvertakenWrite
<1>6. QED BY <1>1, <1>2, <1>3, <1>4, <1>5

LEMMA PolicyInit == Init => Policy!Init
<1> SUFFICES ASSUME Init PROVE Policy!Init
  OBVIOUS
<1>1. \A r \in Region : ModesOf(modes[r]) = {} /\ Defaults(modes[r]) = {}
  BY DEF Init, NoModes, ModesOf, Defaults, Configured
<1>2. \A i \in TenantId : tenants[i] = Null
  BY DEF Init, NoTodo
<1>3. PolicyModes = [r \in Region |-> {}]
  BY <1>1 DEF PolicyModes, ModesOf
<1>4. PolicyDefaults = [r \in Region |-> Null]
  BY <1>1 DEF PolicyDefaults
<1>5. PolicyUses = [i \in TenantId |-> Null]
  BY <1>2 DEF PolicyUses
<1>6. QED BY <1>3, <1>4, <1>5 DEF Policy!Init, PolicyModes, PolicyDefaults, PolicyUses

\* The documents implement the policy, however many commands interleave and
\* wherever the process restarts, but for the writes of commands another one had
\* overtaken: a mode goes away only while no tenant uses it, a tenant moves to
\* configured modes only, and no save undoes another.
THEOREM PolicyImplemented == Spec => ImplementsPolicy
<1>1. TypeOK /\ FreshInv /\ DefaultInv /\ PendingInv /\ [Next]_vars
         => [\/ Policy!Next
             \/ \E t \in overtaken : SaveRegion(t) \/ UpdateTenant(t) \/ SaveNewTenant(t)
            ]_(Policy!policy)
  BY PolicyStep DEF OvertakenWrite
<1>2. QED BY <1>1, PolicyInit, PendingInvariant, PTL DEF Spec, ImplementsPolicy
=============================================================================
