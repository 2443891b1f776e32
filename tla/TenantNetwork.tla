----------------------------- MODULE TenantNetwork -----------------------------
(***************************************************************************)
(* configure_tenant_network: the admin API creates a network, a subnet and *)
(* a router in OpenStack and registers the network as a VLAN of the tenant.*)
(*                                                                         *)
(* The command looks the requested name up among the registered VLANs, then*)
(* makes the long remote call, then saves the VLAN document.  Nothing is   *)
(* locked meanwhile and nothing is rolled back: a step is one remote or    *)
(* database operation of one request thread.                               *)
(***************************************************************************)
EXTENDS FiniteSets, Integers

CONSTANTS
    Thread,      \* request threads of the servlet container
    Tenant,      \* tenants, each in its region
    Name,        \* network names
    NetworkId,   \* ids OpenStack may assign (bounds the networks created)
    Null,        \* Java null, or an empty string
    MayFail      \* whether remote calls fail and the process may be restarted

ASSUME MayFailIsFlag == MayFail \in BOOLEAN

\* ConfigureTenantNetworkRequest: the name and the gateway address are optional.
Request == [tenant: Tenant, name: Name \cup {Null}, hasIp: BOOLEAN]

\* What Networking.getRouter() may give: no router, one without an external
\* gateway, or one with it.
Router == {"none", "no_gateway", "gateway"}

\* A network of OpenStack, and what setupTenantLimitedNetworking returns.
Network    == [tenant: Tenant, name: Name]
Networking == [network: NetworkId, router: Router]

ASSUME NullIsNothingElse == Null \notin Name \cup Request \cup Network \cup Networking

VARIABLES
    networks,    \* networks[n]: owner and name of the OpenStack network n, or Null
    vlans,       \* the registered VLANs, as [tenant, name, network]
    pc,          \* pc[t]: the operation thread t does next, or its reply
    req,         \* req[t]: the request thread t serves
    made,        \* made[t]: the network and router created for it, or Null
    failed,      \* networks whose command was answered with an error or lost
    raced        \* history: threads whose name another one registered since they
                 \* looked it up

vars == <<networks, vlans, pc, req, made, failed, raced>>

Replies == {"idle", "ok", "error"}
Steps   == {"check", "setup", "register"}

Init ==
    /\ networks = [n \in NetworkId |-> Null]
    /\ vlans = {}
    /\ pc = [t \in Thread |-> "idle"]
    /\ req = [t \in Thread |-> Null]
    /\ made = [t \in Thread |-> Null]
    /\ failed = {} /\ raced = {}

Goto(t, p, rq, net) ==
    /\ pc' = [pc EXCEPT ![t] = p]
    /\ req' = [req EXCEPT ![t] = rq]
    /\ made' = [made EXCEPT ![t] = net]

Return(t, r) == Goto(t, r, Null, Null)

\* Bound: no command starts that could find every id of NetworkId taken.
NetworkFits ==
    Cardinality({n \in NetworkId : networks[n] # Null})
        + Cardinality({t \in Thread : pc[t] \in {"check", "setup"}})
    < Cardinality(NetworkId)

\* The region and the tenant were found.
Configure(t) ==
    /\ pc[t] \in Replies
    /\ NetworkFits
    /\ \E rq \in Request : Goto(t, "check", rq, Null)
    /\ UNCHANGED <<networks, vlans, failed>>

\* The region or the tenant was not.
Reject(t) ==
    /\ pc[t] \in Replies
    /\ Return(t, "error")
    /\ UNCHANGED <<networks, vlans, failed>>

\* IAdminVLANService.getTenantVLANByName.
VlansNamed(tn, name) == {v \in vlans : v.tenant = tn /\ v.name = name}

\* Mutant of NameIsFree: the name is not looked up.
NeverTaken(rq) == TRUE

\* checkVLANExist: a request without a name is not checked.
NameIsFree(rq) == rq.name = Null \/ VlansNamed(rq.tenant, rq.name) = {}

CheckVLANExist(t) ==
    /\ pc[t] = "check"
    /\ IF NameIsFree(req[t])
       THEN Goto(t, "setup", req[t], Null)
       ELSE Return(t, "error")
    /\ UNCHANGED <<networks, vlans, failed>>

\* setupTenantLimitedNetworking succeeds; OpenStack names an unnamed network.
SetupNetworking(t) ==
    /\ pc[t] = "setup"
    /\ \E n \in NetworkId, name \in Name, router \in Router :
        /\ networks[n] = Null
        /\ req[t].name # Null => name = req[t].name
        /\ ~MayFail => router = "gateway"
        /\ networks' = [networks EXCEPT ![n] = [tenant |-> req[t].tenant, name |-> name]]
        /\ Goto(t, "register", req[t], [network |-> n, router |-> router])
    /\ UNCHANGED <<vlans, failed>>

\* It throws, before or after the network exists.
SetupFails(t) ==
    /\ MayFail
    /\ pc[t] = "setup"
    /\ \/ UNCHANGED <<networks, failed>>
       \/ \E n \in NetworkId, name \in Name :
            /\ networks[n] = Null
            /\ req[t].name # Null => name = req[t].name
            /\ networks' = [networks EXCEPT ![n] = [tenant |-> req[t].tenant, name |-> name]]
            /\ failed' = failed \cup {n}
    /\ Return(t, "error")
    /\ UNCHANGED vlans

\* getExternalIp dereferences the gateway of a router that has none, before the
\* VLAN is added; it tolerates a missing router.
ExternalIpKnown(rq, router) == rq.hasIp \/ router # "no_gateway"

\* Mutant of Vlan: the VLAN is registered for the requested name only.
RequestedVlan(t) ==
    [tenant |-> req[t].tenant, name |-> req[t].name, network |-> made[t].network]

\* Mutant of Vlan: the network is found by its name.
FoundByName(t) ==
    [tenant  |-> req[t].tenant,
     name    |-> networks[made[t].network].name,
     network |-> CHOOSE n \in NetworkId : networks[n] = networks[made[t].network]]

\* The document setupTenantVlan makes: the name OpenStack gave the network.
Vlan(t) ==
    [tenant  |-> req[t].tenant,
     name    |-> networks[made[t].network].name,
     network |-> made[t].network]

\* setupTenantVlan, then the answer, which reads the router's external gateway
\* without the check getExternalIp makes: without a router the VLAN is added
\* and the answer is an error.
RegisterVLAN(t) ==
    /\ pc[t] = "register"
    /\ IF ExternalIpKnown(req[t], made[t].router)
       THEN /\ vlans' = vlans \cup {Vlan(t)}
            /\ Return(t, IF made[t].router = "gateway" THEN "ok" ELSE "error")
            /\ UNCHANGED failed
       ELSE /\ failed' = failed \cup {made[t].network}
            /\ Return(t, "error")
            /\ UNCHANGED vlans
    /\ UNCHANGED networks

\* addTenantVLAN throws.
RegisterFails(t) ==
    /\ MayFail
    /\ pc[t] = "register"
    /\ failed' = failed \cup {made[t].network}
    /\ Return(t, "error")
    /\ UNCHANGED <<networks, vlans>>

Created(t) == IF made[t] = Null THEN {} ELSE {made[t].network}

\* The process dies: OpenStack and the database keep what they have.
Restart ==
    /\ MayFail
    /\ \E t \in Thread : pc[t] # "idle"
    /\ failed' = failed \cup UNION {Created(t) : t \in Thread}
    /\ pc' = [t \in Thread |-> "idle"]
    /\ req' = [t \in Thread |-> Null]
    /\ made' = [t \in Thread |-> Null]
    /\ raced' = {}
    /\ UNCHANGED <<networks, vlans>>

ThreadStep(t) ==
    \/ Configure(t) \/ Reject(t) \/ CheckVLANExist(t)
    \/ SetupNetworking(t) \/ SetupFails(t)
    \/ RegisterVLAN(t) \/ RegisterFails(t)

\* The tenant has a VLAN of the requested name.
Taken(rq) == rq.name # Null /\ VlansNamed(rq.tenant, rq.name) # {}

\* The history of a step.
Note == raced' = {t \in Thread : /\ pc'[t] \in {"setup", "register"}
                                 /\ t \in raced \/ (~Taken(req[t]) /\ Taken(req[t])')}

Next == Restart \/ \E t \in Thread : ThreadStep(t) /\ Note

Spec == Init /\ [][Next]_vars

-----------------------------------------------------------------------------
(* Properties *)

TypeOK ==
    /\ networks \in [NetworkId -> Network \cup {Null}]
    /\ vlans \subseteq [tenant: Tenant, name: Name, network: NetworkId]
    /\ pc \in [Thread -> Replies \cup Steps]
    /\ req \in [Thread -> Request \cup {Null}]
    /\ made \in [Thread -> Networking \cup {Null}]
    /\ failed \subseteq NetworkId
    /\ raced \subseteq {t \in Thread : pc[t] \in {"setup", "register"}}
    /\ \A t \in Thread :
        /\ pc[t] \in Steps => req[t] \in Request
        /\ pc[t] = "register" <=> made[t] # Null
        /\ \A n \in Created(t) : networks[n] \in Network

\* A VLAN and the network it stands for agree on their tenant and name, and a
\* network is registered once, so that deleting or describing one never
\* touches another; whatever commands interleave, fail or are lost.
VlansMatchNetworks ==
    /\ \A v \in vlans : networks[v.network] = [tenant |-> v.tenant, name |-> v.name]
    /\ \A v, w \in vlans : v.network = w.network => v = w

\* Every OpenStack network is registered, about to be, or left behind by a
\* command that was not answered "ok": nothing a successful command made is
\* unknown to the agent.
Accounted(n) ==
    \/ \E v \in vlans : v.network = n
    \/ \E t \in Thread : n \in Created(t)
    \/ n \in failed

NetworksAccounted == \A n \in NetworkId : networks[n] # Null => Accounted(n)

\* What keeps it so: threads create networks of their own, for the tenant of
\* the request and under its name if it has one, and register none twice.
MadeInv ==
    /\ VlansMatchNetworks
    /\ NetworksAccounted
    /\ \A t \in Thread : \A n \in Created(t) :
        /\ networks[n].tenant = req[t].tenant
        /\ req[t].name \in {networks[n].name, Null}
        /\ \A v \in vlans : v.network # n
        /\ \A u \in Thread \ {t} : n \notin Created(u)

\* Thread t registers a network under the name it was asked for, although the
\* tenant has a VLAN of that name already.
RegistersTakenName(t) ==
    /\ pc[t] = "register" /\ Taken(req[t])
    /\ vlans' # vlans /\ made'[t] # made[t]

\* A tenant network asked for by name is registered only if the tenant has no
\* VLAN of that name: "Tenant network with %s name already registered".
NamesRegisteredOnce == [][\A t \in Thread : ~RegistersTakenName(t)]_vars

\* It is registered twice in one way only: while checkVLANExist of this command had
\* found the name free and OpenStack was still at work, another command registered a
\* network of that name; never after failures, restarts or lost commands alone.
TakenNamesWereRaced == [][\A t \in Thread \ raced : ~RegistersTakenName(t)]_vars
=============================================================================
