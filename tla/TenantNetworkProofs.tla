-------------------------- MODULE TenantNetworkProofs --------------------------
(* Theorems about TenantNetwork, for any number of threads, tenants, names    *)
(* and networks.                                                              *)
EXTENDS TenantNetwork, TLAPS

VlanDoc == [tenant: Tenant, name: Name, network: NetworkId]

\* What an action must do to the documents for the types to stay.
DocumentsKept ==
    /\ networks' \in [NetworkId -> Network \cup {Null}]
    /\ \A n \in NetworkId : networks[n] \in Network => networks'[n] \in Network
    /\ vlans' \subseteq VlanDoc
    /\ failed' \subseteq NetworkId

LEMMA InitTyped == Init => TypeOK
BY DEF Init, TypeOK, Replies, Steps, Created

\* An action that only moves thread t to a reply or a step keeps the types.
LEMMA GotoTyped ==
    ASSUME TypeOK, NEW t \in Thread,
           NEW p \in Replies \cup Steps, NEW rq \in Request \cup {Null},
           NEW net \in Networking \cup {Null},
           Goto(t, p, rq, net), Note, DocumentsKept,
           p \in Steps => rq \in Request,
           p = "register" <=> net # Null,
           net # Null => networks'[net.network] \in Network
    PROVE  TypeOK'
<1>1. /\ pc' \in [Thread -> Replies \cup Steps]
      /\ req' \in [Thread -> Request \cup {Null}]
      /\ made' \in [Thread -> Networking \cup {Null}]
      /\ pc'[t] = p /\ req'[t] = rq /\ made'[t] = net
      /\ \A u \in Thread \ {t} : pc'[u] = pc[u] /\ req'[u] = req[u] /\ made'[u] = made[u]
  BY DEF Goto, TypeOK
<1>2. ASSUME NEW u \in Thread
      PROVE  /\ pc'[u] \in Steps => req'[u] \in Request
             /\ pc'[u] = "register" <=> made'[u] # Null
  BY <1>1 DEF TypeOK
<1>3. ASSUME NEW u \in Thread, NEW n \in Created(u)'
      PROVE  networks'[n] \in Network
  <2>1. CASE u = t
    BY <1>1, <1>3, <2>1 DEF Created
  <2>2. CASE u # t
    <3>1. n \in Created(u)
      BY <1>1, <1>3, <2>2 DEF Created
    <3>2. n \in NetworkId
      BY <3>1 DEF Created, TypeOK, Networking
    <3>3. QED BY <3>1, <3>2 DEF TypeOK, DocumentsKept
  <2>3. QED BY <2>1, <2>2
<1>4. raced' \subseteq {u \in Thread : pc'[u] \in {"setup", "register"}}
  BY DEF Note
<1>5. QED BY <1>1, <1>2, <1>3, <1>4 DEF TypeOK, DocumentsKept, VlanDoc

LEMMA ReturnTyped ==
    ASSUME TypeOK, NEW t \in Thread, NEW r \in Replies, Return(t, r), Note, DocumentsKept
    PROVE  TypeOK'
<1>1. r \in Replies \cup Steps /\ r \notin Steps /\ r # "register"
  BY DEF Replies, Steps
<1>2. QED BY <1>1, GotoTyped DEF Return

\* A thread that made a network knows it, and its request.
LEMMA MadeTyped ==
    ASSUME TypeOK, NEW t \in Thread, pc[t] = "register"
    PROVE  /\ made[t] \in Networking /\ made[t].network \in NetworkId
           /\ made[t] # Null
           /\ req[t] \in Request
           /\ Created(t) = {made[t].network}
           /\ networks[made[t].network] \in Network
<1>1. made[t] \in Networking /\ made[t] # Null /\ req[t] \in Request
  BY DEF TypeOK, Steps
<1>2. Created(t) = {made[t].network} /\ made[t].network \in NetworkId
  BY <1>1 DEF Created, Networking
<1>3. QED BY <1>1, <1>2 DEF TypeOK

\* The network OpenStack makes for a request, on an id that was free.
LEMMA NetworkAdded ==
    ASSUME TypeOK, NEW t \in Thread, req[t] \in Request,
           NEW n \in NetworkId, NEW name \in Name,
           networks' = [networks EXCEPT ![n] = [tenant |-> req[t].tenant, name |-> name]]
    PROVE  /\ networks' \in [NetworkId -> Network \cup {Null}]
           /\ networks'[n] = [tenant |-> req[t].tenant, name |-> name]
           /\ networks'[n] \in Network
           /\ networks'[n] # Null
           /\ \A k \in NetworkId \ {n} : networks'[k] = networks[k]
<1>1. [tenant |-> req[t].tenant, name |-> name] \in Network
  BY DEF Network, Request
<1>2. [tenant |-> req[t].tenant, name |-> name] # Null
  BY <1>1, NullIsNothingElse
<1>3. QED BY <1>1, <1>2 DEF TypeOK

LEMMA StepTyped ==
    ASSUME TypeOK, NEW t \in Thread, ThreadStep(t), Note
    PROVE  TypeOK'
<1>p. {"idle", "ok", "error"} \subseteq Replies /\ {"check", "setup", "register"} \subseteq Steps
  BY DEF Replies, Steps
<1>d. UNCHANGED <<networks, vlans, failed>> => DocumentsKept
  BY DEF TypeOK, DocumentsKept, VlanDoc
<1>r. pc[t] \in Steps => req[t] \in Request
  BY DEF TypeOK
<1>1. CASE Configure(t)
  <2>1. PICK rq \in Request : Goto(t, "check", rq, Null)
    BY <1>1 DEF Configure
  <2>2. QED BY <1>1, <1>d, <1>p, <2>1, GotoTyped DEF Configure
<1>2. CASE Reject(t)
  BY <1>2, <1>d, <1>p, ReturnTyped DEF Reject
<1>3. CASE CheckVLANExist(t)
  <2>1. CASE Goto(t, "setup", req[t], Null)
    BY <1>3, <1>d, <1>p, <1>r, <2>1, GotoTyped DEF CheckVLANExist
  <2>2. CASE Return(t, "error")
    BY <1>3, <1>d, <1>p, <2>2, ReturnTyped DEF CheckVLANExist
  <2>3. QED BY <1>3, <2>1, <2>2 DEF CheckVLANExist
<1>4. CASE SetupNetworking(t)
  <2>1. PICK n \in NetworkId, name \in Name, router \in Router :
          /\ networks' = [networks EXCEPT ![n] = [tenant |-> req[t].tenant, name |-> name]]
          /\ Goto(t, "register", req[t], [network |-> n, router |-> router])
    BY <1>4 DEF SetupNetworking
  <2>2. req[t] \in Request
    BY <1>4, <1>p, <1>r DEF SetupNetworking
  <2>3. DocumentsKept /\ networks'[n] \in Network
    BY <1>4, <2>1, <2>2, NetworkAdded DEF SetupNetworking, DocumentsKept, TypeOK, VlanDoc
  <2>4. [network |-> n, router |-> router] \in Networking
    BY DEF Networking
  <2>5. [network |-> n, router |-> router] # Null
    BY <2>4, NullIsNothingElse
  <2>6. QED BY <1>p, <2>1, <2>2, <2>3, <2>4, <2>5, GotoTyped
<1>5. CASE SetupFails(t)
  <2>1. CASE UNCHANGED <<networks, failed>>
    BY <1>5, <1>d, <1>p, <2>1, ReturnTyped DEF SetupFails
  <2>2. CASE \E n \in NetworkId, name \in Name :
               /\ networks[n] = Null
               /\ req[t].name # Null => name = req[t].name
               /\ networks' = [networks EXCEPT ![n] = [tenant |-> req[t].tenant, name |-> name]]
               /\ failed' = failed \cup {n}
    <3>1. req[t] \in Request
      BY <1>5, <1>p, <1>r DEF SetupFails
    <3>2. PICK n \in NetworkId, name \in Name :
            /\ networks' = [networks EXCEPT ![n] = [tenant |-> req[t].tenant, name |-> name]]
            /\ failed' = failed \cup {n}
      BY <2>2
    <3>3. /\ networks' \in [NetworkId -> Network \cup {Null}]
          /\ networks'[n] \in Network
          /\ \A k \in NetworkId \ {n} : networks'[k] = networks[k]
      BY <3>1, <3>2, NetworkAdded
    <3>4. DocumentsKept
      BY <1>5, <3>2, <3>3 DEF SetupFails, DocumentsKept, TypeOK, VlanDoc
    <3>5. QED BY <1>5, <1>p, <3>4, ReturnTyped DEF SetupFails
  <2>3. QED BY <1>5, <2>1, <2>2 DEF SetupFails
<1>6. CASE RegisterVLAN(t)
  <2>1. pc[t] = "register" /\ UNCHANGED networks
    BY <1>6 DEF RegisterVLAN
  <2>2. Vlan(t) \in VlanDoc
    BY <2>1, MadeTyped DEF Vlan, VlanDoc, Network, Request
  <2>3. DocumentsKept
    BY <1>6, <2>1, <2>2, MadeTyped DEF RegisterVLAN, DocumentsKept, TypeOK, VlanDoc
  <2>4. \E r \in Replies : Return(t, r)
    BY <1>6, <1>p DEF RegisterVLAN
  <2>5. QED BY <2>3, <2>4, ReturnTyped
<1>7. CASE RegisterFails(t)
  <2>1. DocumentsKept
    BY <1>7, MadeTyped DEF RegisterFails, DocumentsKept, TypeOK, VlanDoc
  <2>2. QED BY <1>7, <1>p, <2>1, ReturnTyped DEF RegisterFails
<1>8. QED
  BY <1>1, <1>2, <1>3, <1>4, <1>5, <1>6, <1>7 DEF ThreadStep

LEMMA RestartTyped == TypeOK /\ Restart => TypeOK'
<1> SUFFICES ASSUME TypeOK, Restart PROVE TypeOK'
  OBVIOUS
<1>1. \A t \in Thread : Created(t) \subseteq NetworkId
  BY DEF TypeOK, Created, Networking
<1>2. \A t \in Thread : Created(t)' = {}
  BY DEF Restart, Created
<1>3. QED BY <1>1, <1>2 DEF Restart, TypeOK, Replies, Steps

\* Every variable keeps its type, and a thread that registers a network has
\* one that exists.
THEOREM TypeCorrect == Spec => []TypeOK
<1>1. TypeOK /\ UNCHANGED vars => TypeOK'
  BY DEF TypeOK, vars, Created
<1>2. TypeOK /\ [Next]_vars => TypeOK'
  BY <1>1, StepTyped, RestartTyped DEF Next
<1>3. QED BY <1>2, InitTyped, PTL DEF Spec

-----------------------------------------------------------------------------
(* VLANs and networks stay in step. *)

\* Thread t, which has made nothing, starts, checks or refuses.
Keeps(t) ==
    /\ Created(t) = {} /\ Created(t)' = {}
    /\ \A u \in Thread \ {t} : Created(u)' = Created(u) /\ req'[u] = req[u]
    /\ UNCHANGED <<networks, vlans, failed>>

LEMMA OthersStay ==
    ASSUME TypeOK, NEW t \in Thread, NEW p, NEW rq, NEW net, Goto(t, p, rq, net)
    PROVE  /\ pc'[t] = p /\ req'[t] = rq /\ made'[t] = net
           /\ \A u \in Thread \ {t} :
                /\ pc'[u] = pc[u] /\ req'[u] = req[u] /\ made'[u] = made[u]
                /\ Created(u)' = Created(u)
           /\ net = Null => Created(t)' = {}
           /\ net # Null => Created(t)' = {net.network}
BY DEF Goto, TypeOK, Created

LEMMA MadeNothing ==
    ASSUME TypeOK, NEW t \in Thread, pc[t] # "register"
    PROVE  Created(t) = {}
BY DEF TypeOK, Created

LEMMA KeepsInv == ASSUME TypeOK, MadeInv, NEW t \in Thread, Keeps(t) PROVE MadeInv'
<1>1. \A u \in Thread : Created(u)' = Created(u)
  BY DEF Keeps
<1>2. \A u \in Thread : Created(u) # {} => req'[u] = req[u]
  BY DEF Keeps
<1>3. VlansMatchNetworks'
  BY DEF Keeps, MadeInv, VlansMatchNetworks
<1>4. NetworksAccounted'
  <2>1. \A n \in NetworkId : Accounted(n) => Accounted(n)'
    BY <1>1 DEF Keeps, Accounted
  <2>2. QED BY <2>1 DEF Keeps, MadeInv, NetworksAccounted
<1>5. ASSUME NEW u \in Thread, NEW n \in Created(u)'
      PROVE  /\ networks'[n].tenant = req'[u].tenant
             /\ req'[u].name \in {networks'[n].name, Null}
             /\ \A v \in vlans' : v.network # n
             /\ \A w \in Thread \ {u} : n \notin Created(w)'
  BY <1>1, <1>2, <1>5 DEF Keeps, MadeInv
<1>6. QED BY <1>3, <1>4, <1>5 DEF MadeInv

\* OpenStack makes a network on an id that was free: no VLAN and no thread
\* refers to it yet.
LEMMA FreeIdUnknown ==
    ASSUME TypeOK, MadeInv, NEW n \in NetworkId, networks[n] = Null
    PROVE  /\ \A v \in vlans : v.network # n
           /\ \A u \in Thread : n \notin Created(u)
<1>1. ASSUME NEW v \in vlans PROVE networks[v.network] \in Network
  <2>1. v \in VlanDoc
    BY DEF TypeOK, VlanDoc
  <2>2. networks[v.network] = [tenant |-> v.tenant, name |-> v.name]
    BY DEF MadeInv, VlansMatchNetworks
  <2>3. QED BY <2>1, <2>2 DEF VlanDoc, Network
<1>2. Null \notin Network
  BY NullIsNothingElse
<1>3. QED BY <1>1, <1>2 DEF TypeOK

LEMMA SetupKeepsInv ==
    ASSUME TypeOK, MadeInv, NEW t \in Thread, SetupNetworking(t)
    PROVE  MadeInv'
<1>1. PICK n \in NetworkId, name \in Name, router \in Router :
        /\ networks[n] = Null
        /\ req[t].name # Null => name = req[t].name
        /\ networks' = [networks EXCEPT ![n] = [tenant |-> req[t].tenant, name |-> name]]
        /\ Goto(t, "register", req[t], [network |-> n, router |-> router])
  BY DEF SetupNetworking
<1>2. req[t] \in Request /\ UNCHANGED <<vlans, failed>> /\ Created(t) = {}
  BY MadeNothing DEF SetupNetworking, TypeOK, Steps
<1>3. /\ networks'[n] = [tenant |-> req[t].tenant, name |-> name]
      /\ \A k \in NetworkId \ {n} : networks'[k] = networks[k]
  BY <1>1, <1>2, NetworkAdded
<1>4. [network |-> n, router |-> router] # Null
  BY NullIsNothingElse DEF Networking
<1>5. /\ req'[t] = req[t] /\ Created(t)' = {n}
      /\ \A u \in Thread \ {t} : req'[u] = req[u] /\ Created(u)' = Created(u)
  BY <1>1, <1>4, OthersStay
<1>6. /\ \A v \in vlans : v.network \in NetworkId \ {n}
      /\ \A u \in Thread : Created(u) \subseteq NetworkId \ {n}
  BY <1>1, FreeIdUnknown DEF TypeOK, Created, Networking
<1>7. VlansMatchNetworks'
  BY <1>2, <1>3, <1>6 DEF MadeInv, VlansMatchNetworks
<1>8. NetworksAccounted'
  BY <1>2, <1>3, <1>5 DEF MadeInv, NetworksAccounted, Accounted
<1>9. ASSUME NEW u \in Thread, NEW k \in Created(u)'
      PROVE  /\ networks'[k].tenant = req'[u].tenant
             /\ req'[u].name \in {networks'[k].name, Null}
             /\ \A v \in vlans' : v.network # k
             /\ \A w \in Thread \ {u} : k \notin Created(w)'
  <2>1. CASE u = t
    BY <1>1, <1>2, <1>3, <1>5, <1>6, <1>9, <2>1
  <2>2. CASE u # t
    BY <1>2, <1>3, <1>5, <1>6, <1>9, <2>2 DEF MadeInv
  <2>3. QED BY <2>1, <2>2
<1>10. QED BY <1>7, <1>8, <1>9 DEF MadeInv

LEMMA SetupFailsKeepsInv ==
    ASSUME TypeOK, MadeInv, NEW t \in Thread, SetupFails(t)
    PROVE  MadeInv'
<1>1. req[t] \in Request /\ UNCHANGED vlans /\ Created(t) = {}
  BY MadeNothing DEF SetupFails, TypeOK, Steps
<1>2. /\ Created(t)' = {}
      /\ \A u \in Thread \ {t} : req'[u] = req[u] /\ Created(u)' = Created(u)
  BY OthersStay DEF SetupFails, Return
<1>3. CASE UNCHANGED <<networks, failed>>
  BY <1>1, <1>2, <1>3, KeepsInv DEF Keeps
<1>4. CASE \E n \in NetworkId, name \in Name :
             /\ networks[n] = Null
             /\ req[t].name # Null => name = req[t].name
             /\ networks' = [networks EXCEPT ![n] = [tenant |-> req[t].tenant, name |-> name]]
             /\ failed' = failed \cup {n}
  <2>1. PICK n \in NetworkId, name \in Name :
          /\ networks[n] = Null
          /\ networks' = [networks EXCEPT ![n] = [tenant |-> req[t].tenant, name |-> name]]
          /\ failed' = failed \cup {n}
    BY <1>4
  <2>2. \A k \in NetworkId \ {n} : networks'[k] = networks[k]
    BY <1>1, <2>1, NetworkAdded
  <2>3. /\ \A v \in vlans : v.network \in NetworkId \ {n}
        /\ \A u \in Thread : Created(u) \subseteq NetworkId \ {n}
    BY <2>1, FreeIdUnknown DEF TypeOK, Created, Networking
  <2>4. VlansMatchNetworks'
    BY <1>1, <2>2, <2>3 DEF MadeInv, VlansMatchNetworks
  <2>5. NetworksAccounted'
    BY <1>1, <1>2, <2>1, <2>2 DEF MadeInv, NetworksAccounted, Accounted
  <2>6. ASSUME NEW u \in Thread, NEW k \in Created(u)'
        PROVE  /\ networks'[k].tenant = req'[u].tenant
               /\ req'[u].name \in {networks'[k].name, Null}
               /\ \A v \in vlans' : v.network # k
               /\ \A w \in Thread \ {u} : k \notin Created(w)'
    BY <1>1, <1>2, <2>2, <2>3, <2>6 DEF MadeInv
  <2>7. QED BY <2>4, <2>5, <2>6 DEF MadeInv
<1>5. QED BY <1>3, <1>4 DEF SetupFails

\* Thread t lets go of its network, which is registered or given up.
LEMMA LetGo ==
    ASSUME TypeOK, MadeInv, NEW t \in Thread, pc[t] = "register",
           Created(t)' = {}, UNCHANGED networks,
           \A u \in Thread \ {t} : req'[u] = req[u] /\ Created(u)' = Created(u),
           \/ vlans' = vlans \cup {Vlan(t)} /\ failed' = failed
           \/ vlans' = vlans /\ failed' = failed \cup {made[t].network}
    PROVE  MadeInv'
<1>1. /\ Created(t) = {made[t].network}
      /\ networks[made[t].network] \in Network
      /\ Vlan(t).network = made[t].network
  BY MadeTyped DEF Vlan
<1>2. /\ networks[made[t].network].tenant = req[t].tenant
      /\ \A v \in vlans : v.network # made[t].network
      /\ \A u \in Thread \ {t} : made[t].network \notin Created(u)
  BY <1>1 DEF MadeInv
<1>3. networks[made[t].network] = [tenant |-> Vlan(t).tenant, name |-> Vlan(t).name]
  BY <1>1, <1>2 DEF Vlan, Network
<1>4. VlansMatchNetworks'
  BY <1>1, <1>2, <1>3 DEF MadeInv, VlansMatchNetworks
<1>5. NetworksAccounted'
  BY <1>1 DEF MadeInv, NetworksAccounted, Accounted
<1>6. ASSUME NEW u \in Thread, NEW k \in Created(u)'
      PROVE  /\ networks'[k].tenant = req'[u].tenant
             /\ req'[u].name \in {networks'[k].name, Null}
             /\ \A v \in vlans' : v.network # k
             /\ \A w \in Thread \ {u} : k \notin Created(w)'
  <2>1. u # t /\ k \in Created(u) /\ k # made[t].network
    BY <1>2, <1>6
  <2>2. QED BY <1>1, <1>2, <2>1 DEF MadeInv
<1>7. QED BY <1>4, <1>5, <1>6 DEF MadeInv

LEMMA StepKeepsInv ==
    ASSUME TypeOK, MadeInv, NEW t \in Thread, ThreadStep(t)
    PROVE  MadeInv'
<1>a. ASSUME NEW p, NEW rq, Goto(t, p, rq, Null), pc[t] # "register",
             UNCHANGED <<networks, vlans, failed>>
      PROVE  MadeInv'
  BY <1>a, OthersStay, MadeNothing, KeepsInv DEF Keeps
<1>b. ASSUME NEW r, Return(t, r), pc[t] = "register", UNCHANGED networks,
             \/ vlans' = vlans \cup {Vlan(t)} /\ failed' = failed
             \/ vlans' = vlans /\ failed' = failed \cup {made[t].network}
      PROVE  MadeInv'
  BY <1>b, OthersStay, LetGo DEF Return
<1>1. CASE Configure(t)
  BY <1>1, <1>a DEF Configure, Replies
<1>2. CASE Reject(t)
  BY <1>2, <1>a DEF Reject, Replies, Return
<1>3. CASE CheckVLANExist(t)
  BY <1>3, <1>a DEF CheckVLANExist, Return
<1>4. CASE SetupNetworking(t)
  BY <1>4, SetupKeepsInv
<1>5. CASE SetupFails(t)
  BY <1>5, SetupFailsKeepsInv
<1>6. CASE RegisterVLAN(t)
  BY <1>6, <1>b DEF RegisterVLAN
<1>7. CASE RegisterFails(t)
  BY <1>7, <1>b DEF RegisterFails
<1>8. QED
  BY <1>1, <1>2, <1>3, <1>4, <1>5, <1>6, <1>7 DEF ThreadStep

LEMMA RestartKeepsInv == ASSUME TypeOK, MadeInv, Restart PROVE MadeInv'
<1>1. \A t \in Thread : Created(t)' = {}
  BY DEF Restart, Created
<1>2. VlansMatchNetworks'
  BY DEF Restart, MadeInv, VlansMatchNetworks
<1>3. NetworksAccounted'
  BY DEF Restart, MadeInv, NetworksAccounted, Accounted
<1>4. QED BY <1>1, <1>2, <1>3 DEF MadeInv

LEMMA InvKept == TypeOK /\ MadeInv /\ [Next]_vars => MadeInv'
<1>1. ASSUME MadeInv, UNCHANGED vars PROVE MadeInv'
  BY <1>1 DEF vars, MadeInv, VlansMatchNetworks, NetworksAccounted, Accounted, Created
<1>2. QED BY <1>1, StepKeepsInv, RestartKeepsInv DEF Next

LEMMA InitInv == Init => MadeInv
BY DEF Init, MadeInv, VlansMatchNetworks, NetworksAccounted, Accounted, Created

\* Threads create networks of their own and register none twice.
THEOREM MadeInvHolds == Spec => []MadeInv
BY InitInv, InvKept, TypeCorrect, PTL DEF Spec

\* However many commands interleave, fail or are lost, a VLAN and the network
\* it stands for agree, and a network is registered once.
THEOREM VlansAgree == Spec => []VlansMatchNetworks
<1>1. MadeInv => VlansMatchNetworks
  BY DEF MadeInv
<1>2. QED BY <1>1, MadeInvHolds, PTL

\* Nothing a successful command made is unknown to the agent.
THEOREM NothingIsLost == Spec => []NetworksAccounted
<1>1. MadeInv => NetworksAccounted
  BY DEF MadeInv
<1>2. QED BY <1>1, MadeInvHolds, PTL

-----------------------------------------------------------------------------
(* Names are registered once, but for the races of two commands. *)

\* The name a command has looked up stays free until it registers it, or another
\* command has raced it.
CheckedFree ==
    \A t \in Thread \ raced : pc[t] \in {"setup", "register"} => ~Taken(req[t])

LEMMA CheckedKept ==
    ASSUME TypeOK, CheckedFree, [Next]_vars
    PROVE  CheckedFree'
<1>1. CASE UNCHANGED vars
  BY <1>1 DEF vars, CheckedFree, Taken, VlansNamed
<1>2. CASE Restart
  BY <1>2 DEF Restart, CheckedFree
<1>3. ASSUME NEW t \in Thread, ThreadStep(t), Note
      PROVE  CheckedFree'
  <2> SUFFICES ASSUME NEW u \in Thread, u \notin raced', pc'[u] \in {"setup", "register"}
               PROVE  ~Taken(req[u])'
    BY DEF CheckedFree
  <2>n. u \notin raced /\ (Taken(req[u])' => Taken(req[u]))
    BY <1>3 DEF Note
  <2>a. ASSUME NEW p, NEW rq, NEW net, Goto(t, p, rq, net)
        PROVE  /\ pc'[t] = p /\ req'[t] = rq
               /\ u # t => pc'[u] = pc[u] /\ req'[u] = req[u]
    BY <2>a, OthersStay
  <2>b. ASSUME NEW r, Return(t, r)
        PROVE  pc'[t] = r /\ (u # t => pc'[u] = pc[u] /\ req'[u] = req[u])
    BY <2>a, <2>b DEF Return
  <2>1. ASSUME ~Taken(req[u])
        PROVE  ~Taken(req[u])'
    BY <2>n, <2>1
  <2>2. CASE u # t
    <3>1. pc'[u] = pc[u]
      BY <1>3, <2>2, <2>a, <2>b
      DEF ThreadStep, Configure, Reject, CheckVLANExist, SetupNetworking, SetupFails,
          RegisterVLAN, RegisterFails
    <3>2. QED BY <2>1, <2>n, <3>1 DEF CheckedFree
  <2>3. CASE u = t
    <3>1. CASE Configure(t)
      BY <2>3, <3>1, <2>a DEF Configure
    <3>2. CASE CheckVLANExist(t)
      <4>1. NameIsFree(req[t])
        BY <2>3, <3>2, <2>b DEF CheckVLANExist
      <4>2. QED BY <2>1, <2>3, <4>1 DEF NameIsFree, Taken
    <3>3. CASE SetupNetworking(t)
      BY <2>1, <2>3, <2>n, <3>3 DEF SetupNetworking, CheckedFree
    <3>4. CASE Reject(t) \/ SetupFails(t) \/ RegisterVLAN(t) \/ RegisterFails(t)
      BY <2>3, <3>4, <2>b DEF Reject, SetupFails, RegisterVLAN, RegisterFails
    <3>5. QED BY <1>3, <3>1, <3>2, <3>3, <3>4 DEF ThreadStep
  <2>4. QED BY <2>2, <2>3
<1>4. QED BY <1>1, <1>2, <1>3 DEF Next

\* A name the tenant has already is registered again only by a command that another
\* one raced between its check and its registration, however many commands
\* interleave, fail or are lost.
THEOREM OnlyRacesTakeNames == Spec => TakenNamesWereRaced
<1>1. Init => CheckedFree
  BY DEF Init, CheckedFree
<1>2. CheckedFree => [\A t \in Thread \ raced : ~RegistersTakenName(t)]_vars
  BY DEF CheckedFree, RegistersTakenName
<1>3. TypeOK /\ CheckedFree /\ [Next]_vars => CheckedFree'
  BY CheckedKept
<1>4. QED BY <1>1, <1>2, <1>3, TypeCorrect, PTL DEF Spec, TakenNamesWereRaced
=============================================================================
