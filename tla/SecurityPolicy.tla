---------------------------- MODULE SecurityPolicy ----------------------------
(***************************************************************************)
(* What the security mode commands of the admin API promise together:      *)
(* every region has a set of configured modes, at most one of them the     *)
(* default, and every tenant uses a mode its region has.  Each action is   *)
(* one command taking effect at once.  Module SecurityModes implements it  *)
(* but for the writes of commands that another one has overtaken.          *)
(***************************************************************************)
CONSTANTS Region, Mode, TenantId, Null

VARIABLES
    configured,   \* configured[r]: the modes of region r
    default,      \* default[r]: its default mode, or Null
    assigned      \* assigned[i]: the region and mode of tenant i, or Null

policy == <<configured, default, assigned>>

PolicyTypeOK ==
    /\ configured \in [Region -> SUBSET Mode]
    /\ default \in [Region -> Mode \cup {Null}]
    /\ assigned \in [TenantId -> [region: Region, mode: Mode \cup {Null}] \cup {Null}]

Uses(i, r, m) == assigned[i] # Null /\ assigned[i].region = r /\ assigned[i].mode = m

Init ==
    /\ configured = [r \in Region |-> {}]
    /\ default = [r \in Region |-> Null]
    /\ assigned = [i \in TenantId |-> Null]

\* A new mode may become the default only where there is none.
Configure(r, m) ==
    /\ m \notin configured[r]
    /\ configured' = [configured EXCEPT ![r] = @ \cup {m}]
    /\ \/ UNCHANGED default
       \/ /\ default[r] = Null
          /\ default' = [default EXCEPT ![r] = m]
    /\ UNCHANGED assigned

\* An override moves the default to a configured mode or takes it away.
ChangeDefault(r, m) ==
    /\ m \in configured[r] \cup {Null}
    /\ default' = [default EXCEPT ![r] = m]
    /\ UNCHANGED <<configured, assigned>>

\* A mode goes away, as the default too, only while no tenant uses it.
Remove(r, m) ==
    /\ m \in configured[r]
    /\ \A i \in TenantId : ~Uses(i, r, m)
    /\ configured' = [configured EXCEPT ![r] = @ \ {m}]
    /\ default' = [default EXCEPT ![r] = IF @ = m THEN Null ELSE @]
    /\ UNCHANGED assigned

\* A new tenant gets a configured mode it names, or the default if it names none.
Admit(i, r, m) ==
    /\ assigned[i] = Null
    /\ m \in configured[r] \/ m = default[r]
    /\ assigned' = [assigned EXCEPT ![i] = [region |-> r, mode |-> m]]
    /\ UNCHANGED <<configured, default>>

Assign(i, m) ==
    /\ assigned[i] # Null
    /\ m \in configured[assigned[i].region]
    /\ assigned' = [assigned EXCEPT ![i].mode = m]
    /\ UNCHANGED <<configured, default>>

Next ==
    \/ \E r \in Region, m \in Mode : Configure(r, m) \/ Remove(r, m)
    \/ \E r \in Region, m \in Mode \cup {Null} : ChangeDefault(r, m)
    \/ \E i \in TenantId, r \in Region, m \in Mode \cup {Null} : Admit(i, r, m)
    \/ \E i \in TenantId, m \in Mode : Assign(i, m)

Spec == Init /\ [][Next]_policy

\* What the policy is for: the default is one of the region's modes and
\* every tenant's mode is configured in its region.
PolicyHolds ==
    /\ \A r \in Region : default[r] \in configured[r] \cup {Null}
    /\ \A i \in TenantId :
          assigned[i] # Null /\ assigned[i].mode # Null
              => assigned[i].mode \in configured[assigned[i].region]
=============================================================================
