---------------------------- MODULE RegionRegistry ----------------------------
(***************************************************************************)
(* What the region commands of the admin API promise together: a registry  *)
(* of region documents, one for each alias, in which a command reads and   *)
(* writes its region in one step.  Module RegionConfig implements it as    *)
(* long as no command is overtaken by another.                             *)
(***************************************************************************)
EXTENDS Sequences

CONSTANTS RegionId, Alias, ShapeId, Field, Value, Mapping, Null

VARIABLE docs    \* docs[id]: the region document id, or Null

Blank(a) ==
    [regionAlias |-> a, allowedShapes |-> <<>>, managementAvailable |-> FALSE,
     settings |-> [f \in Field |-> Null], adminProjectMeta |-> Null]

Init == docs = [id \in RegionId |-> Null]

Register(id, a) ==
    /\ docs[id] = Null
    /\ \A i \in RegionId : docs[i] # Null => docs[i].regionAlias # a
    /\ docs' = [docs EXCEPT ![id] = Blank(a)]

Edit(id) ==
    /\ docs[id] # Null
    /\ \/ \E f \in Field, v \in Value : docs' = [docs EXCEPT ![id].settings[f] = v]
       \/ \E b \in BOOLEAN : docs' = [docs EXCEPT ![id].managementAvailable = b]
       \/ \E s \in ShapeId :
            /\ \A i \in DOMAIN docs[id].allowedShapes : docs[id].allowedShapes[i] # s
            /\ docs' = [docs EXCEPT ![id].allowedShapes = Append(@, s)]
       \/ \E ms \in SUBSET Mapping :
            docs' = [docs EXCEPT ![id].adminProjectMeta = [imagesMapping |-> ms]]
       \/ \E m \in Mapping :
            /\ docs[id].adminProjectMeta # Null
            /\ docs' = [docs EXCEPT ![id].adminProjectMeta.imagesMapping = @ \cup {m}]

Next == \E id \in RegionId : Edit(id) \/ \E a \in Alias : Register(id, a)

Spec == Init /\ [][Next]_docs
=============================================================================
