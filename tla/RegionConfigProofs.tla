--------------------------- MODULE RegionConfigProofs ---------------------------
(***************************************************************************)
(* Theorems about RegionConfig and about the batches of WizardBatch, which *)
(* are made of its steps: for any number of threads, regions, aliases,     *)
(* shapes and images, with restarts and failing operations anywhere.       *)
(***************************************************************************)
EXTENDS WizardBatch, TLAPS, SequenceTheorems, WellFoundedInduction

-----------------------------------------------------------------------------
(* What an operation of a thread does *)

\* The edits of a document, as RegionRegistry allows them.
EditOf(d, e) ==
    \/ \E f \in Field, v \in Value : e = [d EXCEPT !.settings[f] = v]
    \/ \E b \in BOOLEAN : e = [d EXCEPT !.managementAvailable = b]
    \/ \E s \in ShapeId : /\ ~HasShape(d, s)
                          /\ e = [d EXCEPT !.allowedShapes = Append(@, s)]
    \/ \E meta \in Meta : e = [d EXCEPT !.adminProjectMeta = meta]
    \/ \E m \in Mapping : /\ d.adminProjectMeta # Null
                          /\ e = [d EXCEPT !.adminProjectMeta.imagesMapping = @ \cup {m}]

\* The documents the commands make are region documents.
LEMMA EditTyped == ASSUME NEW d \in Region, NEW e, EditOf(d, e) PROVE e \in Region
<1>1. CASE \E f \in Field, v \in Value : e = [d EXCEPT !.settings[f] = v]
  <2>1. PICK f \in Field, v \in Value : e = [d EXCEPT !.settings[f] = v] BY <1>1
  <2>2. [d.settings EXCEPT ![f] = v] \in [Field -> Value \cup {Null}] BY DEF Region
  <2> QED BY <2>1, <2>2 DEF Region
<1>2. CASE \E b \in BOOLEAN : e = [d EXCEPT !.managementAvailable = b]
  BY <1>2 DEF Region
<1>3. CASE \E s \in ShapeId : e = [d EXCEPT !.allowedShapes = Append(@, s)]
  <2>1. \A s \in ShapeId : Append(d.allowedShapes, s) \in Seq(ShapeId) BY DEF Region
  <2> QED BY <1>3, <2>1 DEF Region
<1>4. CASE \E meta \in Meta : e = [d EXCEPT !.adminProjectMeta = meta]
  BY <1>4 DEF Region
<1>5. CASE \E m \in Mapping :
             /\ d.adminProjectMeta # Null
             /\ e = [d EXCEPT !.adminProjectMeta.imagesMapping = @ \cup {m}]
  <2>1. \A m \in Mapping : d.adminProjectMeta # Null =>
           [d.adminProjectMeta EXCEPT !.imagesMapping = @ \cup {m}] \in Meta
    BY DEF Region, Meta
  <2> QED BY <1>5, <2>1 DEF Region
<1> QED BY <1>1, <1>2, <1>3, <1>4, <1>5 DEF EditOf

LEMMA NewRegionTyped == \A a \in Alias : NewRegion(a) \in Region /\ NewRegion(a) # Null
<1>1. \A a \in Alias : NewRegion(a) \in Region BY DEF NewRegion, Region
<1> QED BY <1>1, NullIsNoDocument

\* An operation of a thread that has answered: it refuses a command or has
\* looked up what the command is about.
Begins(t) ==
    /\ pc[t] \in Replies /\ UNCHANGED store
    /\ \/ \E r \in Replies : Return(t, r)
       \/ \E a \in Alias : Registered(a) = {} /\ Goto(t, "insert", Null, NewRegion(a), Null)
       \/ \E id \in RegionId, doc \in Region :
             /\ regions[id] # Null /\ EditOf(regions[id], doc)
             /\ Goto(t, "save", id, doc, Null)
       \/ \E id \in RegionId, n \in NativeId :
             regions[id] # Null /\ Goto(t, "find_image", id, Null, n)

LEMMA Kinds ==
    ASSUME TypeOK, NEW t \in Thread, Operation(t)
    PROVE  \/ Begins(t) \/ InsertRegion(t) \/ RefindRegion(t) \/ AddCounter(t)
           \/ SaveRegion(t) \/ FindImage(t) \/ SaveImage(t) \/ DatabaseFails(t)
<1>r. {"ok", "error"} \subseteq Replies BY DEF Replies
<1>s. ASSUME NEW c, NEW id \in RegionId, NEW doc,
             Loads(t, c, id), EditOf(regions[id], doc), SaveLater(t, id, doc)
      PROVE  Begins(t)
  <2>1. regions[id] # Null /\ regions[id] \in Region BY <1>s DEF Loads, TypeOK
  <2>2. doc \in Region BY <1>s, <2>1, EditTyped
  <2> QED BY <1>s, <2>1, <2>2 DEF Begins, SaveLater, Loads, Free
<1>a. ASSUME NEW r \in Replies, pc[t] \in Replies, AnswerNow(t, r) PROVE Begins(t)
  BY <1>a DEF Begins, AnswerNow
<1>1. CASE Reject(t) BY <1>1, <1>r DEF Reject, Begins
<1>2. CASE CreateRegion(t) BY <1>2, <1>r DEF CreateRegion, Free, Begins
<1>3. CASE SetField(t) BY <1>3, <1>s DEF SetField, Edits, EditOf
<1>4. ASSUME NEW id \in RegionId, NEW s \in ShapeId, CreateShape(t, id, s) PROVE Begins(t)
  <2>1. CASE HasShape(regions[id], s)
    BY <1>4, <2>1, <1>a, <1>r DEF CreateShape, Edits, Loads, Free
  <2>2. CASE ~HasShape(regions[id], s)
    <3>1. EditOf(regions[id], [regions[id] EXCEPT !.allowedShapes = Append(@, s)])
      BY <2>2 DEF EditOf
    <3> QED BY <1>4, <2>2, <3>1, <1>s DEF CreateShape, Edits
  <2> QED BY <2>1, <2>2
<1>5. CASE CreateAdminProjectMeta(t) BY <1>5, <1>s DEF CreateAdminProjectMeta, Edits, EditOf
<1>6. CASE AddProjectMetaImage(t)
  <2>1. PICK id \in RegionId, m \in Mapping :
          /\ Loads(t, "add_project_meta_image", id)
          /\ IF regions[id].adminProjectMeta = Null THEN AnswerNow(t, "error")
             ELSE SaveLater(t, id, [regions[id] EXCEPT !.adminProjectMeta.imagesMapping = @ \cup {m}])
    BY <1>6 DEF AddProjectMetaImage, Edits
  <2>2. CASE regions[id].adminProjectMeta = Null
    BY <2>1, <2>2, <1>a, <1>r DEF Loads, Free
  <2>3. CASE regions[id].adminProjectMeta # Null
    <3>1. EditOf(regions[id], [regions[id] EXCEPT !.adminProjectMeta.imagesMapping = @ \cup {m}])
      BY <2>3 DEF EditOf
    <3> QED BY <2>1, <2>3, <3>1, <1>s
  <2> QED BY <2>2, <2>3
<1>7. CASE SetRegionManagement(t)
  <2>1. PICK id \in RegionId, b \in BOOLEAN :
          /\ Loads(t, "set_region_management", id)
          /\ \/ AnswerNow(t, "ok")
             \/ SaveLater(t, id, [regions[id] EXCEPT !.managementAvailable = b])
    BY <1>7 DEF SetRegionManagement, Edits
  <2>2. EditOf(regions[id], [regions[id] EXCEPT !.managementAvailable = b])
    BY DEF EditOf
  <2> QED BY <2>1, <2>2, <1>a, <1>s, <1>r DEF Loads, Free
<1>8. ASSUME NEW id \in RegionId, NEW n \in NativeId, CreateImage(t, id, n) PROVE Begins(t)
  BY <1>8 DEF CreateImage, Loads, Free, Begins
<1> QED BY <1>1, <1>2, <1>3, <1>4, <1>5, <1>6, <1>7, <1>8 DEF Operation

\* The other threads hold what they held.
OthersStay(t) ==
    \A u \in Thread \ {t} : /\ pc'[u] = pc[u] /\ rid'[u] = rid[u]
                            /\ copy'[u] = copy[u] /\ native'[u] = native[u]

LEMMA GotoIs ==
    ASSUME TypeOK, NEW t \in Thread, NEW p, NEW id, NEW doc, NEW n, Goto(t, p, id, doc, n)
    PROVE  /\ pc'[t] = p /\ rid'[t] = id /\ copy'[t] = doc /\ native'[t] = n
           /\ OthersStay(t)
BY DEF Goto, TypeOK, OthersStay

LEMMA EveryOperationGoes ==
    ASSUME TypeOK, NEW t \in Thread, Operation(t)
    PROVE  \E p \in Replies \cup Steps, id \in RegionId \cup {Null},
              doc \in Region \cup {Null}, n \in NativeId \cup {Null} :
              /\ Goto(t, p, id, doc, n)
              /\ p \in {"insert", "refind", "save"} => doc \in Region
              /\ p \in {"count", "save", "find_image", "save_image"} => id \in RegionId
              /\ p \in {"find_image", "save_image"} => n \in NativeId
<1> DEFINE Goes == \E p \in Replies \cup Steps, id \in RegionId \cup {Null},
                      doc \in Region \cup {Null}, n \in NativeId \cup {Null} :
              /\ Goto(t, p, id, doc, n)
              /\ p \in {"insert", "refind", "save"} => doc \in Region
              /\ p \in {"count", "save", "find_image", "save_image"} => id \in RegionId
              /\ p \in {"find_image", "save_image"} => n \in NativeId
<1>r. ASSUME NEW r \in Replies, Return(t, r) PROVE Goes BY <1>r DEF Return, Replies
<1>o. {"ok", "error"} \subseteq Replies BY DEF Replies
<1>p. Steps = {"insert", "refind", "count", "save", "find_image", "save_image"} BY DEF Steps
<1>1. CASE Begins(t)
  <2>1. CASE \E r \in Replies : Return(t, r) BY <2>1, <1>r
  <2>2. CASE \E a \in Alias : Goto(t, "insert", Null, NewRegion(a), Null)
    BY <2>2, <1>p, NewRegionTyped
  <2>3. CASE \E id \in RegionId, doc \in Region : Goto(t, "save", id, doc, Null)
    BY <2>3, <1>p
  <2>4. CASE \E id \in RegionId, n \in NativeId : Goto(t, "find_image", id, Null, n)
    BY <2>4, <1>p
  <2> QED BY <1>1, <2>1, <2>2, <2>3, <2>4 DEF Begins
<1>2. CASE InsertRegion(t)
  <2>1. copy[t] \in Region BY <1>2 DEF InsertRegion, TypeOK, HoldsEnough
  <2> QED BY <1>2, <2>1, <1>p DEF InsertRegion
<1>3. CASE RefindRegion(t)
  <2>1. Registered(copy[t].regionAlias) \subseteq RegionId BY DEF Registered
  <2> QED BY <1>3, <2>1, <1>p DEF RefindRegion
<1>4. CASE FindImage(t)
  <2>1. rid[t] \in RegionId /\ native[t] \in NativeId
    BY <1>4 DEF FindImage, TypeOK, HoldsEnough
  <2>2. Return(t, "error") \/ Goto(t, "save_image", rid[t], Null, native[t])
    BY <1>4 DEF FindImage
  <2>3. CASE Return(t, "error") BY <2>3, <1>r, <1>o
  <2>4. CASE Goto(t, "save_image", rid[t], Null, native[t]) BY <2>1, <2>4, <1>p
  <2> QED BY <2>2, <2>3, <2>4
<1>5. CASE AddCounter(t) \/ SaveRegion(t) \/ SaveImage(t) \/ DatabaseFails(t)
  BY <1>5, <1>r, <1>o DEF AddCounter, SaveRegion, SaveImage, DatabaseFails
<1> QED BY <1>1, <1>2, <1>3, <1>4, <1>5, Kinds

DocumentsTyped ==
    /\ regions \in [RegionId -> Region \cup {Null}]
    /\ counters \subseteq RegionId
    /\ images \in [ImageId -> Image \cup {Null}]
    /\ cutShort \subseteq RegionId

LEMMA DocumentsStayTyped ==
    ASSUME TypeOK, NEW t \in Thread, Operation(t)
    PROVE  DocumentsTyped'
<1>1. CASE InsertRegion(t)
  BY <1>1 DEF InsertRegion, TypeOK, HoldsEnough, DocumentsTyped
<1>2. CASE AddCounter(t)
  BY <1>2 DEF AddCounter, TypeOK, HoldsEnough, DocumentsTyped
<1>3. CASE SaveRegion(t)
  BY <1>3 DEF SaveRegion, TypeOK, HoldsEnough, DocumentsTyped
<1>4. CASE SaveImage(t)
  BY <1>4 DEF SaveImage, TypeOK, HoldsEnough, DocumentsTyped, Image
<1>5. CASE DatabaseFails(t)
  <2>1. CutShort({t}) \subseteq RegionId BY DEF CutShort
  <2> QED BY <1>5, <2>1 DEF DatabaseFails, TypeOK, DocumentsTyped
<1>6. CASE UNCHANGED store
  BY <1>6 DEF store, TypeOK, DocumentsTyped
<1> QED BY <1>1, <1>2, <1>3, <1>4, <1>5, <1>6, Kinds DEF Begins, RefindRegion, FindImage

\* The overtaken threads are about to write.
LEMMA OvertakenWrite ==
    ASSUME TypeOK, NEW t \in Thread, Note(t), OthersStay(t)
    PROVE  overtaken' \subseteq {u \in Thread : Writing(u)'}
<1>1. \A u \in overtaken' : u \in Thread /\ u # t /\ Writing(u)
  BY DEF Note, Rivals, TypeOK
<1> QED BY <1>1 DEF OthersStay, Writing

LEMMA TypeInductive == TypeOK /\ [Next]_vars => TypeOK'
<1> SUFFICES ASSUME TypeOK, [Next]_vars PROVE TypeOK' OBVIOUS
<1>1. ASSUME NEW t \in Thread, Operation(t), Note(t) PROVE TypeOK'
  <2>1. PICK p \in Replies \cup Steps, id \in RegionId \cup {Null},
             doc \in Region \cup {Null}, n \in NativeId \cup {Null} :
              /\ Goto(t, p, id, doc, n)
              /\ p \in {"insert", "refind", "save"} => doc \in Region
              /\ p \in {"count", "save", "find_image", "save_image"} => id \in RegionId
              /\ p \in {"find_image", "save_image"} => n \in NativeId
    BY <1>1, EveryOperationGoes
  <2>2. /\ pc'[t] = p /\ rid'[t] = id /\ copy'[t] = doc /\ native'[t] = n
        /\ OthersStay(t)
    BY <2>1, GotoIs
  <2>3. \A u \in Thread : HoldsEnough(u)'
    <3>1. HoldsEnough(t)' BY <2>1, <2>2 DEF HoldsEnough
    <3>2. \A u \in Thread \ {t} : HoldsEnough(u)'
      BY <2>2 DEF HoldsEnough, OthersStay, TypeOK
    <3> QED BY <3>1, <3>2
  <2>4. /\ pc' \in [Thread -> Replies \cup Steps]
        /\ rid' \in [Thread -> RegionId \cup {Null}]
        /\ copy' \in [Thread -> Region \cup {Null}]
        /\ native' \in [Thread -> NativeId \cup {Null}]
    BY <2>1 DEF Goto, TypeOK
  <2>5. DocumentsTyped' BY <1>1, DocumentsStayTyped
  <2>6. overtaken' \subseteq {u \in Thread : Writing(u)'} BY <1>1, <2>2, OvertakenWrite
  <2> QED BY <2>3, <2>4, <2>5, <2>6 DEF TypeOK, DocumentsTyped
<1>2. CASE Restart
  <2>1. CutShort(Thread) \subseteq RegionId BY DEF CutShort
  <2>2. \A u \in Thread : HoldsEnough(u)' BY <1>2 DEF Restart, HoldsEnough
  <2> QED BY <1>2, <2>1, <2>2 DEF Restart, TypeOK, Replies, Writing
<1>3. CASE UNCHANGED vars
  BY <1>3 DEF vars, store, history, TypeOK, HoldsEnough, Writing
<1> QED BY <1>1, <1>2, <1>3 DEF Next

\* Stored documents and the threads' copies have the declared shapes, and a
\* thread in the middle of a command holds what the rest of it reads.
THEOREM TypeCorrect == Spec => []TypeOK
<1>1. Init => TypeOK
  BY DEF Init, TypeOK, HoldsEnough, Replies
<1> QED BY <1>1, TypeInductive, PTL DEF Spec

-----------------------------------------------------------------------------
(* No region lists a flavor twice *)

LEMMA AppendDistinct ==
    ASSUME NEW doc \in Region, Distinct(doc), NEW s \in ShapeId, ~HasShape(doc, s)
    PROVE  Distinct([doc EXCEPT !.allowedShapes = Append(@, s)])
<1> DEFINE q == doc.allowedShapes
           new == [doc EXCEPT !.allowedShapes = Append(@, s)]
<1>1. q \in Seq(ShapeId) /\ new.allowedShapes = Append(q, s)
  BY DEF Region
<1>2. \A i \in 1..Len(q) : q[i] # s
  BY <1>1 DEF HasShape
<1>3. \A i, j \in 1..Len(q) : q[i] = q[j] => i = j
  BY <1>1 DEF Distinct
<1>4. /\ DOMAIN Append(q, s) = 1..(Len(q) + 1)
      /\ \A i \in 1..Len(q) : Append(q, s)[i] = q[i]
      /\ Append(q, s)[Len(q) + 1] = s
      /\ Len(q) \in Nat
  BY <1>1
<1>5. \A i, j \in 1..(Len(q) + 1) : Append(q, s)[i] = Append(q, s)[j] => i = j
  <2> HIDE DEF q
  <2>1. SUFFICES ASSUME NEW i \in 1..(Len(q) + 1), NEW j \in 1..(Len(q) + 1),
                        Append(q, s)[i] = Append(q, s)[j]
                 PROVE  i = j
    OBVIOUS
  <2>2. CASE i \in 1..Len(q) /\ j \in 1..Len(q)
    BY <2>1, <2>2, <1>3, <1>4
  <2>3. CASE i = Len(q) + 1 \/ j = Len(q) + 1
    BY <2>1, <2>3, <1>2, <1>4
  <2>4. QED BY <2>2, <2>3, <1>4
<1>6. QED BY <1>1, <1>4, <1>5 DEF Distinct

LEMMA NewRegionDistinct == \A a : Distinct(NewRegion(a))
BY DEF Distinct, NewRegion

LEMMA EditDistinct ==
    ASSUME NEW d \in Region, NEW e, EditOf(d, e), Distinct(d) PROVE Distinct(e)
<1>1. CASE \E s \in ShapeId : /\ ~HasShape(d, s)
                              /\ e = [d EXCEPT !.allowedShapes = Append(@, s)]
  BY <1>1, AppendDistinct
<1>2. CASE e.allowedShapes = d.allowedShapes
  BY <1>2 DEF Distinct
<1>3. \/ e.allowedShapes = d.allowedShapes
      \/ \E s \in ShapeId : /\ ~HasShape(d, s)
                            /\ e = [d EXCEPT !.allowedShapes = Append(@, s)]
  BY DEF EditOf, Region
<1> QED BY <1>1, <1>2, <1>3

LEMMA ShapesInductive == TypeOK /\ ShapeInv /\ [Next]_vars => ShapeInv'
<1> SUFFICES ASSUME TypeOK, ShapeInv, [Next]_vars PROVE ShapeInv' OBVIOUS
<1>1. ASSUME NEW t \in Thread, Operation(t)
      PROVE  ShapeInv'
  <2>g. ASSUME NEW p, NEW id, NEW doc, NEW n, Goto(t, p, id, doc, n),
               doc # Null => Distinct(doc), ShapesDistinct'
        PROVE  ShapeInv'
    <3>1. \A u \in Thread : copy'[u] # Null => Distinct(copy'[u])
      BY <2>g, GotoIs DEF OthersStay, ShapeInv
    <3>2. \A u \in Thread : (copy[u] # Null => Distinct(copy[u]))'
      BY <3>1 DEF Distinct
    <3> QED BY <2>g, <3>2 DEF ShapeInv
  <2>n. ASSUME regions' = regions PROVE ShapesDistinct'
    BY <2>n DEF ShapeInv, ShapesDistinct, Distinct
  <2>w. ASSUME NEW id \in RegionId, regions' = [regions EXCEPT ![id] = copy[t]],
               copy[t] \in Region
        PROVE  ShapesDistinct'
    <3>1. Distinct(copy[t]) BY <2>w, NullIsNoDocument DEF ShapeInv
    <3>2. \A i \in RegionId : regions'[i] = copy[t] \/ regions'[i] = regions[i]
      BY <2>w DEF TypeOK
    <3>3. \A i \in RegionId : regions'[i] # Null => Distinct(regions'[i])
      BY <3>1, <3>2 DEF ShapeInv, ShapesDistinct
    <3> QED BY <3>3 DEF ShapesDistinct, Distinct
  <2>1. CASE Begins(t)
    <3>1. ShapesDistinct' BY <2>1, <2>n DEF Begins, store
    <3>2. CASE \E r \in Replies : Return(t, r) BY <2>g, <3>1, <3>2 DEF Return
    <3>3. CASE \E a \in Alias : Goto(t, "insert", Null, NewRegion(a), Null)
      BY <2>g, <3>1, <3>3, NewRegionDistinct
    <3>4. CASE \E id \in RegionId, doc \in Region :
             /\ regions[id] # Null /\ EditOf(regions[id], doc)
             /\ Goto(t, "save", id, doc, Null)
      <4>1. \A id \in RegionId : regions[id] # Null => regions[id] \in Region /\ Distinct(regions[id])
        BY DEF TypeOK, ShapeInv, ShapesDistinct
      <4> QED BY <2>g, <3>1, <3>4, <4>1, EditDistinct
    <3>5. CASE \E id \in RegionId, n \in NativeId : Goto(t, "find_image", id, Null, n)
      BY <2>g, <3>1, <3>5
    <3> QED BY <2>1, <3>2, <3>3, <3>4, <3>5 DEF Begins
  <2>2. CASE InsertRegion(t)
    <3>1. copy[t] \in Region BY <2>2 DEF InsertRegion, TypeOK, HoldsEnough
    <3>2. ShapesDistinct' BY <2>2, <2>w, <3>1 DEF InsertRegion
    <3>3. copy[t] # Null => Distinct(copy[t]) BY DEF ShapeInv
    <3> QED BY <2>2, <2>g, <3>2, <3>3 DEF InsertRegion
  <2>3. CASE SaveRegion(t)
    <3>1. copy[t] \in Region /\ rid[t] \in RegionId
      BY <2>3 DEF SaveRegion, TypeOK, HoldsEnough
    <3>2. ShapesDistinct' BY <2>3, <2>w, <3>1 DEF SaveRegion
    <3> QED BY <2>3, <2>g, <3>2 DEF SaveRegion, Return
  <2>4. CASE RefindRegion(t) \/ FindImage(t)
    <3>1. ShapesDistinct' BY <2>4, <2>n DEF RefindRegion, FindImage, store
    <3> QED BY <2>4, <3>1, <2>g DEF RefindRegion, FindImage, Return
  <2>5. CASE AddCounter(t) \/ SaveImage(t) \/ DatabaseFails(t)
    <3>1. ShapesDistinct' BY <2>5, <2>n DEF AddCounter, SaveImage, DatabaseFails
    <3> QED BY <2>5, <3>1, <2>g DEF AddCounter, SaveImage, DatabaseFails, Return
  <2> QED BY <1>1, <2>1, <2>2, <2>3, <2>4, <2>5, Kinds
<1>2. CASE Restart
  BY <1>2 DEF Restart, ShapeInv, ShapesDistinct, Distinct
<1>3. CASE UNCHANGED vars
  BY <1>3 DEF vars, store, ShapeInv, ShapesDistinct, Distinct
<1> QED BY <1>1, <1>2, <1>3 DEF Next

\* However many requests interleave, no stored region lists a shape twice.
THEOREM ShapesAreDistinct == Spec => []ShapesDistinct
<1>1. Init => ShapeInv
  BY DEF Init, ShapeInv, ShapesDistinct
<1>2. ShapeInv => ShapesDistinct
  BY DEF ShapeInv
<1> QED BY <1>1, <1>2, ShapesInductive, TypeCorrect, PTL DEF Spec

-----------------------------------------------------------------------------
(* What a thread is about to write still fits what is stored, or it was     *)
(* overtaken: the alias it inserts is free, the document it saves is one    *)
(* edit away from the stored one.                                           *)

InsertsFree(t) ==
    pc[t] = "insert" =>
        \E a \in Alias : copy[t] = NewRegion(a) /\ (t \in overtaken \/ Registered(a) = {})

RefindsSome(t) == pc[t] = "refind" => Registered(copy[t].regionAlias) # {}

CountsStored(t) == pc[t] = "count" => regions[rid[t]] # Null

SavesEdit(t) ==
    pc[t] = "save" =>
        /\ regions[rid[t]] # Null
        /\ copy[t].regionAlias = regions[rid[t]].regionAlias
        /\ t \in overtaken \/ EditOf(regions[rid[t]], copy[t])

Claims(t) == InsertsFree(t) /\ RefindsSome(t) /\ CountsStored(t) /\ SavesEdit(t)

ClaimsHold == \A t \in Thread : Claims(t)

\* An edit keeps the alias and every shape.
LEMMA EditKeeps ==
    ASSUME NEW d \in Region, NEW e, EditOf(d, e)
    PROVE  /\ e \in Region /\ e.regionAlias = d.regionAlias
           /\ ListedShapes(d) \subseteq ListedShapes(e)
<1>1. e \in Region
  BY EditTyped
<1>2. e.regionAlias = d.regionAlias
  BY DEF EditOf, Region
<1>3. CASE \E s \in ShapeId : e = [d EXCEPT !.allowedShapes = Append(@, s)]
  <2>1. PICK s \in ShapeId : e.allowedShapes = Append(d.allowedShapes, s)
    BY <1>3 DEF Region
  <2>2. d.allowedShapes \in Seq(ShapeId)
    BY DEF Region
  <2> DEFINE q == d.allowedShapes
  <2>3. /\ DOMAIN q = 1..Len(q) /\ Len(q) \in Nat
        /\ DOMAIN Append(q, s) = 1..(Len(q) + 1)
        /\ \A i \in 1..Len(q) : Append(q, s)[i] = q[i]
    BY <2>2
  <2> HIDE DEF q
  <2>4. \A i \in DOMAIN q : i \in DOMAIN Append(q, s) /\ Append(q, s)[i] = q[i]
    BY <2>3
  <2> QED BY <1>1, <1>2, <2>1, <2>4 DEF ListedShapes, q
<1>4. CASE e.allowedShapes = d.allowedShapes
  BY <1>1, <1>2, <1>4 DEF ListedShapes
<1>5. \/ e.allowedShapes = d.allowedShapes
      \/ \E s \in ShapeId : e = [d EXCEPT !.allowedShapes = Append(@, s)]
  BY DEF EditOf, Region
<1> QED BY <1>1, <1>2, <1>3, <1>4, <1>5

\* The document a thread inserts, and where.
LEMMA Inserts ==
    ASSUME TypeOK, NEW t \in Thread, Claims(t), InsertRegion(t)
    PROVE  \E id \in RegionId, a \in Alias :
              /\ regions[id] = Null /\ copy[t] = NewRegion(a)
              /\ t \in overtaken \/ Registered(a) = {}
              /\ regions' = [regions EXCEPT ![id] = NewRegion(a)]
              /\ regions'[id] = NewRegion(a) /\ NewRegion(a) # Null
              /\ \A i \in RegionId \ {id} : regions'[i] = regions[i]
              /\ Target(t) = <<"insert", a>>
              /\ NewRegion(a).regionAlias = a
<1>1. PICK a \in Alias : copy[t] = NewRegion(a) /\ (t \in overtaken \/ Registered(a) = {})
  BY DEF InsertRegion, Claims, InsertsFree, RefindsSome, CountsStored, SavesEdit
<1>2. PICK id \in RegionId : regions[id] = Null /\ regions' = [regions EXCEPT ![id] = copy[t]]
  BY DEF InsertRegion
<1>3. NewRegion(a).regionAlias = a BY DEF NewRegion
<1>4. Target(t) = <<"insert", a>> BY <1>1, <1>3 DEF Target, InsertRegion
<1> QED BY <1>1, <1>2, <1>3, <1>4, NewRegionTyped DEF TypeOK

\* The document a thread saves, and where.
LEMMA Saves ==
    ASSUME TypeOK, NEW t \in Thread, Claims(t), SaveRegion(t)
    PROVE  /\ rid[t] \in RegionId /\ regions[rid[t]] # Null
           /\ copy[t] \in Region /\ copy[t] # Null
           /\ copy[t].regionAlias = regions[rid[t]].regionAlias
           /\ t \in overtaken \/ EditOf(regions[rid[t]], copy[t])
           /\ regions' = [regions EXCEPT ![rid[t]] = copy[t]]
           /\ regions'[rid[t]] = copy[t]
           /\ \A i \in RegionId \ {rid[t]} : regions'[i] = regions[i]
           /\ Target(t) = <<"save", rid[t]>>
BY NullIsNoDocument DEF SaveRegion, TypeOK, HoldsEnough, Claims, InsertsFree, RefindsSome, CountsStored, SavesEdit, Target

LEMMA RegionsChange ==
    ASSUME TypeOK, NEW t \in Thread, Operation(t)
    PROVE  regions' = regions \/ InsertRegion(t) \/ SaveRegion(t)
BY Kinds DEF Begins, RefindRegion, AddCounter, FindImage, SaveImage, DatabaseFails, store

\* No region disappears or changes its alias.
LEMMA RegionsStay ==
    ASSUME TypeOK, ClaimsHold, NEW t \in Thread, Operation(t), NEW id \in RegionId,
           regions[id] # Null
    PROVE  regions'[id] # Null /\ regions'[id].regionAlias = regions[id].regionAlias
<1>1. CASE regions' = regions BY <1>1
<1>2. CASE InsertRegion(t)
  <2>1. PICK i \in RegionId : regions[i] = Null /\ \A j \in RegionId \ {i} : regions'[j] = regions[j]
    BY <1>2, Inserts DEF ClaimsHold
  <2> QED BY <2>1
<1>3. CASE SaveRegion(t)
  <2>1. Claims(t) BY DEF ClaimsHold
  <2> QED BY <1>3, <2>1, Saves
<1> QED BY <1>1, <1>2, <1>3, RegionsChange

\* Only an insertion changes which regions have an alias.
LEMMA AliasesStay ==
    ASSUME TypeOK, ClaimsHold, NEW t \in Thread, Operation(t), ~InsertRegion(t)
    PROVE  \A id \in RegionId :
              /\ regions'[id] # Null <=> regions[id] # Null
              /\ regions[id] # Null => regions'[id].regionAlias = regions[id].regionAlias
<1>1. CASE regions' = regions BY <1>1
<1>2. CASE SaveRegion(t)
  <2>1. Claims(t) BY DEF ClaimsHold
  <2> QED BY <1>2, <2>1, Saves
<1> QED BY <1>1, <1>2, RegionsChange

LEMMA RegisteredStays ==
    ASSUME \A id \in RegionId :
              /\ regions'[id] # Null <=> regions[id] # Null
              /\ regions[id] # Null => regions'[id].regionAlias = regions[id].regionAlias
    PROVE  \A a : Registered(a)' = Registered(a)
BY DEF Registered

LEMMA RegisteredGrows ==
    ASSUME TypeOK, ClaimsHold, NEW t \in Thread, Operation(t)
    PROVE  \A a : Registered(a) \subseteq Registered(a)'
BY RegionsStay DEF Registered

\* What a step of t does to the history of the others.
LEMMA Noted ==
    ASSUME NEW t \in Thread, Note(t)
    PROVE  /\ spoiled \subseteq spoiled'
           /\ \A u \in Thread \ {t} :
                 /\ u \in overtaken => u \in overtaken'
                 /\ Writing(t) /\ pc'[t] # "error" /\ Writing(u) /\ Target(u) = Target(t)
                       => u \in overtaken'
           /\ Writing(t) /\ pc'[t] # "error" /\ t \in overtaken => Target(t) \in spoiled'
BY DEF Note, Rivals

LEMMA EditAfterwards ==
    ASSUME NEW t, NEW d, NEW e, EditOf(d, e), regions'[rid'[t]] = d, copy'[t] = e
    PROVE  EditOf(regions[rid[t]], copy[t])'
BY DEF EditOf, HasShape

LEMMA OthersClaims ==
    ASSUME TypeOK, ClaimsHold, NEW t \in Thread, Operation(t), Note(t),
           NEW u \in Thread \ {t}
    PROVE  Claims(u)'
<1>1. /\ OthersStay(t)
      /\ pc'[u] = pc[u] /\ rid'[u] = rid[u] /\ copy'[u] = copy[u] /\ native'[u] = native[u]
  BY EveryOperationGoes, GotoIs DEF OthersStay
<1>2. Claims(u) /\ Claims(t) /\ HoldsEnough(u) BY DEF ClaimsHold, TypeOK
<1>3. u \in overtaken => u \in overtaken' BY Noted
<1>4. ASSUME pc[u] = "insert"
      PROVE  \E a \in Alias : /\ copy[u] = NewRegion(a)
                              /\ u \in overtaken' \/ Registered(a)' = {}
  <2>1. PICK a \in Alias : copy[u] = NewRegion(a) /\ (u \in overtaken \/ Registered(a) = {})
    BY <1>2, <1>4 DEF Claims, InsertsFree, RefindsSome, CountsStored, SavesEdit
  <2>2. CASE InsertRegion(t)
    <3>1. PICK id \in RegionId, b \in Alias :
              /\ regions'[id] = NewRegion(b) /\ NewRegion(b).regionAlias = b
              /\ \A i \in RegionId \ {id} : regions'[i] = regions[i]
              /\ Target(t) = <<"insert", b>>
      BY <1>2, <2>2, Inserts
    <3>2. CASE a = b
      <4>1. Writing(t) /\ pc'[t] # "error" BY <2>2, GotoIs DEF InsertRegion, Writing
      <4>2. NewRegion(a).regionAlias = a BY DEF NewRegion
      <4>3. Writing(u) /\ Target(u) = Target(t)
        BY <1>4, <2>1, <3>1, <3>2, <4>2 DEF Writing, Target
      <4>4. u \in overtaken' BY <4>1, <4>3, Noted
      <4> QED BY <2>1, <4>4
    <3>3. CASE a # b
      <4>1. Registered(a)' = Registered(a) \/ id \in Registered(a)
        BY <3>1, <3>3 DEF Registered
      <4>2. CASE Registered(a) = {} BY <2>1, <4>1, <4>2
      <4> QED BY <2>1, <1>3, <4>2
    <3> QED BY <3>2, <3>3
  <2>3. CASE ~InsertRegion(t)
    <3>1. Registered(a)' = Registered(a) BY <2>3, AliasesStay, RegisteredStays
    <3> QED BY <2>1, <1>3, <3>1
  <2> QED BY <2>2, <2>3
<1>5. ASSUME pc[u] = "refind" PROVE Registered(copy[u].regionAlias)' # {}
  <2>1. Registered(copy[u].regionAlias) # {} BY <1>2, <1>5 DEF Claims, InsertsFree, RefindsSome, CountsStored, SavesEdit
  <2>2. PICK a : a = copy[u].regionAlias OBVIOUS
  <2>3. Registered(a) \subseteq Registered(a)' BY RegisteredGrows
  <2>4. Registered(copy[u].regionAlias)' = Registered(a)' BY <1>1, <2>2 DEF Registered
  <2> QED BY <2>1, <2>2, <2>3, <2>4
<1>6. ASSUME pc[u] = "count" PROVE regions'[rid[u]] # Null
  <2>1. rid[u] \in RegionId /\ regions[rid[u]] # Null BY <1>2, <1>6 DEF Claims, InsertsFree, RefindsSome, CountsStored, SavesEdit, HoldsEnough
  <2> QED BY <2>1, RegionsStay
<1>7. ASSUME pc[u] = "save"
      PROVE  /\ regions'[rid[u]] # Null
             /\ copy[u].regionAlias = regions'[rid[u]].regionAlias
             /\ u \in overtaken' \/ EditOf(regions'[rid[u]], copy[u])
  <2>1. /\ rid[u] \in RegionId /\ regions[rid[u]] # Null
        /\ copy[u].regionAlias = regions[rid[u]].regionAlias
        /\ u \in overtaken \/ EditOf(regions[rid[u]], copy[u])
    BY <1>2, <1>7 DEF Claims, InsertsFree, RefindsSome, CountsStored, SavesEdit, HoldsEnough
  <2>2. regions'[rid[u]] = regions[rid[u]] \/ (SaveRegion(t) /\ rid[t] = rid[u])
    <3>1. CASE regions' = regions BY <3>1
    <3>2. CASE InsertRegion(t)
      <4>1. PICK i \in RegionId : regions[i] = Null /\ \A j \in RegionId \ {i} : regions'[j] = regions[j]
        BY <1>2, <3>2, Inserts
      <4> QED BY <2>1, <4>1
    <3>3. CASE SaveRegion(t) BY <1>2, <2>1, <3>3, Saves
    <3> QED BY <3>1, <3>2, <3>3, RegionsChange
  <2>3. CASE SaveRegion(t) /\ rid[t] = rid[u]
    <3>1. Writing(t) /\ pc'[t] # "error" BY <2>3, GotoIs DEF SaveRegion, Return, Writing
    <3>2. Writing(u) /\ Target(u) = Target(t)
      BY <1>7, <2>3 DEF Writing, Target, SaveRegion
    <3>3. u \in overtaken' BY <3>1, <3>2, Noted
    <3> QED BY <2>1, <3>3, RegionsStay
  <2> QED BY <1>3, <2>1, <2>2, <2>3
<1>8. EditOf(regions'[rid[u]], copy[u]) => EditOf(regions[rid[u]], copy[u])'
  <2>1. PICK d, e : d = regions'[rid[u]] /\ e = copy[u] OBVIOUS
  <2>2. EditOf(d, e) => EditOf(regions[rid[u]], copy[u])' BY <1>1, <2>1, EditAfterwards
  <2> QED BY <2>1, <2>2
<1>9. RefindsSome(u)' BY <1>1, <1>5 DEF RefindsSome
<1>10. InsertsFree(u)' BY <1>1, <1>4 DEF InsertsFree, NewRegion
<1>11. CountsStored(u)' BY <1>1, <1>6 DEF CountsStored
<1>12. SavesEdit(u)' BY <1>1, <1>7, <1>8 DEF SavesEdit
<1> QED BY <1>9, <1>10, <1>11, <1>12 DEF Claims

LEMMA OwnClaims ==
    ASSUME TypeOK, ClaimsHold, NEW t \in Thread, Operation(t)
    PROVE  Claims(t)'
<1>r. ASSUME NEW r \in Replies, Return(t, r) PROVE Claims(t)'
  <2>1. pc'[t] = r BY <1>r, GotoIs DEF Return
  <2> QED BY <2>1 DEF Claims, InsertsFree, RefindsSome, CountsStored, SavesEdit, Replies
<1>o. {"ok", "error"} \subseteq Replies BY DEF Replies
<1>1. CASE Begins(t)
  <2>1. regions' = regions BY <1>1 DEF Begins, store
  <2>2. CASE \E r \in Replies : Return(t, r) BY <2>2, <1>r
  <2>3. CASE \E a \in Alias : Registered(a) = {} /\ Goto(t, "insert", Null, NewRegion(a), Null)
    <3>1. PICK a \in Alias : Registered(a) = {} /\ Goto(t, "insert", Null, NewRegion(a), Null)
      BY <2>3
    <3>2. pc'[t] = "insert" /\ copy'[t] = NewRegion(a) BY <3>1, GotoIs
    <3>3. Registered(a)' = {} BY <2>1, <3>1 DEF Registered
    <3> QED BY <3>2, <3>3 DEF Claims, InsertsFree, RefindsSome, CountsStored, SavesEdit, NewRegion
  <2>4. CASE \E id \in RegionId, doc \in Region :
             /\ regions[id] # Null /\ EditOf(regions[id], doc)
             /\ Goto(t, "save", id, doc, Null)
    <3>1. PICK id \in RegionId, doc \in Region :
             /\ regions[id] # Null /\ EditOf(regions[id], doc)
             /\ Goto(t, "save", id, doc, Null)
      BY <2>4
    <3>2. pc'[t] = "save" /\ rid'[t] = id /\ copy'[t] = doc BY <3>1, GotoIs
    <3>3. doc.regionAlias = regions[id].regionAlias BY <3>1, EditKeeps DEF TypeOK
    <3>4. EditOf(regions[rid[t]], copy[t])'
        BY <2>1, <3>1, <3>2, EditAfterwards
    <3> QED BY <2>1, <3>1, <3>2, <3>3, <3>4 DEF Claims, InsertsFree, RefindsSome, CountsStored, SavesEdit
  <2>5. CASE \E id \in RegionId, n \in NativeId : Goto(t, "find_image", id, Null, n)
    <3>1. pc'[t] = "find_image" BY <2>5, GotoIs
    <3> QED BY <3>1 DEF Claims, InsertsFree, RefindsSome, CountsStored, SavesEdit
  <2> QED BY <1>1, <2>2, <2>3, <2>4, <2>5 DEF Begins
<1>2. CASE InsertRegion(t)
  <2>1. PICK id \in RegionId, a \in Alias :
           /\ copy[t] = NewRegion(a) /\ NewRegion(a).regionAlias = a
           /\ regions'[id] = NewRegion(a) /\ NewRegion(a) # Null
    BY <1>2, Inserts DEF ClaimsHold
  <2>2. pc'[t] = "refind" /\ copy'[t] = copy[t] BY <1>2, GotoIs DEF InsertRegion
  <2>3. id \in Registered(copy[t].regionAlias)' BY <2>1, <2>2 DEF Registered
  <2> QED BY <2>2, <2>3 DEF Claims, InsertsFree, RefindsSome, CountsStored, SavesEdit
<1>3. CASE RefindRegion(t)
  <2>1. PICK id \in Registered(copy[t].regionAlias) : Goto(t, "count", id, Null, Null)
    BY <1>3 DEF RefindRegion
  <2>2. pc'[t] = "count" /\ rid'[t] = id /\ regions' = regions
    BY <1>3, <2>1, GotoIs DEF RefindRegion, store
  <2> QED BY <2>1, <2>2 DEF Claims, InsertsFree, RefindsSome, CountsStored, SavesEdit, Registered
<1>4. CASE FindImage(t)
  <2>1. Return(t, "error") \/ Goto(t, "save_image", rid[t], Null, native[t])
    BY <1>4 DEF FindImage
  <2>2. CASE Goto(t, "save_image", rid[t], Null, native[t])
    <3>1. pc'[t] = "save_image" BY <2>2, GotoIs
    <3> QED BY <3>1 DEF Claims, InsertsFree, RefindsSome, CountsStored, SavesEdit
  <2> QED BY <2>1, <2>2, <1>r, <1>o
<1>5. CASE AddCounter(t) \/ SaveRegion(t) \/ SaveImage(t) \/ DatabaseFails(t)
  BY <1>5, <1>r, <1>o DEF AddCounter, SaveRegion, SaveImage, DatabaseFails
<1> QED BY <1>1, <1>2, <1>3, <1>4, <1>5, Kinds

LEMMA ClaimsInductive == TypeOK /\ ClaimsHold /\ [Next]_vars => ClaimsHold'
<1> SUFFICES ASSUME TypeOK, ClaimsHold, [Next]_vars PROVE ClaimsHold' OBVIOUS
<1>1. ASSUME NEW t \in Thread, Operation(t), Note(t) PROVE ClaimsHold'
  BY <1>1, OwnClaims, OthersClaims DEF ClaimsHold
<1>2. CASE Restart
  BY <1>2 DEF Restart, ClaimsHold, Claims, InsertsFree, RefindsSome, CountsStored, SavesEdit
<1>3. CASE UNCHANGED vars
  <2>1. \A a : Registered(a)' = Registered(a) BY <1>3 DEF vars, store, Registered
  <2>3. ASSUME NEW t \in Thread PROVE Claims(t)'
    <3>1. Claims(t) BY DEF ClaimsHold
    <3>2. PICK d, e : d = regions[rid[t]] /\ e = copy[t] OBVIOUS
    <3>3. regions'[rid'[t]] = d /\ copy'[t] = e BY <1>3, <3>2 DEF vars, store
    <3>4. EditOf(regions[rid[t]], copy[t]) => EditOf(regions[rid[t]], copy[t])'
      BY <3>2, <3>3, EditAfterwards
    <3>5. InsertsFree(t)'
      BY <1>3, <2>1, <3>1 DEF vars, history, Claims, InsertsFree, NewRegion
    <3>6. RefindsSome(t)' BY <1>3, <3>1 DEF vars, store, Claims, RefindsSome, Registered
    <3>7. CountsStored(t)' BY <1>3, <3>1 DEF vars, store, Claims, CountsStored
    <3>8. SavesEdit(t)' BY <1>3, <3>1, <3>4 DEF vars, store, history, Claims, SavesEdit
    <3> QED BY <3>5, <3>6, <3>7, <3>8 DEF Claims
  <2> QED BY <2>3 DEF ClaimsHold
<1> QED BY <1>1, <1>2, <1>3 DEF Next

LEMMA ClaimsInvariant == Spec => [](TypeOK /\ ClaimsHold)
<1>1. Init => ClaimsHold BY DEF Init, ClaimsHold, Claims, InsertsFree, RefindsSome, CountsStored, SavesEdit
<1> QED BY <1>1, ClaimsInductive, TypeCorrect, PTL DEF Spec

-----------------------------------------------------------------------------
(* Aliases and counters *)

\* Two regions share an alias only if an overtaken create_region wrote it.
AliasesClash ==
    \A i, j \in RegionId :
        /\ regions[i] # Null /\ regions[j] # Null
        /\ regions[i].regionAlias = regions[j].regionAlias
        /\ <<"insert", regions[i].regionAlias>> \notin spoiled
        => i = j

LEMMA AliasesInductive ==
    TypeOK /\ ClaimsHold /\ AliasesClash /\ [Next]_vars => AliasesClash'
<1> SUFFICES ASSUME TypeOK, ClaimsHold, AliasesClash, [Next]_vars PROVE AliasesClash' OBVIOUS
<1>1. ASSUME NEW t \in Thread, Operation(t), Note(t) PROVE AliasesClash'
  <2>1. spoiled \subseteq spoiled' BY <1>1, Noted
  <2>2. CASE InsertRegion(t)
    <3>1. PICK id \in RegionId, a \in Alias :
              /\ t \in overtaken \/ Registered(a) = {}
              /\ regions'[id] = NewRegion(a) /\ NewRegion(a).regionAlias = a
              /\ \A i \in RegionId \ {id} : regions'[i] = regions[i]
              /\ Target(t) = <<"insert", a>>
      BY <2>2, Inserts DEF ClaimsHold
    <3>2. Writing(t) /\ pc'[t] # "error" BY <2>2, GotoIs DEF InsertRegion, Writing
    <3>3. <<"insert", a>> \in spoiled' \/ \A i \in RegionId : regions[i] # Null => regions[i].regionAlias # a
      BY <1>1, <3>1, <3>2, Noted DEF Registered
    <3>4. SUFFICES ASSUME NEW i \in RegionId, NEW j \in RegionId,
                          regions'[i] # Null, regions'[j] # Null,
                          regions'[i].regionAlias = regions'[j].regionAlias,
                          <<"insert", regions'[i].regionAlias>> \notin spoiled'
                   PROVE  i = j
      BY DEF AliasesClash
    <3>5. CASE i # id /\ j # id
      <4>1. regions'[i] = regions[i] /\ regions'[j] = regions[j] BY <3>1, <3>5
      <4> QED BY <2>1, <3>4, <4>1 DEF AliasesClash
    <3>6. CASE i = id \/ j = id
      <4>1. regions'[i].regionAlias = a BY <3>1, <3>4, <3>6
      <4>2. \A k \in RegionId : regions[k] # Null => regions[k].regionAlias # a
        BY <3>3, <3>4, <4>1
      <4> QED BY <3>1, <3>4, <3>6, <4>1, <4>2
    <3> QED BY <3>5, <3>6
  <2>3. CASE ~InsertRegion(t)
    BY <1>1, <2>1, <2>3, AliasesStay DEF AliasesClash
  <2> QED BY <2>2, <2>3
<1>2. CASE UNCHANGED <<regions, spoiled>>
  BY <1>2 DEF AliasesClash
<1> QED BY <1>1, <1>2 DEF Next, Restart, vars, store, history

\* What RegionsHaveCounters rests on: a region is being registered by one thread
\* only, and only if its registration was not cut short.
CountedOnce(id) ==
    /\ id \in counters <=> id \notin cutShort \cup CutShort(Thread)
    /\ \A t \in Thread : Registering(t, id) =>
          id \notin cutShort /\ \A u \in Thread : Registering(u, id) => u = t

Clear(id) == regions[id] # Null /\ <<"insert", regions[id].regionAlias>> \notin spoiled

CountersInv ==
    /\ \A id \in counters \cup cutShort : regions[id] # Null
    /\ \A id \in RegionId : Clear(id) => CountedOnce(id)

\* A step after which the same threads register a region, which neither got its
\* counter nor was cut short.
LEMMA StillCounted ==
    ASSUME NEW id \in RegionId, CountedOnce(id),
           id \in counters' <=> id \in counters, id \in cutShort' <=> id \in cutShort,
           \A u \in Thread : Registering(u, id)' <=> Registering(u, id)
    PROVE  CountedOnce(id)'
<1>1. id \in CutShort(Thread)' <=> id \in CutShort(Thread) BY DEF CutShort
<1> QED BY <1>1 DEF CountedOnce

LEMMA InsertCounted ==
    ASSUME TypeOK, ClaimsHold, AliasesClash', CountersInv,
           NEW t \in Thread, Operation(t), Note(t), InsertRegion(t)
    PROVE  CountersInv'
<1>1. PICK id \in RegionId, a \in Alias :
           /\ regions[id] = Null /\ copy[t] = NewRegion(a)
           /\ regions'[id] = NewRegion(a) /\ NewRegion(a) # Null
           /\ \A i \in RegionId \ {id} : regions'[i] = regions[i]
           /\ NewRegion(a).regionAlias = a
  BY Inserts DEF ClaimsHold
<1>2. /\ pc[t] = "insert" /\ pc'[t] = "refind" /\ copy'[t] = copy[t] /\ OthersStay(t)
      /\ counters' = counters /\ cutShort' = cutShort
  BY GotoIs DEF InsertRegion
<1>3. spoiled \subseteq spoiled' BY Noted
<1>4. counters \subseteq RegionId /\ cutShort \subseteq RegionId BY DEF TypeOK
<1>5. \A i \in counters' \cup cutShort' : regions'[i] # Null
  BY <1>1, <1>2, <1>4 DEF CountersInv
<1>6. ASSUME NEW i \in RegionId, Clear(i)', i # id PROVE CountedOnce(i)'
  <2>1. regions'[i] = regions[i] /\ Clear(i) BY <1>1, <1>3, <1>6 DEF Clear
  <2>2. regions[i].regionAlias # a BY <1>1, <1>6, <2>1 DEF AliasesClash, Clear
  <2>3. ~Registering(t, i) /\ ~Registering(t, i)'
    BY <1>1, <1>2, <2>1, <2>2 DEF Registering, Registered
  <2>4. \A u \in Thread \ {t} : Registering(u, i)' <=> Registering(u, i)
    BY <1>2, <2>1 DEF Registering, Registered, OthersStay
  <2> QED BY <1>2, <2>1, <2>3, <2>4, StillCounted DEF CountersInv
<1>7. ASSUME Clear(id)' PROVE CountedOnce(id)'
  <2>1. id \notin counters /\ id \notin cutShort BY <1>1 DEF CountersInv
  <2>2. Registering(t, id)' BY <1>1, <1>2 DEF Registering, Registered
  <2>3. ASSUME NEW u \in Thread \ {t} PROVE ~Registering(u, id)'
    <3>1. /\ pc'[u] = pc[u] /\ rid'[u] = rid[u] /\ copy'[u] = copy[u] BY <1>2 DEF OthersStay
    <3>2. ~(pc[u] = "count" /\ rid[u] = id) BY <1>1 DEF ClaimsHold, Claims, CountsStored
    <3>3. CASE pc[u] = "refind" /\ copy[u].regionAlias = a
      <4>1. PICK j \in RegionId : regions[j] # Null /\ regions[j].regionAlias = a
        BY <3>3 DEF ClaimsHold, Claims, RefindsSome, Registered
      <4>2. j # id /\ regions'[j] = regions[j] BY <1>1, <4>1
      <4> QED BY <1>1, <1>7, <4>1, <4>2 DEF AliasesClash, Clear
    <3>4. CASE ~(pc[u] = "refind" /\ copy[u].regionAlias = a)
      BY <1>1, <3>1, <3>2, <3>4 DEF Registering, Registered
    <3> QED BY <3>3, <3>4
  <2>4. id \in CutShort(Thread)' BY <2>2 DEF CutShort
  <2> QED BY <1>2, <2>1, <2>2, <2>3, <2>4 DEF CountedOnce
<1> QED BY <1>5, <1>6, <1>7 DEF CountersInv

LEMMA RefindCounted ==
    ASSUME TypeOK, ClaimsHold, AliasesClash, CountersInv,
           NEW t \in Thread, Note(t), RefindRegion(t)
    PROVE  CountersInv'
<1>1. PICK id \in Registered(copy[t].regionAlias) : Goto(t, "count", id, Null, Null)
  BY DEF RefindRegion
<1>2. /\ pc[t] = "refind" /\ pc'[t] = "count" /\ rid'[t] = id /\ OthersStay(t)
      /\ regions' = regions /\ counters' = counters /\ cutShort' = cutShort
  BY <1>1, GotoIs DEF RefindRegion, store
<1>3. spoiled \subseteq spoiled' BY Noted
<1>4. ASSUME NEW i \in RegionId, Clear(i)' PROVE CountedOnce(i)'
  <2>1. Clear(i) BY <1>2, <1>3, <1>4 DEF Clear
  <2>2. Registering(t, i) <=> i = id
    BY <1>1, <1>2, <2>1 DEF Registering, Registered, AliasesClash, Clear
  <2>3. Registering(t, i)' <=> i = id BY <1>2 DEF Registering
  <2>4. \A u \in Thread \ {t} : Registering(u, i)' <=> Registering(u, i)
    BY <1>2 DEF Registering, Registered, OthersStay
  <2> QED BY <1>2, <2>1, <2>2, <2>3, <2>4, StillCounted DEF CountersInv
<1> QED BY <1>2, <1>4 DEF CountersInv

LEMMA CountCounted ==
    ASSUME TypeOK, ClaimsHold, AliasesClash, CountersInv,
           NEW t \in Thread, Note(t), AddCounter(t)
    PROVE  CountersInv'
<1>1. /\ pc[t] = "count" /\ pc'[t] = "ok" /\ OthersStay(t) /\ rid[t] \in RegionId
      /\ regions' = regions /\ counters' = counters \cup {rid[t]} /\ cutShort' = cutShort
  BY GotoIs DEF AddCounter, Return, TypeOK, HoldsEnough
<1>2. spoiled \subseteq spoiled' BY Noted
<1>3. \A i \in counters' \cup cutShort' : regions'[i] # Null
  BY <1>1 DEF CountersInv, ClaimsHold, Claims, CountsStored
<1>4. ASSUME NEW i \in RegionId, Clear(i)' PROVE CountedOnce(i)'
  <2>1. Clear(i) /\ CountedOnce(i) BY <1>1, <1>2, <1>4 DEF Clear, CountersInv
  <2>2. Registering(t, i) <=> i = rid[t] BY <1>1 DEF Registering
  <2>3. ~Registering(t, i)' BY <1>1 DEF Registering
  <2>4. \A u \in Thread \ {t} : Registering(u, i)' <=> Registering(u, i)
    BY <1>1 DEF Registering, Registered, OthersStay
  <2>5. CASE i = rid[t]
    <3>1. \A u \in Thread : ~Registering(u, i)' BY <2>1, <2>2, <2>3, <2>4, <2>5 DEF CountedOnce
    <3>2. i \notin CutShort(Thread)' BY <3>1 DEF CutShort
    <3> QED BY <1>1, <2>1, <2>2, <2>5, <3>1, <3>2 DEF CountedOnce
  <2>6. CASE i # rid[t]
    BY <1>1, <2>1, <2>2, <2>3, <2>4, <2>6, StillCounted
  <2> QED BY <2>5, <2>6
<1> QED BY <1>3, <1>4 DEF CountersInv

LEMMA FailCounted ==
    ASSUME TypeOK, ClaimsHold, AliasesClash, CountersInv,
           NEW t \in Thread, Note(t), DatabaseFails(t)
    PROVE  CountersInv'
<1>1. /\ pc'[t] = "error" /\ OthersStay(t)
      /\ regions' = regions /\ counters' = counters /\ cutShort' = cutShort \cup CutShort({t})
  BY GotoIs DEF DatabaseFails, Return
<1>2. spoiled \subseteq spoiled' BY Noted
<1>3. \A i \in RegionId : i \in CutShort({t}) <=> Registering(t, i) BY DEF CutShort
<1>4. \A i \in CutShort({t}) : i \in RegionId /\ regions[i] # Null
  BY DEF CutShort, Registering, Registered, ClaimsHold, Claims, CountsStored
<1>5. \A i \in counters' \cup cutShort' : regions'[i] # Null BY <1>1, <1>4 DEF CountersInv
<1>6. ASSUME NEW i \in RegionId, Clear(i)' PROVE CountedOnce(i)'
  <2>1. Clear(i) /\ CountedOnce(i) BY <1>1, <1>2, <1>6 DEF Clear, CountersInv
  <2>2. ~Registering(t, i)' BY <1>1 DEF Registering
  <2>3. \A u \in Thread \ {t} : Registering(u, i)' <=> Registering(u, i)
    BY <1>1 DEF Registering, Registered, OthersStay
  <2>4. CASE Registering(t, i)
    <3>1. \A u \in Thread : ~Registering(u, i)' BY <2>1, <2>2, <2>3, <2>4 DEF CountedOnce
    <3>2. i \notin counters BY <2>1, <2>4 DEF CountedOnce, CutShort
    <3> QED BY <1>1, <1>3, <2>4, <3>1, <3>2 DEF CountedOnce
  <2>5. CASE ~Registering(t, i)
    BY <1>1, <1>3, <2>1, <2>2, <2>3, <2>5, StillCounted
  <2> QED BY <2>4, <2>5
<1> QED BY <1>5, <1>6 DEF CountersInv

LEMMA OtherCounted ==
    ASSUME TypeOK, ClaimsHold, CountersInv, NEW t \in Thread, Operation(t), Note(t),
           Begins(t) \/ SaveRegion(t) \/ FindImage(t) \/ SaveImage(t)
    PROVE  CountersInv'
<1>1. pc[t] \notin {"refind", "count"} /\ ~InsertRegion(t)
  BY DEF Begins, SaveRegion, FindImage, SaveImage, InsertRegion, Replies
<1>2. counters' = counters /\ cutShort' = cutShort
  BY DEF Begins, SaveRegion, FindImage, SaveImage, store
<1>3. pc'[t] \notin {"refind", "count"}
  <2>1. CASE Begins(t)
    BY <2>1, GotoIs DEF Begins, Return, Replies
  <2>2. CASE SaveRegion(t) \/ FindImage(t) \/ SaveImage(t)
    BY <2>2, GotoIs DEF SaveRegion, FindImage, SaveImage, Return
  <2> QED BY <2>1, <2>2
<1>4. OthersStay(t) BY EveryOperationGoes, GotoIs
<1>5. spoiled \subseteq spoiled' BY Noted
<1>6. \A i \in RegionId :
         /\ regions'[i] # Null <=> regions[i] # Null
         /\ regions[i] # Null => regions'[i].regionAlias = regions[i].regionAlias
  BY <1>1, AliasesStay
<1>7. \A i \in counters' \cup cutShort' : regions'[i] # Null
  BY <1>2, <1>6 DEF CountersInv, TypeOK
<1>8. ASSUME NEW i \in RegionId, Clear(i)' PROVE CountedOnce(i)'
  <2>1. CountedOnce(i) BY <1>5, <1>6, <1>8 DEF Clear, CountersInv
  <2>2. ~Registering(t, i) /\ ~Registering(t, i)' BY <1>1, <1>3 DEF Registering
  <2>3. \A u \in Thread \ {t} : Registering(u, i)' <=> Registering(u, i)
    BY <1>4, <1>6 DEF Registering, Registered, OthersStay
  <2> QED BY <1>2, <2>1, <2>2, <2>3, StillCounted
<1> QED BY <1>7, <1>8 DEF CountersInv

LEMMA CountersInductive ==
    TypeOK /\ ClaimsHold /\ AliasesClash /\ AliasesClash' /\ CountersInv /\ [Next]_vars
        => CountersInv'
<1> SUFFICES ASSUME TypeOK, ClaimsHold, AliasesClash, AliasesClash', CountersInv, [Next]_vars
             PROVE  CountersInv'
  OBVIOUS
<1>1. ASSUME NEW t \in Thread, Operation(t), Note(t) PROVE CountersInv'
  BY <1>1, Kinds, InsertCounted, RefindCounted, CountCounted, FailCounted, OtherCounted
<1>2. CASE Restart
  <2>1. /\ regions' = regions /\ counters' = counters /\ spoiled' = spoiled
        /\ cutShort' = cutShort \cup CutShort(Thread)
        /\ \A u \in Thread : pc'[u] = "idle"
    BY <1>2 DEF Restart
  <2>2. CutShort(Thread)' = {} /\ \A u \in Thread, i \in RegionId : ~Registering(u, i)'
    BY <2>1 DEF CutShort, Registering
  <2>3. \A i \in CutShort(Thread) : regions[i] # Null
    BY DEF CutShort, Registering, Registered, ClaimsHold, Claims, CountsStored
  <2>4. ASSUME NEW i \in RegionId, Clear(i)' PROVE CountedOnce(i)'
    BY <2>1, <2>2, <2>4 DEF Clear, CountersInv, CountedOnce
  <2> QED BY <2>1, <2>3, <2>4 DEF CountersInv
<1>3. CASE UNCHANGED vars
  <2>1. \A u \in Thread, i \in RegionId : Registering(u, i)' <=> Registering(u, i)
    BY <1>3 DEF vars, store, Registering, Registered
  <2>2. \A i \in RegionId : Clear(i)' <=> Clear(i)
    BY <1>3 DEF vars, store, history, Clear
  <2> QED BY <1>3, <2>1, <2>2, StillCounted DEF vars, store, CountersInv
<1> QED BY <1>1, <1>2, <1>3 DEF Next

LEMMA CountersInvariant == Spec => [](AliasesClash /\ CountersInv)
<1>1. Init => AliasesClash /\ CountersInv
  BY DEF Init, AliasesClash, CountersInv, Clear
<1> QED
  BY <1>1, AliasesInductive, CountersInductive, ClaimsInvariant, PTL DEF Spec

\* Unless two create_region commands for its alias overlapped, a stored region
\* has its counter exactly if its registration is over and was not cut short.
THEOREM RegionsCounted == Spec => []RegionsHaveCounters
<1>1. CountersInv => RegionsHaveCounters
  BY DEF CountersInv, Clear, CountedOnce, RegionsHaveCounters
<1> QED BY <1>1, CountersInvariant, PTL

-----------------------------------------------------------------------------
(* The documents: what a step may do to them *)

\* The region documents stay, one is registered under an alias that is free, an
\* edit is saved, or an overtaken thread writes its copy.
DocumentsStep ==
    \/ regions' = regions
    \/ \E id \in RegionId, a \in Alias :
          /\ regions[id] = Null /\ Registered(a) = {}
          /\ regions' = [regions EXCEPT ![id] = NewRegion(a)]
    \/ \E id \in RegionId : \E e \in Region :
          /\ regions[id] # Null /\ EditOf(regions[id], e)
          /\ regions' = [regions EXCEPT ![id] = e]
    \/ \E t \in overtaken : \E id \in RegionId :
          /\ regions' = [regions EXCEPT ![id] = copy[t]] /\ copy[t] # Null
          /\ regions[id] = Null \/ (pc[t] = "save" /\ rid[t] = id)

LEMMA DocumentsMove == TypeOK /\ ClaimsHold /\ [Next]_vars => DocumentsStep
<1> SUFFICES ASSUME TypeOK, ClaimsHold, [Next]_vars PROVE DocumentsStep OBVIOUS
<1>1. ASSUME NEW t \in Thread, Operation(t) PROVE DocumentsStep
  <2>1. CASE InsertRegion(t)
    <3>1. PICK id \in RegionId, a \in Alias :
              /\ regions[id] = Null /\ copy[t] = NewRegion(a)
              /\ t \in overtaken \/ Registered(a) = {}
              /\ regions' = [regions EXCEPT ![id] = NewRegion(a)]
              /\ NewRegion(a) # Null
      BY <2>1, Inserts DEF ClaimsHold
    <3>2. CASE t \in overtaken BY <3>1, <3>2 DEF DocumentsStep
    <3>3. CASE Registered(a) = {} BY <3>1, <3>3 DEF DocumentsStep
    <3> QED BY <3>1, <3>2, <3>3
  <2>2. CASE SaveRegion(t)
    <3>1. /\ rid[t] \in RegionId /\ regions[rid[t]] # Null
          /\ copy[t] \in Region /\ copy[t] # Null /\ pc[t] = "save"
          /\ t \in overtaken \/ EditOf(regions[rid[t]], copy[t])
          /\ regions' = [regions EXCEPT ![rid[t]] = copy[t]]
      BY <2>2, Saves DEF ClaimsHold, SaveRegion
    <3>2. CASE t \in overtaken BY <3>1, <3>2 DEF DocumentsStep
    <3>3. CASE EditOf(regions[rid[t]], copy[t])
      <4>1. PICK id \in RegionId, e \in Region : id = rid[t] /\ e = copy[t] BY <3>1
      <4>2. EditOf(regions[id], e) BY <3>3, <4>1
      <4>3. regions' = [regions EXCEPT ![id] = e] /\ regions[id] # Null BY <3>1, <4>1
      <4> QED BY <4>2, <4>3 DEF DocumentsStep
    <3> QED BY <3>1, <3>2, <3>3
  <2> QED BY <1>1, <2>1, <2>2, RegionsChange DEF DocumentsStep
<1>2. CASE Restart \/ UNCHANGED vars
  BY <1>2 DEF Restart, vars, store, DocumentsStep
<1> QED BY <1>1, <1>2 DEF Next

\* No step takes a shape out of a region but the save of an overtaken thread.
THEOREM RegionsKeepTheirShapes == Spec => ShapesOnlyGrow
<1>1. TypeOK /\ ClaimsHold /\ [Next]_vars =>
        [\A id \in RegionId : regions[id] # Null =>
          /\ regions'[id] # Null
          /\ \/ ListedShapes(regions[id]) \subseteq ListedShapes(regions'[id])
             \/ \E t \in overtaken : /\ pc[t] = "save" /\ rid[t] = id
                                     /\ regions'[id] = copy[t]]_vars
  <2> SUFFICES ASSUME TypeOK, ClaimsHold, [Next]_vars,
                      NEW id \in RegionId, regions[id] # Null
               PROVE  /\ regions'[id] # Null
                      /\ \/ ListedShapes(regions[id]) \subseteq ListedShapes(regions'[id])
                         \/ \E t \in overtaken : /\ pc[t] = "save" /\ rid[t] = id
                                                 /\ regions'[id] = copy[t]
    OBVIOUS
  <2>1. CASE regions'[id] = regions[id] BY <2>1
  <2>2. ASSUME NEW i \in RegionId, NEW a \in Alias, regions[i] = Null,
               regions' = [regions EXCEPT ![i] = NewRegion(a)]
        PROVE  regions'[id] = regions[id]
    BY <2>2 DEF TypeOK
  <2>3. ASSUME NEW i \in RegionId, NEW e \in Region, regions[i] # Null,
               EditOf(regions[i], e), regions' = [regions EXCEPT ![i] = e],
               regions'[id] # regions[id]
        PROVE  /\ regions'[id] # Null
               /\ ListedShapes(regions[id]) \subseteq ListedShapes(regions'[id])
    <3>1. i = id /\ regions'[id] = e /\ regions[id] \in Region BY <2>3 DEF TypeOK
    <3>2. ListedShapes(regions[id]) \subseteq ListedShapes(e) BY <2>3, <3>1, EditKeeps
    <3> QED BY <3>1, <3>2, NullIsNoDocument
  <2>4. ASSUME NEW t \in overtaken, NEW i \in RegionId, regions'[id] # regions[id],
               regions' = [regions EXCEPT ![i] = copy[t]], copy[t] # Null,
               regions[i] = Null \/ (pc[t] = "save" /\ rid[t] = i)
        PROVE  regions'[id] # Null /\ pc[t] = "save" /\ rid[t] = id /\ regions'[id] = copy[t]
    BY <2>4 DEF TypeOK
  <2> QED BY <2>1, <2>2, <2>3, <2>4, DocumentsMove DEF DocumentsStep
<1> QED BY <1>1, ClaimsInvariant, PTL DEF Spec, ShapesOnlyGrow

\* An edit of the stored document is an edit of the registry.
LEMMA EditIsEdit ==
    ASSUME NEW id \in RegionId, regions[id] # Null, regions[id] \in Region,
           NEW e, EditOf(regions[id], e), regions' = [regions EXCEPT ![id] = e]
    PROVE  Registry!Edit(id)
<1>1. CASE \E f \in Field, v \in Value : e = [regions[id] EXCEPT !.settings[f] = v]
  BY <1>1 DEF Registry!Edit
<1>2. CASE \E b \in BOOLEAN : e = [regions[id] EXCEPT !.managementAvailable = b]
  BY <1>2 DEF Registry!Edit
<1>3. CASE \E s \in ShapeId : /\ ~HasShape(regions[id], s)
                              /\ e = [regions[id] EXCEPT !.allowedShapes = Append(@, s)]
  BY <1>3 DEF Registry!Edit, HasShape
<1>4. CASE \E meta \in Meta : e = [regions[id] EXCEPT !.adminProjectMeta = meta]
  <2>1. PICK meta \in Meta : e = [regions[id] EXCEPT !.adminProjectMeta = meta]
    BY <1>4
  <2>2. PICK ms \in SUBSET Mapping : meta = [imagesMapping |-> ms]
    BY DEF Meta
  <2>3. regions' = [regions EXCEPT ![id].adminProjectMeta = [imagesMapping |-> ms]]
    BY <2>1, <2>2
  <2> QED BY <2>3 DEF Registry!Edit
<1>5. CASE \E m \in Mapping :
             /\ regions[id].adminProjectMeta # Null
             /\ e = [regions[id] EXCEPT !.adminProjectMeta.imagesMapping = @ \cup {m}]
  BY <1>5 DEF Registry!Edit
<1> QED BY <1>1, <1>2, <1>3, <1>4, <1>5 DEF EditOf

LEMMA RegistryStep ==
    ASSUME TypeOK, ClaimsHold, [Next]_vars
    PROVE  \/ Registry!Next
           \/ \E t \in overtaken : \E id \in RegionId : regions' = [regions EXCEPT ![id] = copy[t]]
           \/ regions' = regions
<1>1. ASSUME NEW id \in RegionId, NEW a \in Alias, regions[id] = Null, Registered(a) = {},
             regions' = [regions EXCEPT ![id] = NewRegion(a)]
      PROVE  Registry!Next
  <2>1. NewRegion(a) = Registry!Blank(a) BY DEF NewRegion, Registry!Blank
  <2>2. \A i \in RegionId : regions[i] # Null => regions[i].regionAlias # a
    BY <1>1 DEF Registered
  <2>3. Registry!Register(id, a) BY <1>1, <2>1, <2>2 DEF Registry!Register
  <2> QED BY <2>3 DEF Registry!Next
<1>2. ASSUME NEW id \in RegionId, NEW e \in Region, regions[id] # Null,
             EditOf(regions[id], e), regions' = [regions EXCEPT ![id] = e]
      PROVE  Registry!Next
  <2>1. regions[id] \in Region BY <1>2 DEF TypeOK
  <2>2. Registry!Edit(id) BY <1>2, <2>1, EditIsEdit
  <2> QED BY <2>2 DEF Registry!Next
<1> QED BY <1>1, <1>2, DocumentsMove DEF DocumentsStep

\* The documents implement a registry in which every command takes effect at
\* once and undoes no other's change, but for the writes of overtaken threads.
THEOREM RegistryImplemented == Spec => ImplementsRegistry
<1>1. Init => Registry!Init
  BY DEF Init, Registry!Init
<1>2. TypeOK /\ ClaimsHold /\ [Next]_vars =>
        [\/ Registry!Next
         \/ \E t \in overtaken : \E id \in RegionId :
               regions' = [regions EXCEPT ![id] = copy[t]]]_regions
  BY RegistryStep
<1> QED BY <1>1, <1>2, ClaimsInvariant, PTL DEF Spec, ImplementsRegistry

-----------------------------------------------------------------------------
(* Images *)

ImagesInv ==
    /\ DoublesAreExplained
    /\ \A t \in Thread : pc[t] = "save_image" =>
          \/ t \in overtaken
          \/ Found(native[t]) = {}
          \/ \E k \in Found(native[t]) : images[k].regionId # rid[t]

Explained(j) ==
    \/ <<"save_image", images[j].nativeId>> \in spoiled
    \/ \E k \in Found(images[j].nativeId) : images[k].regionId # images[j].regionId

LEMMA ExplainedByOther ==
    ASSUME NEW j \in ImageId, NEW h \in ImageId, images'[h] # Null,
           images'[h].nativeId = images'[j].nativeId,
           images'[h].regionId # images'[j].regionId
    PROVE  Explained(j)'
BY DEF Explained, Found

\* A stored image stays what it is.
LEMMA ImagesStay ==
    ASSUME TypeOK, [Next]_vars, NEW i \in ImageId, images[i] # Null
    PROVE  images'[i] = images[i]
<1>1. images' = images \/ \E t \in Thread : SaveImage(t)
  BY Kinds DEF Next, Restart, vars, store, Begins, InsertRegion, RefindRegion, AddCounter,
     SaveRegion, FindImage, DatabaseFails
<1> QED BY <1>1 DEF SaveImage, TypeOK

LEMMA FoundGrows ==
    ASSUME TypeOK, [Next]_vars PROVE \A n : Found(n) \subseteq Found(n)'
BY ImagesStay DEF Found

\* A step that registers no image.
LEMMA ImagesKept ==
    ASSUME TypeOK, ImagesInv, NEW t \in Thread, Operation(t), Note(t), images' = images,
           pc'[t] = "save_image" =>
              Found(native'[t]) = {} \/ \E k \in Found(native'[t]) : images[k].regionId # rid'[t]
    PROVE  ImagesInv'
<1>1. OthersStay(t) BY EveryOperationGoes, GotoIs
<1>2. spoiled \subseteq spoiled' /\ \A u \in Thread \ {t} : u \in overtaken => u \in overtaken'
  BY Noted
<1>3. DoublesAreExplained' BY <1>2 DEF ImagesInv, DoublesAreExplained, Found
<1>4. ASSUME NEW u \in Thread, pc'[u] = "save_image"
      PROVE  \/ u \in overtaken'
             \/ Found(native[u])' = {}
             \/ \E k \in Found(native[u])' : images'[k].regionId # rid'[u]
  <2>1. CASE u = t BY <1>4, <2>1 DEF Found
  <2>2. CASE u # t BY <1>1, <1>2, <1>4, <2>2 DEF ImagesInv, OthersStay, Found
  <2> QED BY <2>1, <2>2
<1> QED BY <1>3, <1>4 DEF ImagesInv

LEMMA ImageSaved ==
    ASSUME TypeOK, ImagesInv, NEW t \in Thread, Operation(t), Note(t), SaveImage(t)
    PROVE  ImagesInv'
<1>1. PICK i \in ImageId :
          /\ images[i] = Null
          /\ images' = [images EXCEPT ![i] = [nativeId |-> native[t], regionId |-> rid[t]]]
  BY DEF SaveImage
<1>2. /\ pc[t] = "save_image" /\ pc'[t] = "ok" /\ OthersStay(t)
      /\ native[t] \in NativeId /\ rid[t] \in RegionId
  BY GotoIs DEF SaveImage, Return, TypeOK, HoldsEnough
<1>3. PICK n, r : n = native[t] /\ r = rid[t] OBVIOUS
<1>4. PICK img : img = [nativeId |-> n, regionId |-> r] OBVIOUS
<1>5. img.nativeId = n /\ img.regionId = r /\ img # Null
  <2>1. img \in Image BY <1>2, <1>3, <1>4 DEF Image
  <2> QED BY <1>4, <2>1, NullIsNoDocument
<1>6. images'[i] = img /\ \A j \in ImageId \ {i} : images'[j] = images[j]
  BY <1>1, <1>3, <1>4 DEF TypeOK
<1>7. spoiled \subseteq spoiled' BY Noted
<1>8. t \in overtaken => <<"save_image", n>> \in spoiled'
  <2>1. Writing(t) /\ Target(t) = <<"save_image", n>> BY <1>2, <1>3 DEF Writing, Target
  <2> QED BY <1>2, <2>1, Noted
<1>9. DoublesAreExplained'
  <2>1. SUFFICES ASSUME NEW j \in ImageId, NEW k \in ImageId,
                        images'[j] # Null, images'[j] = images'[k], j # k
                 PROVE  Explained(j)'
    BY DEF DoublesAreExplained, Explained
  <2>2. CASE j # i /\ k # i
    <3>1. images'[j] = images[j] /\ images'[k] = images[k] BY <1>6, <2>2
    <3>2. \/ <<"save_image", images[j].nativeId>> \in spoiled
          \/ \E h \in Found(images[j].nativeId) : images[h].regionId # images[j].regionId
      BY <2>1, <3>1 DEF ImagesInv, DoublesAreExplained
    <3>3. CASE \E h \in Found(images[j].nativeId) : images[h].regionId # images[j].regionId
      <4>1. PICK h \in Found(images[j].nativeId) : images[h].regionId # images[j].regionId
        BY <3>3
      <4>2. h \in ImageId /\ h # i BY <1>1, <4>1 DEF Found
      <4>3. images'[h] = images[h] BY <1>6, <4>2
      <4> QED BY <3>1, <4>1, <4>2, <4>3, ExplainedByOther DEF Found
    <3> QED BY <1>7, <3>1, <3>2, <3>3 DEF Explained
  <2>3. CASE j = i \/ k = i
    <3>1. images'[j] = img /\ images'[k] = img BY <1>6, <2>1, <2>3
    <3>2. \E h \in Found(n) : h \in ImageId \ {i} /\ images[h] = img
      BY <1>1, <1>5, <1>6, <2>1, <2>3, <3>1 DEF Found
    <3>3. \/ t \in overtaken
          \/ \E h \in Found(n) : images[h].regionId # r
      BY <1>2, <1>3, <3>2 DEF ImagesInv
    <3>4. CASE \E h \in Found(n) : images[h].regionId # r
      <4>1. PICK h \in Found(n) : images[h].regionId # r BY <3>4
      <4>2. h \in ImageId /\ h # i BY <1>1, <4>1 DEF Found
      <4>3. images'[h] = images[h] BY <1>6, <4>2
      <4> QED BY <1>5, <3>1, <4>1, <4>2, <4>3, ExplainedByOther DEF Found
    <3> QED BY <1>5, <1>8, <3>1, <3>3, <3>4 DEF Explained
  <2> QED BY <2>2, <2>3
<1>10. ASSUME NEW u \in Thread, pc'[u] = "save_image"
      PROVE  \/ u \in overtaken'
             \/ Found(native[u])' = {}
             \/ \E k \in Found(native[u])' : images'[k].regionId # rid'[u]
  <2>1. u # t BY <1>2, <1>10
  <2>2. pc[u] = "save_image" /\ native'[u] = native[u] /\ rid'[u] = rid[u]
    BY <1>2, <1>10, <2>1 DEF OthersStay
  <2>3. CASE native[u] = n
    <3>1. Writing(t) /\ pc'[t] # "error" /\ Writing(u) /\ Target(u) = Target(t)
      BY <1>2, <1>3, <2>2, <2>3 DEF Writing, Target
    <3> QED BY <2>1, <3>1, Noted
  <2>4. CASE native[u] # n
    <3>1. PICK m : m = native[u] OBVIOUS
    <3>2. Found(m)' = Found(m) BY <1>1, <1>5, <1>6, <2>4, <3>1 DEF Found
    <3>3. Found(native[u])' = Found(m) BY <2>2, <3>1, <3>2 DEF Found
    <3>4. \A k \in Found(m) : images'[k] = images[k] BY <1>1, <1>6 DEF Found
    <3>5. u \in overtaken \/ Found(m) = {} \/ \E k \in Found(m) : images[k].regionId # rid[u]
      BY <2>2, <3>1 DEF ImagesInv
    <3>6. u \in overtaken => u \in overtaken' BY <2>1, Noted
    <3> QED BY <2>2, <3>3, <3>4, <3>5, <3>6
  <2> QED BY <2>3, <2>4
<1> QED BY <1>9, <1>10 DEF ImagesInv

LEMMA ImagesInductive == TypeOK /\ ImagesInv /\ [Next]_vars => ImagesInv'
<1> SUFFICES ASSUME TypeOK, ImagesInv, [Next]_vars PROVE ImagesInv' OBVIOUS
<1>1. ASSUME NEW t \in Thread, Operation(t), Note(t) PROVE ImagesInv'
  <2>1. CASE FindImage(t)
    <3>1. images' = images BY <2>1 DEF FindImage, store
    <3>2. \/ Return(t, "error")
          \/ /\ Goto(t, "save_image", rid[t], Null, native[t])
             /\ Found(native[t]) = {} \/ \E k \in Found(native[t]) : images[k].regionId # rid[t]
      BY <2>1 DEF FindImage
    <3>3. CASE Return(t, "error")
      <4>1. pc'[t] = "error" BY <3>3, GotoIs DEF Return
      <4> QED BY <1>1, <3>1, <4>1, ImagesKept
    <3>4. CASE /\ Goto(t, "save_image", rid[t], Null, native[t])
               /\ Found(native[t]) = {} \/ \E k \in Found(native[t]) : images[k].regionId # rid[t]
      <4>1. pc'[t] = "save_image" /\ native'[t] = native[t] /\ rid'[t] = rid[t]
        BY <3>4, GotoIs
      <4>2. Found(native'[t]) = {} \/ \E k \in Found(native'[t]) : images[k].regionId # rid'[t]
        BY <3>4, <4>1
      <4> QED BY <1>1, <3>1, <4>2, ImagesKept
    <3> QED BY <3>2, <3>3, <3>4
  <2>2. CASE SaveImage(t) BY <1>1, <2>2, ImageSaved
  <2>3. CASE Begins(t)
    <3>1. images' = images BY <2>3 DEF Begins, store
    <3>2. pc'[t] # "save_image" BY <2>3, GotoIs DEF Begins, Return, Replies
    <3> QED BY <1>1, <3>1, <3>2, ImagesKept
  <2>4. CASE \/ InsertRegion(t) \/ RefindRegion(t) \/ AddCounter(t)
             \/ SaveRegion(t) \/ DatabaseFails(t)
    <3>1. images' = images
      BY <2>4 DEF InsertRegion, RefindRegion, AddCounter, SaveRegion, DatabaseFails, store
    <3>2. pc'[t] # "save_image"
      BY <2>4, GotoIs DEF InsertRegion, RefindRegion, AddCounter, SaveRegion, DatabaseFails, Return
    <3> QED BY <1>1, <3>1, <3>2, ImagesKept
  <2> QED BY <1>1, <2>1, <2>2, <2>3, <2>4, Kinds
<1>2. CASE Restart
  BY <1>2 DEF Restart, ImagesInv, DoublesAreExplained, Found
<1>3. CASE UNCHANGED vars
  BY <1>3 DEF vars, store, history, ImagesInv, DoublesAreExplained, Found
<1> QED BY <1>1, <1>2, <1>3 DEF Next

\* A region lists an image twice only if another region has an image with the
\* native id, or two create_image commands for it overlapped.
THEOREM DoublesExplained == Spec => []DoublesAreExplained
<1>1. Init => ImagesInv BY DEF Init, ImagesInv, DoublesAreExplained
<1>2. ImagesInv => DoublesAreExplained BY DEF ImagesInv
<1> QED BY <1>1, <1>2, ImagesInductive, TypeCorrect, PTL DEF Spec

-----------------------------------------------------------------------------
(* WizardBatch: the commands of a wizard *)

\* Induction over the natural numbers, for a set of numbers.
LEMMA Induction ==
    ASSUME NEW S \in SUBSET Nat, 0 \in S, \A n \in S : n + 1 \in S PROVE S = Nat
<1> DEFINE Less == {p \in Nat \X Nat : p[1] < p[2]}
<1>1. IsWellFoundedOn(Less, Nat)
  <2>1. Less = OpToRel(<, Nat) BY DEF OpToRel
  <2> QED BY <2>1, NatLessThanWellFounded
<1>2. SUFFICES ASSUME Nat \ S # {} PROVE FALSE OBVIOUS
<1>3. PICK x \in Nat \ S : \A y \in Nat \ S : ~(<<y, x>> \in Less)
  <2>1. Nat \ S \subseteq Nat OBVIOUS
  <2> HIDE DEF Less
  <2> QED BY <1>1, <1>2, <2>1, WFMin
<1>4. x - 1 \in Nat OBVIOUS
<1>5. <<x - 1, x>> \in Less BY <1>4
<1>6. x - 1 \in S BY <1>3, <1>4, <1>5
<1>7. x - 1 + 1 \in S BY <1>6
<1> QED BY <1>7

\* One put into the map of the commands, for the puts before it computed as f.
PutStep(requests, f, k) ==
    IF k = 0 THEN <<>>
    ELSE IF requests[k] \in ToSet(f[k - 1]) THEN f[k - 1]
    ELSE Append(f[k - 1], requests[k])

PutUpTo(requests, n, f) == f = [k \in 0..n |-> PutStep(requests, f, k)]

\* The recursion of the puts has a solution.
LEMMA PutExists ==
    ASSUME NEW requests PROVE \A n \in Nat : \E f : PutUpTo(requests, n, f)
<1> DEFINE S == {n \in Nat : \E f : PutUpTo(requests, n, f)}
<1>1. 0 \in S
  <2>1. PICK f : f = [k \in 0..0 |-> <<>>] OBVIOUS
  <2>2. \A k \in 0..0 : k = 0 OBVIOUS
  <2>3. f = [k \in 0..0 |-> PutStep(requests, f, k)] BY <2>1, <2>2 DEF PutStep
  <2> QED BY <2>3 DEF PutUpTo
<1>2. ASSUME NEW n \in S PROVE n + 1 \in S
  <2>1. PICK f : PutUpTo(requests, n, f) OBVIOUS
  <2>2. PICK g : g = [k \in 0..(n + 1) |->
                         IF k = n + 1 THEN PutStep(requests, f, n + 1) ELSE f[k]]
    OBVIOUS
  <2>3. \A k \in 0..(n + 1) : k # n + 1 => k \in 0..n OBVIOUS
  <2>4. \A k \in 0..(n + 1) : k # 0 => k - 1 \in 0..n OBVIOUS
  <2>5. \A k \in 0..n : g[k] = f[k] BY <2>2
  <2>6. \A k \in 0..(n + 1) : PutStep(requests, g, k) = PutStep(requests, f, k)
    BY <2>4, <2>5 DEF PutStep
  <2>7. \A k \in 0..n : f[k] = PutStep(requests, f, k) BY <2>1 DEF PutUpTo
  <2>8. \A k \in 0..(n + 1) : g[k] = PutStep(requests, g, k) BY <2>2, <2>3, <2>6, <2>7
  <2>9. g = [k \in 0..(n + 1) |-> g[k]] BY <2>2
  <2>10. PutUpTo(requests, n + 1, g) BY <2>8, <2>9 DEF PutUpTo
  <2> QED BY <2>10
<1>3. S = Nat
  <2> HIDE DEF S
  <2>1. S \in SUBSET Nat BY DEF S
  <2> QED BY <1>1, <1>2, <2>1, Induction
<1> QED BY <1>3

LEMMA FirstOnesArePut ==
    ASSUME NEW requests, Len(requests) \in Nat
    PROVE  \E f : /\ PutUpTo(requests, Len(requests), f)
                  /\ FirstOnes(requests) = f[Len(requests)]
<1> DEFINE f == CHOOSE f : f = [k \in 0..Len(requests) |-> PutStep(requests, f, k)]
<1>1. \E g : g = [k \in 0..Len(requests) |-> PutStep(requests, g, k)]
  BY PutExists DEF PutUpTo
<1>2. f = [k \in 0..Len(requests) |-> PutStep(requests, f, k)] BY <1>1, Zenon
<1>3. FirstOnes(requests) = f[Len(requests)] BY Zenon DEF FirstOnes, PutStep
<1> HIDE DEF f
<1> QED BY <1>2, <1>3 DEF PutUpTo

\* The commands of a wizard are of the kind its requests are.
LEMMA FirstOnesTyped ==
    ASSUME NEW Item0, NEW requests \in Seq(Item0)
    PROVE  FirstOnes(requests) \in Seq(Item0)
<1>1. PICK n \in Nat : n = Len(requests) OBVIOUS
<1>2. \A k \in 1..n : requests[k] \in Item0 BY <1>1
<1>4. PICK f : /\ PutUpTo(requests, n, f)
               /\ FirstOnes(requests) = f[n]
  BY <1>1, FirstOnesArePut
<1>5. \A k \in 0..n : f[k] = PutStep(requests, f, k) BY <1>4 DEF PutUpTo
<1> DEFINE S == {k \in Nat : k <= n => f[k] \in Seq(Item0)}
<1>6. 0 \in S
  <2>1. f[0] = <<>> BY <1>5 DEF PutStep
  <2>2. <<>> \in Seq(Item0) OBVIOUS
  <2> QED BY <2>1, <2>2
<1>7. ASSUME NEW k \in S PROVE k + 1 \in S
  <2> SUFFICES ASSUME k + 1 <= n PROVE f[k + 1] \in Seq(Item0) OBVIOUS
  <2>2. f[k + 1] = PutStep(requests, f, k + 1)
    <3>1. k + 1 \in 0..n OBVIOUS
    <3> QED BY <1>5, <3>1
  <2>3. requests[k + 1] \in Item0 BY <1>2
  <2>4. PICK s : s = f[k] OBVIOUS
  <2>5. f[k + 1] = s \/ f[k + 1] = Append(s, requests[k + 1])
    BY <2>2, <2>4 DEF PutStep
  <2>6. s \in Seq(Item0) BY <2>4
  <2>7. Append(s, requests[k + 1]) \in Seq(Item0) BY <2>3, <2>6
  <2> QED BY <2>5, <2>6, <2>7
<1>8. S = Nat
  <2> HIDE DEF S
  <2>1. S \in SUBSET Nat BY DEF S
  <2> QED BY <1>6, <1>7, <2>1, Induction
<1>9. f[n] \in Seq(Item0) BY <1>8
<1> QED BY <1>4, <1>9

\* A wizard with its commands is a batch.
LEMMA StartedTyped ==
    ASSUME NEW w \in Wizard, NEW items \in PrepareCommands(w.items)
    PROVE  [w EXCEPT !.items = items] \in Batch
<1>1. w \in Batch BY WizardsAreBatches
<1>2. CASE w \in [command: {"create_shape"}, alias: Alias, items: Seq(ShapeId)]
  <2>1. items \in Seq(ShapeId) BY <1>2, FirstOnesTyped DEF PrepareCommands
  <2> QED BY <1>2, <2>1 DEF Batch
<1>3. CASE w \in [command: {"create_image"}, alias: Alias, items: Seq(NativeId)]
  <2>1. items \in Seq(NativeId) BY <1>3, FirstOnesTyped DEF PrepareCommands
  <2> QED BY <1>3, <2>1 DEF Batch
<1> QED BY <1>1, <1>2, <1>3 DEF Batch

-----------------------------------------------------------------------------
(* The steps of a batch are steps of RegionConfig *)

LEMMA ItemTyped ==
    ASSUME BatchTypeOK, NEW t \in Thread, Unfinished(t)
    PROVE  /\ batch[t] \in Batch /\ batch[t].command \in {"create_shape", "create_image"}
           /\ batch[t].command = "create_shape" => Item(t) \in ShapeId
           /\ batch[t].command = "create_image" => Item(t) \in NativeId
<1>1. batch[t] \in Batch /\ results[t] \in Seq({"SUCCESS", "FAILED", "SKIPPED"})
  BY DEF Unfinished, BatchTypeOK
<1>2. PICK b, r : b = batch[t] /\ r = results[t] OBVIOUS
<1>3. Len(r) \in Nat /\ Len(r) < Len(b.items) BY <1>1, <1>2 DEF Unfinished
<1>4. CASE b \in [command: {"create_shape"}, alias: Alias, items: Seq(ShapeId)]
  <2>1. b.items[Len(r) + 1] \in ShapeId BY <1>3, <1>4
  <2> QED BY <1>1, <1>2, <1>4, <2>1 DEF Item
<1>5. CASE b \in [command: {"create_image"}, alias: Alias, items: Seq(NativeId)]
  <2>1. b.items[Len(r) + 1] \in NativeId BY <1>3, <1>5
  <2> QED BY <1>1, <1>2, <1>5, <2>1 DEF Item
<1> QED BY <1>1, <1>2, <1>4, <1>5 DEF Batch

LEMMA ExecuteOperates ==
    ASSUME BatchTypeOK, NEW t \in Thread, Execute(t)
    PROVE  Operation(t) /\ Note(t)
<1>1. Note(t) BY DEF Execute
<1>2. CASE ExecuteGoesOn(t) BY <1>1, <1>2 DEF ExecuteGoesOn, Operation
<1>3. CASE ExecuteBegins(t)
  <2>1. Registered(batch[t].alias) \subseteq RegionId BY DEF Registered
  <2>2. /\ batch[t].command = "create_shape" => Item(t) \in ShapeId
        /\ batch[t].command = "create_image" => Item(t) \in NativeId
    BY ItemTyped DEF Execute
  <2> QED BY <1>1, <1>3, <2>1, <2>2 DEF ExecuteBegins, Operation
<1> QED BY <1>2, <1>3 DEF Execute

LEMMA BatchStepIsStep == BatchTypeOK /\ [BatchNext]_<<vars, batchVars>> => [Next]_vars
<1> SUFFICES ASSUME BatchTypeOK, [BatchNext]_<<vars, batchVars>> PROVE [Next]_vars OBVIOUS
<1>1. ASSUME NEW t \in Thread, Single(t) PROVE Next BY <1>1 DEF Single, Next
<1>2. ASSUME NEW t \in Thread, Execute(t) PROVE Next BY <1>2, ExecuteOperates DEF Next
<1>3. ASSUME NEW t \in Thread, StartBatch(t) \/ Skip(t) \/ FinishBatch(t) PROVE UNCHANGED vars
  BY <1>3 DEF StartBatch, Skip, FinishBatch
<1>4. CASE LoseBatches BY <1>4 DEF LoseBatches, Next
<1> QED BY <1>1, <1>2, <1>3, <1>4 DEF BatchNext

LEMMA BatchTypeInductive ==
    BatchTypeOK /\ [BatchNext]_<<vars, batchVars>> => BatchTypeOK'
<1> SUFFICES ASSUME BatchTypeOK, [BatchNext]_<<vars, batchVars>> PROVE BatchTypeOK' OBVIOUS
<1>r. ASSUME NEW t \in Thread, NEW o \in {"SUCCESS", "FAILED", "SKIPPED"}, Record(t, o)
      PROVE  results' \in [Thread -> Seq({"SUCCESS", "FAILED", "SKIPPED"})]
  <2>1. Append(results[t], o) \in Seq({"SUCCESS", "FAILED", "SKIPPED"}) BY DEF BatchTypeOK
  <2> QED BY <1>r, <2>1 DEF Record, BatchTypeOK
<1>e. <<>> \in Seq({"SUCCESS", "FAILED", "SKIPPED"}) /\ <<>> \in Seq(ShapeId \cup NativeId)
  OBVIOUS
<1>1. ASSUME NEW t \in Thread, Single(t) PROVE BatchTypeOK'
  BY <1>1 DEF Single, batchVars, BatchTypeOK
<1>2. ASSUME NEW t \in Thread, StartBatch(t) PROVE BatchTypeOK'
  <2>1. batch' \in [Thread -> Batch \cup {NoBatch}]
    <3>0. PICK w \in Wizard : \E items \in PrepareCommands(w.items) :
              batch' = [batch EXCEPT ![t] = [w EXCEPT !.items = items]]
      BY <1>2 DEF StartBatch
    <3>1. PICK items \in PrepareCommands(w.items) :
              batch' = [batch EXCEPT ![t] = [w EXCEPT !.items = items]]
      BY <3>0
    <3>2. PICK b : b = [w EXCEPT !.items = items] OBVIOUS
    <3>3. b \in Batch /\ batch' = [batch EXCEPT ![t] = b] BY <3>1, <3>2, StartedTyped
    <3> QED BY <3>3 DEF BatchTypeOK
  <2>2. \A b : HavingFirst(b) \subseteq RegionId BY DEF HavingFirst, Registered
  <2>3. known' \in [Thread -> SUBSET RegionId]
    <3>1. PICK b : known' = [known EXCEPT ![t] = HavingFirst(b)] BY <1>2 DEF StartBatch
    <3> QED BY <2>2, <3>1 DEF BatchTypeOK
  <2> QED BY <1>2, <1>e, <2>1, <2>3 DEF StartBatch, BatchTypeOK
<1>3. ASSUME NEW t \in Thread, Execute(t) PROVE BatchTypeOK'
  <2>1. results' \in [Thread -> Seq({"SUCCESS", "FAILED", "SKIPPED"})]
    BY <1>3, <1>r DEF Execute, BatchTypeOK
  <2>2. stored' \in [Thread -> Seq(ShapeId \cup NativeId)]
    <3>1. Item(t) \in ShapeId \cup NativeId BY <1>3, ItemTyped DEF Execute
    <3>2. Append(stored[t], Item(t)) \in Seq(ShapeId \cup NativeId) BY <3>1 DEF BatchTypeOK
    <3> QED BY <1>3, <3>2 DEF Execute, BatchTypeOK
  <2> QED BY <1>3, <2>1, <2>2 DEF Execute, BatchTypeOK
<1>4. ASSUME NEW t \in Thread, Skip(t) PROVE BatchTypeOK'
  BY <1>4, <1>r DEF Skip, BatchTypeOK
<1>5. ASSUME NEW t \in Thread, FinishBatch(t) PROVE BatchTypeOK'
  BY <1>5, <1>e DEF FinishBatch, BatchTypeOK
<1>6. CASE LoseBatches
  BY <1>6, <1>e DEF LoseBatches, BatchTypeOK
<1>7. CASE UNCHANGED <<vars, batchVars>>
  BY <1>7 DEF batchVars, BatchTypeOK
<1> QED BY <1>1, <1>2, <1>3, <1>4, <1>5, <1>6, <1>7 DEF BatchNext

LEMMA BatchIsTyped == BatchSpec => []BatchTypeOK
<1>1. BatchInit => BatchTypeOK
  <2>1. <<>> \in Seq({"SUCCESS", "FAILED", "SKIPPED"}) /\ <<>> \in Seq(ShapeId \cup NativeId)
    OBVIOUS
  <2> QED BY <2>1 DEF BatchInit, BatchTypeOK
<1> QED BY <1>1, BatchTypeInductive, PTL DEF BatchSpec

LEMMA BatchesAreCommands == BatchSpec => Spec
<1>1. BatchInit => Init BY DEF BatchInit
<1> QED BY <1>1, BatchStepIsStep, BatchIsTyped, PTL DEF BatchSpec, Spec

-----------------------------------------------------------------------------
(* What the steps leave of the items *)

\* Region id has the item, or an overtaken save has taken it away.
HadBy(b, id, item) ==
    \/ Has(b.command, id, item)
    \/ b.command = "create_shape" /\ <<"save", id>> \in spoiled

\* A shape of a region is there after a step, or the region is spoiled.
LEMMA ShapeKept ==
    ASSUME TypeOK, ClaimsHold, NEW t \in Thread, Operation(t), Note(t),
           NEW id \in RegionId, regions[id] # Null, NEW s, HasShape(regions[id], s)
    PROVE  \/ \E i \in DOMAIN regions'[id].allowedShapes : regions'[id].allowedShapes[i] = s
           \/ <<"save", id>> \in spoiled'
<1>1. CASE regions'[id] = regions[id] BY <1>1 DEF HasShape
<1>2. CASE InsertRegion(t)
  <2>1. PICK i \in RegionId : regions[i] = Null /\ \A j \in RegionId \ {i} : regions'[j] = regions[j]
    BY <1>2, Inserts DEF ClaimsHold
  <2> QED BY <1>1, <2>1
<1>3. CASE SaveRegion(t) /\ rid[t] = id
  <2>1. /\ t \in overtaken \/ EditOf(regions[id], copy[t])
        /\ regions'[id] = copy[t] /\ Target(t) = <<"save", id>>
    BY <1>3, Saves DEF ClaimsHold
  <2>2. Writing(t) /\ pc'[t] # "error" BY <1>3, GotoIs DEF SaveRegion, Return, Writing
  <2>3. CASE t \in overtaken BY <2>1, <2>2, <2>3, Noted
  <2>4. CASE EditOf(regions[id], copy[t])
    <3>1. regions[id] \in Region BY DEF TypeOK
    <3>2. ListedShapes(regions[id]) \subseteq ListedShapes(copy[t]) BY <2>4, <3>1, EditKeeps
    <3>3. s \in ListedShapes(regions[id]) BY DEF HasShape, ListedShapes
    <3> QED BY <2>1, <3>2, <3>3 DEF ListedShapes
  <2> QED BY <2>1, <2>3, <2>4
<1>4. CASE SaveRegion(t) /\ rid[t] # id
  <2>1. regions'[id] = regions[id] BY <1>4, Saves DEF ClaimsHold
  <2> QED BY <1>1, <2>1
<1>5. CASE regions' = regions BY <1>1, <1>5
<1> QED BY <1>2, <1>3, <1>4, <1>5, RegionsChange

\* The same for what is read between two steps.
Later ==
    /\ spoiled \subseteq spoiled'
    /\ \A a : Registered(a) \subseteq Registered(a)'
    /\ \A n : Found(n) \subseteq Found(n)'
    /\ \A i \in ImageId : images[i] # Null => images'[i] = images[i]
    /\ \A b : \A id \in RegionId : \A item :
          regions[id] # Null /\ HadBy(b, id, item) => HadBy(b, id, item)'

LEMMA EverythingLater == TypeOK /\ ClaimsHold /\ [Next]_vars => Later
<1> SUFFICES ASSUME TypeOK, ClaimsHold, [Next]_vars PROVE Later OBVIOUS
<1>1. \A n : Found(n) \subseteq Found(n)' BY FoundGrows
<1>2. \A i \in ImageId : images[i] # Null => images'[i] = images[i] BY ImagesStay
<1>3. ASSUME NEW t \in Thread, Operation(t), Note(t) PROVE Later
  <2>1. spoiled \subseteq spoiled' BY <1>3, Noted
  <2>2. \A a : Registered(a) \subseteq Registered(a)' BY <1>3, RegisteredGrows
  <2>3. ASSUME NEW b, NEW id \in RegionId, NEW item, regions[id] # Null, HadBy(b, id, item)
        PROVE  HadBy(b, id, item)'
    <3>1. CASE b.command = "create_shape" /\ <<"save", id>> \in spoiled
      BY <2>1, <3>1 DEF HadBy
    <3>2. CASE b.command = "create_shape" /\ HasShape(regions[id], item)
      BY <1>3, <2>3, <3>2, ShapeKept DEF HadBy, Has, HasShape
    <3>3. CASE b.command # "create_shape" /\ \E i \in Found(item) : images[i].regionId = id
      BY <1>1, <1>2, <3>3 DEF HadBy, Has, Found
    <3> QED BY <2>3, <3>1, <3>2, <3>3 DEF HadBy, Has
  <2> QED BY <1>1, <1>2, <2>1, <2>2, <2>3 DEF Later
<1>4. CASE Restart \/ UNCHANGED vars
  <2>1. regions' = regions /\ images' = images /\ spoiled' = spoiled
    BY <1>4 DEF Restart, vars, store, history
  <2> QED BY <2>1 DEF Later, Registered, Found, HadBy, Has, HasShape
<1> QED BY <1>3, <1>4 DEF Next

\* A region in plain sight was so before.
LEMMA SightBefore ==
    ASSUME Later, NEW b, NEW id, id \in Registered(b.alias), InPlainSight(b, id)'
    PROVE  InPlainSight(b, id)
<1>1. Registered(b.alias)' = {id} BY DEF InPlainSight
<1>2. Registered(b.alias) = {id} BY <1>1 DEF Later
<1>3. CASE b.command = "create_shape" BY <1>2, <1>3 DEF InPlainSight, Later
<1>4. CASE b.command # "create_shape"
  <2>1. \A i \in Found(b.items[1])' : images'[i].regionId = id BY <1>4 DEF InPlainSight
  <2>2. ASSUME NEW i \in Found(b.items[1]) PROVE images[i].regionId = id
    <3>1. i \in Found(b.items[1])' BY DEF Later
    <3>2. images'[i] = images[i] BY DEF Later, Found
    <3> QED BY <2>1, <3>1, <3>2
  <2> QED BY <1>2, <1>4, <2>2 DEF InPlainSight
<1> QED BY <1>3, <1>4

-----------------------------------------------------------------------------
(* Results: what becomes of them when one is added *)

Outcomes == {"SUCCESS", "FAILED", "SKIPPED"}

\* With results r and stored items s so far: the commands that have SUCCESS are
\* the first ones, and s are their items.
InStep(b, r, s) ==
    /\ Len(s) <= Len(r)
    /\ \A k \in 1..Len(r) : r[k] = "SUCCESS" <=> k <= Len(s)
    /\ \A k \in 1..Len(s) : s[k] = b.items[k]
    /\ StopsAtFailure(r)

LEMMA Appended ==
    ASSUME NEW X, NEW r \in Seq(X), NEW o \in X, NEW q, q = Append(r, o)
    PROVE  /\ q \in Seq(X) /\ Len(r) \in Nat /\ Len(q) = Len(r) + 1
           /\ \A k \in 1..Len(r) : q[k] = r[k]
           /\ q[Len(r) + 1] = o
OBVIOUS

LEMMA InStepSuccess ==
    ASSUME NEW X, NEW b, NEW r \in Seq(Outcomes), NEW s \in Seq(X), InStep(b, r, s),
           \A k \in 1..Len(r) : r[k] = "SUCCESS", NEW x \in X, x = b.items[Len(r) + 1]
    PROVE  InStep(b, Append(r, "SUCCESS"), Append(s, x)) /\ Len(s) = Len(r)
<1>1. PICK q, z : q = Append(r, "SUCCESS") /\ z = Append(s, x) OBVIOUS
<1>2. /\ q \in Seq(Outcomes) /\ Len(r) \in Nat /\ Len(q) = Len(r) + 1
      /\ \A k \in 1..Len(r) : q[k] = r[k]
      /\ q[Len(r) + 1] = "SUCCESS"
  BY <1>1, Appended DEF Outcomes
<1>3. /\ Len(s) \in Nat /\ Len(z) = Len(s) + 1
      /\ \A k \in 1..Len(s) : z[k] = s[k]
      /\ z[Len(s) + 1] = x
  BY <1>1, Appended
<1>4. Len(s) = Len(r)
  <2>1. CASE Len(r) = 0 BY <1>2, <1>3, <2>1 DEF InStep
  <2>2. CASE Len(r) # 0
    <3>1. Len(r) \in 1..Len(r) BY <1>2, <2>2
    <3>2. Len(r) <= Len(s) BY <3>1 DEF InStep
    <3> QED BY <1>2, <1>3, <3>2 DEF InStep
  <2> QED BY <2>1, <2>2
<1>5. \A k \in 1..Len(q) : q[k] = "SUCCESS" BY <1>2
<1>6. \A k \in 1..Len(q) : k <= Len(z) BY <1>2, <1>3, <1>4
<1>7. \A k \in 1..Len(z) : z[k] = b.items[k]
  <2>1. SUFFICES ASSUME NEW k \in 1..Len(z) PROVE z[k] = b.items[k] OBVIOUS
  <2>2. CASE k = Len(s) + 1 BY <1>3, <1>4, <2>2
  <2>3. CASE k # Len(s) + 1
    <3>1. k \in 1..Len(s) BY <1>3, <2>3
    <3> QED BY <1>3, <3>1 DEF InStep
  <2> QED BY <2>2, <2>3
<1>8. StopsAtFailure(q)
  <2>1. \A k \in 1..(Len(q) - 1) : k \in 1..Len(q) /\ k + 1 \in 1..Len(q) BY <1>2
  <2> QED BY <1>5, <2>1 DEF StopsAtFailure
<1>9. Len(z) <= Len(q) BY <1>2, <1>3, <1>4
<1>10. InStep(b, q, z) BY <1>5, <1>6, <1>7, <1>8, <1>9 DEF InStep
<1> QED BY <1>1, <1>4, <1>10

LEMMA InStepOther ==
    ASSUME NEW X, NEW b, NEW r \in Seq(Outcomes), NEW s \in Seq(X), InStep(b, r, s),
           NEW o \in {"FAILED", "SKIPPED"},
           o = "SKIPPED" <=> \E k \in 1..Len(r) : r[k] # "SUCCESS"
    PROVE  InStep(b, Append(r, o), s)
<1>1. PICK q : q = Append(r, o) OBVIOUS
<1>2. /\ q \in Seq(Outcomes) /\ Len(r) \in Nat /\ Len(q) = Len(r) + 1
      /\ \A k \in 1..Len(r) : q[k] = r[k]
      /\ q[Len(r) + 1] = o
  BY <1>1, Appended DEF Outcomes
<1>3. Len(s) \in Nat /\ Len(s) <= Len(r) BY DEF InStep
<1>4. \A k \in 1..Len(q) : q[k] = "SUCCESS" <=> k <= Len(s)
  <2>1. SUFFICES ASSUME NEW k \in 1..Len(q) PROVE q[k] = "SUCCESS" <=> k <= Len(s) OBVIOUS
  <2>2. CASE k = Len(r) + 1
    <3>1. q[k] # "SUCCESS" BY <1>2, <2>2
    <3>2. ~(k <= Len(s)) BY <1>2, <1>3, <2>2
    <3> QED BY <3>1, <3>2
  <2>3. CASE k # Len(r) + 1
    <3>1. k \in 1..Len(r) BY <1>2, <2>3
    <3> QED BY <1>2, <3>1 DEF InStep
  <2> QED BY <2>2, <2>3
<1>5. StopsAtFailure(q)
  <2>1. SUFFICES ASSUME NEW k \in 1..(Len(q) - 1)
                 PROVE  q[k + 1] = "SKIPPED" <=> q[k] # "SUCCESS"
    BY DEF StopsAtFailure
  <2>2. k \in 1..Len(r) BY <1>2
  <2>3. CASE k = Len(r)
    <3>1. q[k + 1] = o /\ q[k] = r[k] BY <1>2, <2>2, <2>3
    <3>2. o = "SKIPPED" <=> r[k] # "SUCCESS"
      <4>1. CASE \E j \in 1..Len(r) : r[j] # "SUCCESS"
        <5>1. PICK j \in 1..Len(r) : r[j] # "SUCCESS" BY <4>1
        <5>2. ~(j <= Len(s)) BY <5>1 DEF InStep
        <5>3. ~(k <= Len(s)) BY <1>2, <1>3, <2>3, <5>2
        <5>4. r[k] # "SUCCESS" BY <2>2, <5>3 DEF InStep
        <5> QED BY <4>1, <5>4
      <4>2. CASE ~\E j \in 1..Len(r) : r[j] # "SUCCESS" BY <2>2, <4>2
      <4> QED BY <4>1, <4>2
    <3> QED BY <3>1, <3>2
  <2>4. CASE k # Len(r)
    <3>1. k \in 1..(Len(r) - 1) /\ k + 1 \in 1..Len(r) BY <1>2, <2>2, <2>4
    <3>2. q[k + 1] = r[k + 1] /\ q[k] = r[k] BY <1>2, <2>2, <3>1
    <3> QED BY <3>1, <3>2 DEF InStep, StopsAtFailure
  <2> QED BY <2>3, <2>4
<1>6. Len(s) <= Len(q) BY <1>2, <1>3
<1>7. InStep(b, q, s) BY <1>4, <1>5, <1>6 DEF InStep
<1> QED BY <1>1, <1>7

-----------------------------------------------------------------------------
(* What holds of a thread with a batch *)

Progress(t) == batch[t] # NoBatch => InStep(batch[t], results[t], stored[t])

\* What it stored is there, or was taken away by an overtaken save.
Kept(t) ==
    batch[t] # NoBatch =>
        \A k \in 1..Len(stored[t]) : \E id \in Registered(batch[t].alias) :
            HadBy(batch[t], id, stored[t][k])

\* In the middle of a command it holds what that command is about to write.
Mid(t) ==
    batch[t] # NoBatch =>
        /\ pc[t] \in Replies \cup {"save", "find_image", "save_image"}
        /\ pc[t] \notin Replies =>
              Unfinished(t) /\ Success(t) /\ rid[t] \in Registered(batch[t].alias)
        /\ pc[t] = "save" => batch[t].command = "create_shape" /\ HasShape(copy[t], Item(t))
        /\ pc[t] \in {"find_image", "save_image"} =>
              batch[t].command = "create_image" /\ native[t] = Item(t)

\* The regions that had the first item have it, or it was taken away.
Recalled(t) ==
    batch[t] # NoBatch =>
        \A id \in known[t] : /\ id \in Registered(batch[t].alias)
                             /\ HadBy(batch[t], id, batch[t].items[1])

Inert(t) ==
    batch[t] # NoBatch =>
        \A id \in known[t] : InPlainSight(batch[t], id) =>
            stored[t] = <<>> /\ pc[t] \notin {"save", "save_image"}

ThreadInv(t) == Progress(t) /\ Kept(t) /\ Mid(t) /\ Recalled(t) /\ Inert(t)

LEMMA KeptNext ==
    ASSUME NEW t, NEW b, NEW s, batch'[t] = b, stored'[t] = s,
           \A k \in 1..Len(s) : \E id : id \in Registered(b.alias)' /\ HadBy(b, id, s[k])'
    PROVE  Kept(t)'
BY DEF Kept, HadBy, Has, HasShape, Found, Registered

LEMMA RecalledNext ==
    ASSUME NEW t, NEW b, batch'[t] = b,
           \A id \in known'[t] : id \in Registered(b.alias)' /\ HadBy(b, id, b.items[1])'
    PROVE  Recalled(t)'
BY DEF Recalled, HadBy, Has, HasShape, Found, Registered

LEMMA InertNext ==
    ASSUME NEW t, NEW b, batch'[t] = b,
           \A id \in known'[t] : InPlainSight(b, id)' =>
              stored'[t] = <<>> /\ pc'[t] \notin {"save", "save_image"}
    PROVE  Inert(t)'
BY DEF Inert, InPlainSight, Found, Registered

\* The commands and regions of a batch are kept by every step; an item added to
\* what it stored must be there.
LEMMA KeptStays ==
    ASSUME Later, NEW t, Kept(t), batch[t] # NoBatch, batch'[t] = batch[t],
           stored'[t] = stored[t]
    PROVE  Kept(t)'
<1>1. PICK b, s : b = batch[t] /\ s = stored[t] OBVIOUS
<1>2. \A k \in 1..Len(s) : \E id : id \in Registered(b.alias) /\ HadBy(b, id, s[k])
  BY <1>1 DEF Kept
<1>3. Registered(b.alias) \subseteq RegionId /\ \A id \in Registered(b.alias) : regions[id] # Null
  BY DEF Registered
<1>4. \A k \in 1..Len(s) : \E id : id \in Registered(b.alias)' /\ HadBy(b, id, s[k])'
  <2>1. SUFFICES ASSUME NEW k \in 1..Len(s)
                 PROVE  \E id : id \in Registered(b.alias)' /\ HadBy(b, id, s[k])'
    OBVIOUS
  <2>2. PICK id : id \in Registered(b.alias) /\ HadBy(b, id, s[k]) BY <1>2
  <2>3. id \in RegionId /\ regions[id] # Null BY <1>3, <2>2
  <2>4. PICK x : x = s[k] OBVIOUS
  <2>5. HadBy(b, id, x) BY <2>2, <2>4
  <2>6. HadBy(b, id, x)' BY <2>3, <2>5 DEF Later
  <2>7. HadBy(b, id, s[k])' BY <2>4, <2>6
  <2>8. id \in Registered(b.alias)' BY <2>2 DEF Later
  <2> QED BY <2>7, <2>8
<1> QED BY <1>1, <1>4, KeptNext

LEMMA RecalledStays ==
    ASSUME Later, NEW t, Recalled(t), batch[t] # NoBatch, batch'[t] = batch[t],
           known'[t] = known[t]
    PROVE  Recalled(t)'
<1>1. PICK b : b = batch[t] OBVIOUS
<1>2. \A id \in known[t] : id \in Registered(b.alias) /\ HadBy(b, id, b.items[1])
  BY <1>1 DEF Recalled
<1>3. \A id \in known[t] : id \in RegionId /\ regions[id] # Null
  BY <1>2 DEF Registered
<1>4. PICK x : x = b.items[1] OBVIOUS
<1>5. \A id \in known[t] : HadBy(b, id, x)' BY <1>2, <1>3, <1>4 DEF Later
<1>6. \A id \in known'[t] : id \in Registered(b.alias)' /\ HadBy(b, id, b.items[1])'
  BY <1>2, <1>4, <1>5 DEF Later
<1> QED BY <1>1, <1>6, RecalledNext

\* As long as it stores nothing and begins no save it stays inert.
LEMMA InertStays ==
    ASSUME Later, NEW t, Recalled(t), Inert(t), batch[t] # NoBatch, batch'[t] = batch[t],
           known'[t] = known[t],
           \A b : \A id \in known[t] :
               /\ b = batch[t] /\ InPlainSight(b, id)
               /\ stored[t] = <<>> /\ pc[t] \notin {"save", "save_image"}
               => stored'[t] = <<>> /\ pc'[t] \notin {"save", "save_image"}
    PROVE  Inert(t)'
<1>1. PICK b : b = batch[t] OBVIOUS
<1>2. ASSUME NEW id \in known'[t], InPlainSight(b, id)'
      PROVE  stored'[t] = <<>> /\ pc'[t] \notin {"save", "save_image"}
  <2>1. id \in Registered(b.alias) BY <1>1 DEF Recalled
  <2>2. InPlainSight(b, id) BY <1>2, <2>1, SightBefore
  <2>3. stored[t] = <<>> /\ pc[t] \notin {"save", "save_image"}
    BY <1>1, <2>2 DEF Inert
  <2> QED BY <1>1, <2>2, <2>3
<1> QED BY <1>1, <1>2, InertNext

LEMMA OtherBatchesStay ==
    ASSUME Later, NEW u, ThreadInv(u),
           batch'[u] = batch[u], results'[u] = results[u], stored'[u] = stored[u],
           known'[u] = known[u], pc'[u] = pc[u], rid'[u] = rid[u], copy'[u] = copy[u],
           native'[u] = native[u]
    PROVE  ThreadInv(u)'
<1>1. CASE batch[u] = NoBatch
  BY <1>1 DEF ThreadInv, Progress, Kept, Mid, Recalled, Inert
<1>2. CASE batch[u] # NoBatch
  <2>1. Progress(u)' BY DEF ThreadInv, Progress, InStep, StopsAtFailure
  <2>2. Kept(u)' BY <1>2, KeptStays DEF ThreadInv
  <2>3. Recalled(u)' BY <1>2, RecalledStays DEF ThreadInv
  <2>4. Inert(u)' BY <1>2, InertStays DEF ThreadInv
  <2>5. Mid(u)'
    <3>1. Registered(batch[u].alias) \subseteq Registered(batch[u].alias)'
      <4>1. PICK a : a = batch[u].alias OBVIOUS
      <4>2. Registered(a) \subseteq Registered(a)' BY DEF Later
      <4> QED BY <4>1, <4>2 DEF Registered
    <3>2. (Unfinished(u) <=> Unfinished(u)') /\ (Success(u) <=> Success(u)') /\ Item(u)' = Item(u)
      BY DEF Unfinished, Success, Item
    <3>3. HasShape(copy[u], Item(u)) => HasShape(copy[u], Item(u))'
      BY <3>2 DEF HasShape
    <3> QED BY <3>1, <3>2, <3>3 DEF ThreadInv, Mid
  <2> QED BY <2>1, <2>2, <2>3, <2>4, <2>5 DEF ThreadInv
<1> QED BY <1>1, <1>2

-----------------------------------------------------------------------------
(* What a step of a command does to its batch *)

Refused(t) == pc'[t] = "error" /\ Record(t, "FAILED") /\ stored' = stored

Copied(t) ==
    /\ batch[t].command = "create_shape" /\ pc'[t] = "save"
    /\ \E id \in Registered(batch[t].alias) :
          rid'[t] = id /\ ~HasShape(regions[id], Item(t))
    /\ \E i \in DOMAIN copy'[t].allowedShapes : copy'[t].allowedShapes[i] = Item(t)
    /\ results' = results /\ stored' = stored

Looked(t) ==
    /\ batch[t].command = "create_image" /\ pc'[t] = "find_image"
    /\ rid'[t] \in Registered(batch[t].alias) /\ native'[t] = Item(t)
    /\ results' = results /\ stored' = stored

Missed(t) ==
    /\ pc[t] = "find_image" /\ pc'[t] = "save_image"
    /\ rid'[t] = rid[t] /\ native'[t] = native[t]
    /\ Found(native[t]) = {} \/ \E k \in Found(native[t]) : images[k].regionId # rid[t]
    /\ results' = results /\ stored' = stored

Stored(t) ==
    /\ pc[t] \in {"save", "save_image"} /\ pc'[t] = "ok"
    /\ pc[t] = "save" => SaveRegion(t)
    /\ pc[t] = "save_image" => SaveImage(t)
    /\ Record(t, "SUCCESS") /\ stored' = [stored EXCEPT ![t] = Append(@, Item(t))]

LEMMA Outcome ==
    ASSUME TypeOK, BatchTypeOK, NEW t \in Thread, Execute(t)
    PROVE  Refused(t) \/ Copied(t) \/ Looked(t) \/ Missed(t) \/ Stored(t)
<1>e. ASSUME pc'[t] = "error" PROVE Refused(t)
  BY <1>e DEF Execute, Refused, Steps
<1>s. ASSUME pc'[t] \in Steps PROVE results' = results /\ stored' = stored
  BY <1>s DEF Execute, Steps
<1>r. ASSUME Return(t, "error") PROVE Refused(t)
  <2>1. pc'[t] = "error" BY <1>r, GotoIs DEF Return
  <2> QED BY <2>1, <1>e
<1>1. CASE Reject(t) BY <1>1, <1>r DEF Reject
<1>2. ASSUME NEW id \in Registered(batch[t].alias), batch[t].command = "create_shape",
             CreateShape(t, id, Item(t))
      PROVE  Refused(t) \/ Copied(t)
  <2>1. CASE HasShape(regions[id], Item(t)) BY <1>2, <1>r, <2>1 DEF CreateShape, AnswerNow
  <2>2. CASE ~HasShape(regions[id], Item(t))
    <3>1. PICK d, x : d = regions[id] /\ x = Item(t) OBVIOUS
    <3>2. PICK e : e = [d EXCEPT !.allowedShapes = Append(@, x)] OBVIOUS
    <3>3. Goto(t, "save", id, e, Null) BY <1>2, <2>2, <3>1, <3>2 DEF CreateShape, SaveLater
    <3>4. pc'[t] = "save" /\ rid'[t] = id /\ copy'[t] = e BY <3>3, GotoIs
    <3>5. d \in Region BY <3>1 DEF Registered, TypeOK
    <3>6. x \in ShapeId BY <1>2, <3>1, ItemTyped DEF Execute
    <3>7. \E i \in DOMAIN e.allowedShapes : e.allowedShapes[i] = x
      <4>1. PICK q : q = d.allowedShapes OBVIOUS
      <4>2. q \in Seq(ShapeId) BY <3>5, <4>1 DEF Region
      <4>3. e.allowedShapes = Append(q, x) BY <3>2, <3>5, <4>1 DEF Region
      <4>4. Len(q) + 1 \in DOMAIN Append(q, x) /\ Append(q, x)[Len(q) + 1] = x
        BY <3>6, <4>2
      <4> QED BY <4>3, <4>4
    <3>8. results' = results /\ stored' = stored BY <1>s, <3>4 DEF Steps
    <3> QED BY <1>2, <2>2, <3>1, <3>4, <3>7, <3>8 DEF Copied
  <2> QED BY <2>1, <2>2
<1>3. ASSUME NEW id \in Registered(batch[t].alias), batch[t].command = "create_image",
             CreateImage(t, id, Item(t))
      PROVE  Looked(t)
  <2>1. pc'[t] = "find_image" /\ rid'[t] = id /\ native'[t] = Item(t)
    BY <1>3, GotoIs DEF CreateImage
  <2> QED BY <1>3, <1>s, <2>1 DEF Looked, Steps
<1>4. CASE SaveRegion(t) \/ SaveImage(t)
  <2>1. pc[t] \in {"save", "save_image"} /\ pc'[t] = "ok"
    BY <1>4, GotoIs DEF SaveRegion, SaveImage, Return
  <2>2. Record(t, "SUCCESS") BY <2>1 DEF Execute, Steps
  <2>3. stored' = [stored EXCEPT ![t] = Append(@, Item(t))] BY <2>1 DEF Execute, Writing
  <2> QED BY <1>4, <2>1, <2>2, <2>3 DEF Stored, SaveRegion, SaveImage
<1>5. CASE FindImage(t)
  <2>1. CASE Return(t, "error") BY <1>r, <2>1
  <2>2. CASE /\ Goto(t, "save_image", rid[t], Null, native[t])
             /\ Found(native[t]) = {} \/ \E k \in Found(native[t]) : images[k].regionId # rid[t]
    <3>1. pc'[t] = "save_image" /\ rid'[t] = rid[t] /\ native'[t] = native[t]
      BY <2>2, GotoIs
    <3> QED BY <1>5, <1>s, <2>2, <3>1 DEF Missed, Steps, FindImage
  <2> QED BY <1>5, <2>1, <2>2 DEF FindImage
<1>6. CASE DatabaseFails(t) BY <1>6, <1>r DEF DatabaseFails
<1> QED BY <1>1, <1>2, <1>3, <1>4, <1>5, <1>6 DEF Execute, ExecuteBegins, ExecuteGoesOn

\* The results after a step.
LEMMA ProgressStep ==
    ASSUME BatchTypeOK, NEW t \in Thread, Execute(t), Progress(t),
           \/ Record(t, "FAILED") /\ stored' = stored
           \/ results' = results /\ stored' = stored
           \/ Record(t, "SUCCESS") /\ stored' = [stored EXCEPT ![t] = Append(@, Item(t))]
    PROVE  Progress(t)'
<1>1. PICK b, r, s : b = batch[t] /\ r = results[t] /\ s = stored[t] OBVIOUS
<1>2. batch[t] # NoBatch /\ batch'[t] = b /\ \A k \in 1..Len(r) : r[k] = "SUCCESS"
  BY <1>1 DEF Execute, Unfinished, Success, BatchTypeOK
<1>3. r \in Seq(Outcomes) /\ s \in Seq(ShapeId \cup NativeId) /\ InStep(b, r, s)
  BY <1>1, <1>2 DEF BatchTypeOK, Progress, Outcomes
<1>4. PICK x : x = Item(t) OBVIOUS
<1>5. x \in ShapeId \cup NativeId /\ x = b.items[Len(r) + 1]
  BY <1>1, <1>4, ItemTyped DEF Execute, Item
<1>6. CASE Record(t, "FAILED") /\ stored' = stored
  <2>1. results'[t] = Append(r, "FAILED") /\ stored'[t] = s
    BY <1>1, <1>6 DEF Record, BatchTypeOK
  <2>2. InStep(b, Append(r, "FAILED"), s) BY <1>2, <1>3, InStepOther
  <2> QED BY <1>2, <2>1, <2>2 DEF Progress, InStep, StopsAtFailure
<1>7. CASE results' = results /\ stored' = stored
  BY <1>1, <1>2, <1>3, <1>7 DEF Progress, InStep, StopsAtFailure
<1>8. CASE Record(t, "SUCCESS") /\ stored' = [stored EXCEPT ![t] = Append(@, Item(t))]
  <2>1. results'[t] = Append(r, "SUCCESS") /\ stored'[t] = Append(s, x)
    BY <1>1, <1>4, <1>8 DEF Record, BatchTypeOK
  <2>2. InStep(b, Append(r, "SUCCESS"), Append(s, x)) BY <1>2, <1>3, <1>5, InStepSuccess
  <2> QED BY <1>2, <2>1, <2>2 DEF Progress, InStep, StopsAtFailure
<1> QED BY <1>6, <1>7, <1>8

\* The item a command has just stored is there.
LEMMA StoredIsThere ==
    ASSUME TypeOK, BatchTypeOK, NEW t \in Thread, Execute(t), Later, Mid(t), Stored(t),
           NEW b, b = batch[t], NEW x, x = Item(t)
    PROVE  \E id : id \in Registered(b.alias)' /\ HadBy(b, id, x)'
<1>1. PICK id : id = rid[t] OBVIOUS
<1>2. id \in Registered(b.alias) BY <1>1 DEF Mid, Stored, Replies, Execute, Unfinished
<1>3. id \in Registered(b.alias)' BY <1>2 DEF Later
<1>4. CASE pc[t] = "save"
  <2>1. b.command = "create_shape" /\ HasShape(copy[t], x)
    BY <1>4 DEF Mid, Execute, Unfinished
  <2>2. regions'[id] = copy[t]
    BY <1>1, <1>2, <1>4 DEF Stored, SaveRegion, TypeOK, Registered
  <2>3. HadBy(b, id, x)' BY <2>1, <2>2 DEF HadBy, Has, HasShape
  <2> QED BY <1>3, <2>3
<1>5. CASE pc[t] = "save_image"
  <2>1. b.command = "create_image" /\ native[t] = x
    BY <1>5 DEF Mid, Execute, Unfinished
  <2>2. PICK i \in ImageId :
          images' = [images EXCEPT ![i] = [nativeId |-> native[t], regionId |-> rid[t]]]
    BY <1>5 DEF Stored, SaveImage
  <2>3. PICK img : img = [nativeId |-> x, regionId |-> id] OBVIOUS
  <2>4. images'[i] = img BY <1>1, <2>1, <2>2, <2>3 DEF TypeOK
  <2>5. img \in Image
    <3>1. x \in NativeId /\ id \in RegionId
      BY <1>1, <1>5, <2>1 DEF TypeOK, HoldsEnough
    <3> QED BY <2>3, <3>1 DEF Image
  <2>6. img # Null /\ img.nativeId = x /\ img.regionId = id BY <2>3, <2>5, NullIsNoDocument
  <2>7. HadBy(b, id, x)' BY <2>1, <2>4, <2>6 DEF HadBy, Has, Found
  <2> QED BY <1>3, <2>7
<1> QED BY <1>4, <1>5 DEF Stored

LEMMA KeptStep ==
    ASSUME TypeOK, BatchTypeOK, NEW t \in Thread, Execute(t), Later, ThreadInv(t),
           stored' = stored \/ Stored(t)
    PROVE  Kept(t)'
<1>1. batch[t] # NoBatch /\ batch'[t] = batch[t] BY DEF Execute, Unfinished
<1>2. CASE stored' = stored BY <1>1, <1>2, KeptStays DEF ThreadInv
<1>3. CASE Stored(t)
  <2>1. PICK b, s, x : b = batch[t] /\ s = stored[t] /\ x = Item(t) OBVIOUS
  <2>2. x \in ShapeId \cup NativeId BY <2>1, ItemTyped DEF Execute
  <2>3. s \in Seq(ShapeId \cup NativeId) BY <2>1 DEF BatchTypeOK
  <2>4. PICK q : q = Append(s, x) OBVIOUS
  <2>5. stored'[t] = q BY <1>3, <2>1, <2>4 DEF Stored, BatchTypeOK
  <2>6. /\ Len(s) \in Nat /\ Len(q) = Len(s) + 1
        /\ \A k \in 1..Len(s) : q[k] = s[k]
        /\ q[Len(s) + 1] = x
    BY <2>2, <2>3, <2>4, Appended
  <2>7. \E id : id \in Registered(b.alias)' /\ HadBy(b, id, x)'
    BY <1>3, <2>1, StoredIsThere DEF ThreadInv
  <2>8. ASSUME NEW k \in 1..Len(q)
        PROVE  \E id : id \in Registered(b.alias)' /\ HadBy(b, id, q[k])'
    <3>1. CASE k = Len(s) + 1
      <4>1. q[k] = x BY <2>6, <3>1
      <4> QED BY <2>7, <4>1
    <3>2. CASE k # Len(s) + 1
      <4>1. k \in 1..Len(s) BY <2>6, <3>2
      <4>2. PICK y : y = q[k] OBVIOUS
      <4>3. y = s[k] BY <2>6, <4>1, <4>2
      <4>4. PICK id : id \in Registered(b.alias) /\ HadBy(b, id, y)
        BY <1>1, <2>1, <4>1, <4>3 DEF ThreadInv, Kept
      <4>5. id \in RegionId /\ regions[id] # Null BY <4>4 DEF Registered
      <4>6. HadBy(b, id, y)' /\ id \in Registered(b.alias)' BY <4>4, <4>5 DEF Later
      <4> QED BY <4>2, <4>6
    <3> QED BY <3>1, <3>2
  <2> QED BY <1>1, <2>1, <2>5, <2>8, KeptNext
<1> QED BY <1>2, <1>3

LEMMA MidStep ==
    ASSUME TypeOK, BatchTypeOK, NEW t \in Thread, Execute(t), Later, Mid(t),
           Refused(t) \/ Copied(t) \/ Looked(t) \/ Missed(t) \/ Stored(t)
    PROVE  Mid(t)'
<1>1. batch[t] # NoBatch /\ batch'[t] = batch[t] /\ Unfinished(t) /\ Success(t)
  BY DEF Execute, Unfinished
<1>2. CASE Refused(t) \/ Stored(t)
  BY <1>2 DEF Refused, Stored, Mid, Replies
<1>3. CASE Copied(t) \/ Looked(t) \/ Missed(t)
  <2>1. results' = results BY <1>3 DEF Copied, Looked, Missed
  <2>2. Unfinished(t)' /\ Success(t)' /\ Item(t)' = Item(t)
    BY <1>1, <2>1 DEF Unfinished, Success, Item
  <2>3. rid'[t] \in Registered(batch[t].alias)
    BY <1>1, <1>3 DEF Copied, Looked, Missed, Mid, Replies
  <2>4. rid'[t] \in Registered(batch[t].alias)'
    <3>1. PICK a, id : a = batch[t].alias /\ id = rid'[t] OBVIOUS
    <3>2. id \in Registered(a)' BY <2>3, <3>1 DEF Later
    <3> QED BY <1>1, <3>1, <3>2 DEF Registered
  <2>5. CASE Copied(t)
    <3>1. HasShape(copy[t], Item(t))' BY <2>2, <2>5 DEF Copied, HasShape
    <3> QED BY <1>1, <2>2, <2>4, <2>5, <3>1 DEF Copied, Mid, Replies
  <2>6. CASE Looked(t)
    BY <1>1, <2>2, <2>4, <2>6 DEF Looked, Mid, Replies
  <2>7. CASE Missed(t)
    BY <1>1, <2>2, <2>4, <2>7 DEF Missed, Mid, Replies
  <2> QED BY <1>3, <2>5, <2>6, <2>7
<1> QED BY <1>2, <1>3

\* A batch that has stored nothing is at its first command.
LEMMA AtFirst ==
    ASSUME BatchTypeOK, NEW t \in Thread, Progress(t), batch[t] # NoBatch, Success(t),
           stored[t] = <<>>
    PROVE  Item(t) = batch[t].items[1]
<1>1. PICK r, s : r = results[t] /\ s = stored[t] OBVIOUS
<1>2. r \in Seq(Outcomes) /\ Len(s) = 0 BY <1>1 DEF BatchTypeOK, Outcomes
<1>3. \A k \in 1..Len(r) : r[k] = "SUCCESS" /\ k <= Len(s)
  BY <1>1, <1>2 DEF Progress, InStep, Success
<1>4. Len(r) \in Nat BY <1>2
<1>5. Len(r) = 0
  <2>1. CASE Len(r) # 0
    <3>1. Len(r) \in 1..Len(r) BY <1>4, <2>1
    <3> QED BY <1>2, <1>3, <1>4, <3>1
  <2> QED BY <2>1
<1>6. Item(t) = batch[t].items[Len(r) + 1] BY <1>1 DEF Item
<1> QED BY <1>5, <1>6

LEMMA InertStep ==
    ASSUME TypeOK, BatchTypeOK, NEW t \in Thread, Execute(t), Later, ThreadInv(t),
           Refused(t) \/ Copied(t) \/ Looked(t) \/ Missed(t) \/ Stored(t)
    PROVE  Inert(t)'
<1>1. /\ batch[t] # NoBatch /\ batch'[t] = batch[t] /\ known'[t] = known[t]
      /\ Unfinished(t) /\ Success(t)
  BY DEF Execute, Unfinished
<1>2. ASSUME NEW b, NEW id \in known[t], b = batch[t], InPlainSight(b, id),
             stored[t] = <<>>, pc[t] \notin {"save", "save_image"}
      PROVE  stored'[t] = <<>> /\ pc'[t] \notin {"save", "save_image"}
  <2>1. Item(t) = b.items[1] BY <1>1, <1>2, AtFirst DEF ThreadInv
  <2>2. HadBy(b, id, Item(t)) BY <1>1, <1>2, <2>1 DEF ThreadInv, Recalled
  <2>3. Registered(b.alias) = {id} BY <1>2 DEF InPlainSight
  <2>4. CASE Refused(t) BY <1>2, <2>4 DEF Refused
  <2>5. CASE Copied(t)
    <3>1. b.command = "create_shape" /\ ~HasShape(regions[id], Item(t))
      BY <1>2, <2>3, <2>5 DEF Copied
    <3>2. <<"save", id>> \notin spoiled BY <1>2, <3>1 DEF InPlainSight
    <3> QED BY <2>2, <3>1, <3>2 DEF HadBy, Has
  <2>6. CASE Looked(t) BY <1>2, <2>6 DEF Looked
  <2>7. CASE Missed(t)
    <3>1. /\ b.command = "create_image" /\ native[t] = Item(t)
          /\ rid[t] \in Registered(b.alias)
      BY <1>1, <1>2, <2>7 DEF ThreadInv, Mid, Missed, Replies
    <3>2. rid[t] = id BY <2>3, <3>1
    <3>3. \E i \in Found(Item(t)) : images[i].regionId = id
      BY <2>2, <3>1 DEF HadBy, Has
    <3>4. \A i \in Found(Item(t)) : images[i].regionId = id
      BY <1>2, <2>1, <3>1 DEF InPlainSight
    <3> QED BY <2>7, <3>1, <3>2, <3>3, <3>4 DEF Missed
  <2>8. CASE Stored(t) BY <1>2, <2>8 DEF Stored
  <2> QED BY <2>4, <2>5, <2>6, <2>7, <2>8
<1> QED BY <1>1, <1>2, InertStays DEF ThreadInv

LEMMA ExecuteKeeps ==
    ASSUME TypeOK, BatchTypeOK, NEW t \in Thread, Execute(t), Later, ThreadInv(t)
    PROVE  ThreadInv(t)'
<1>1. Refused(t) \/ Copied(t) \/ Looked(t) \/ Missed(t) \/ Stored(t) BY Outcome
<1>2. Progress(t)'
  BY <1>1, ProgressStep DEF ThreadInv, Refused, Copied, Looked, Missed, Stored
<1>3. Kept(t)' BY <1>1, KeptStep DEF Refused, Copied, Looked, Missed
<1>4. Mid(t)' BY <1>1, MidStep DEF ThreadInv
<1>5. Recalled(t)'
  <2>1. batch[t] # NoBatch /\ batch'[t] = batch[t] /\ known'[t] = known[t]
    BY DEF Execute, Unfinished
  <2> QED BY <2>1, RecalledStays DEF ThreadInv
<1>6. Inert(t)' BY <1>1, InertStep
<1> QED BY <1>2, <1>3, <1>4, <1>5, <1>6 DEF ThreadInv

LEMMA StartKeeps ==
    ASSUME TypeOK, BatchTypeOK, NEW t \in Thread, StartBatch(t)
    PROVE  ThreadInv(t)'
<1>1. PICK b : b = batch'[t] OBVIOUS
<1>2. /\ pc[t] \in Replies /\ results'[t] = <<>> /\ stored'[t] = <<>>
      /\ known'[t] = HavingFirst(b)
      /\ pc' = pc /\ regions' = regions /\ images' = images /\ spoiled' = spoiled
  BY <1>1 DEF StartBatch, BatchTypeOK, vars, store, history
<1>3. Progress(t)'
  BY <1>2 DEF Progress, InStep, StopsAtFailure
<1>4. Kept(t)'
  <2>1. \A k \in 1..Len(<<>>) : FALSE OBVIOUS
  <2> QED BY <1>2, <2>1 DEF Kept
<1>5. Mid(t)' BY <1>2 DEF Mid, Replies
<1>6. Recalled(t)'
  <2>1. \A id \in HavingFirst(b) : id \in Registered(b.alias) /\ HadBy(b, id, b.items[1])
    BY DEF HavingFirst, HadBy
  <2>2. \A id \in HavingFirst(b) : id \in Registered(b.alias)' /\ HadBy(b, id, b.items[1])'
    BY <1>2, <2>1 DEF Registered, HadBy, Has, HasShape, Found
  <2> QED BY <1>1, <1>2, <2>2, RecalledNext
<1>7. Inert(t)' BY <1>2 DEF Inert, Replies
<1> QED BY <1>3, <1>4, <1>5, <1>6, <1>7 DEF ThreadInv

LEMMA SkipKeeps ==
    ASSUME TypeOK, BatchTypeOK, NEW t \in Thread, Skip(t), Later, ThreadInv(t)
    PROVE  ThreadInv(t)'
<1>1. /\ batch[t] # NoBatch /\ batch' = batch /\ stored' = stored /\ known' = known
      /\ pc' = pc /\ ~Success(t)
  BY DEF Skip, Unfinished, vars
<1>2. PICK b, r, s : b = batch[t] /\ r = results[t] /\ s = stored[t] OBVIOUS
<1>3. r \in Seq(Outcomes) /\ s \in Seq(ShapeId \cup NativeId) /\ InStep(b, r, s)
  BY <1>1, <1>2 DEF ThreadInv, Progress, BatchTypeOK, Outcomes
<1>4. \E k \in 1..Len(r) : r[k] # "SUCCESS" BY <1>1, <1>2, <1>3 DEF Success
<1>5. Progress(t)'
  <2>1. InStep(b, Append(r, "SKIPPED"), s) BY <1>3, <1>4, InStepOther
  <2>2. results'[t] = Append(r, "SKIPPED") BY <1>2 DEF Skip, Record, BatchTypeOK
  <2> QED BY <1>1, <1>2, <2>1, <2>2 DEF Progress, InStep, StopsAtFailure
<1>6. Kept(t)' BY <1>1, KeptStays DEF ThreadInv
<1>7. Mid(t)'
  <2>1. pc[t] \in Replies BY <1>1 DEF ThreadInv, Mid
  <2> QED BY <1>1, <2>1 DEF Mid, Replies
<1>8. Recalled(t)' BY <1>1, RecalledStays DEF ThreadInv
<1>9. Inert(t)' BY <1>1, InertStays DEF ThreadInv
<1> QED BY <1>5, <1>6, <1>7, <1>8, <1>9 DEF ThreadInv

LEMMA NoBatchKeeps ==
    ASSUME NEW t, batch'[t] = NoBatch PROVE ThreadInv(t)'
BY DEF ThreadInv, Progress, Kept, Mid, Recalled, Inert

BatchInv == \A t \in Thread : ThreadInv(t)

LEMMA BatchInductive ==
    TypeOK /\ ClaimsHold /\ BatchTypeOK /\ BatchInv /\ [BatchNext]_<<vars, batchVars>>
        => BatchInv'
<1> SUFFICES ASSUME TypeOK, ClaimsHold, BatchTypeOK, BatchInv,
                    [BatchNext]_<<vars, batchVars>>
             PROVE  BatchInv'
  OBVIOUS
<1>l. Later BY EverythingLater, BatchStepIsStep
<1>o. ASSUME NEW t \in Thread, OthersStay(t),
             \A u \in Thread \ {t} : /\ batch'[u] = batch[u] /\ results'[u] = results[u]
                                     /\ stored'[u] = stored[u] /\ known'[u] = known[u]
      PROVE  \A u \in Thread \ {t} : ThreadInv(u)'
  BY <1>l, <1>o, OtherBatchesStay DEF OthersStay, BatchInv
<1>1. ASSUME NEW t \in Thread, Single(t) PROVE BatchInv'
  <2>1. OthersStay(t) BY <1>1, EveryOperationGoes, GotoIs DEF Single
  <2>2. batch[t] = NoBatch /\ UNCHANGED batchVars BY <1>1 DEF Single
  <2>3. ThreadInv(t)' BY <2>2, NoBatchKeeps DEF batchVars
  <2> QED BY <1>o, <2>1, <2>2, <2>3 DEF batchVars, BatchInv
<1>2. ASSUME NEW t \in Thread, StartBatch(t) PROVE BatchInv'
  <2>1. OthersStay(t) BY <1>2 DEF StartBatch, vars, OthersStay
  <2>2. ThreadInv(t)' BY <1>2, StartKeeps
  <2> QED BY <1>2, <1>o, <2>1, <2>2 DEF StartBatch, BatchTypeOK, BatchInv
<1>3. ASSUME NEW t \in Thread, Execute(t) PROVE BatchInv'
  <2>1. OthersStay(t) BY <1>3, ExecuteOperates, EveryOperationGoes, GotoIs
  <2>2. ThreadInv(t)' BY <1>3, <1>l, ExecuteKeeps DEF BatchInv
  <2>3. \A u \in Thread \ {t} : results'[u] = results[u] /\ stored'[u] = stored[u]
    BY <1>3 DEF Execute, Record, BatchTypeOK
  <2> QED BY <1>3, <1>o, <2>1, <2>2, <2>3 DEF Execute, BatchInv
<1>4. ASSUME NEW t \in Thread, Skip(t) PROVE BatchInv'
  <2>1. OthersStay(t) BY <1>4 DEF Skip, vars, OthersStay
  <2>2. ThreadInv(t)' BY <1>4, <1>l, SkipKeeps DEF BatchInv
  <2> QED BY <1>4, <1>o, <2>1, <2>2 DEF Skip, Record, BatchTypeOK, BatchInv
<1>5. ASSUME NEW t \in Thread, FinishBatch(t) PROVE BatchInv'
  <2>1. OthersStay(t) BY <1>5 DEF FinishBatch, vars, OthersStay
  <2>2. ThreadInv(t)' BY <1>5, NoBatchKeeps DEF FinishBatch, BatchTypeOK
  <2> QED BY <1>5, <1>o, <2>1, <2>2 DEF FinishBatch, BatchTypeOK, BatchInv
<1>6. CASE LoseBatches
  BY <1>6, NoBatchKeeps DEF LoseBatches, BatchInv
<1>7. CASE UNCHANGED <<vars, batchVars>>
  BY <1>7, <1>l, OtherBatchesStay DEF vars, batchVars, BatchInv
<1> QED BY <1>1, <1>2, <1>3, <1>4, <1>5, <1>6, <1>7 DEF BatchNext

LEMMA BatchInvariant == BatchSpec => [](BatchTypeOK /\ BatchInv)
<1>1. BatchInit => BatchInv
  BY DEF BatchInit, BatchInv, ThreadInv, Progress, Kept, Mid, Recalled, Inert
<1> QED
  BY <1>1, BatchInductive, BatchIsTyped, BatchesAreCommands, ClaimsInvariant, PTL
  DEF BatchSpec

\* What a running batch reports is what it did, whatever the other threads do:
\* the commands with SUCCESS have stored their items and no others, and the
\* items are there unless an overtaken save took a shape away.
THEOREM ResultsAreTrue == BatchSpec => []ReportIsTrue
<1>1. BatchTypeOK /\ BatchInv => ReportIsTrue
  <2> SUFFICES ASSUME BatchTypeOK, BatchInv PROVE ReportIsTrue OBVIOUS
  <2>1. ASSUME NEW t \in Thread, batch[t] # NoBatch
        PROVE  /\ StopsAtFailure(results[t])
               /\ Done(t) = DOMAIN stored[t]
               /\ \A k \in Done(t) : /\ stored[t][k] = batch[t].items[k]
                                     /\ HasOrLost(batch[t], stored[t][k])
    <3>1. PICK b, r, s : b = batch[t] /\ r = results[t] /\ s = stored[t] OBVIOUS
    <3>2. /\ r \in Seq(Outcomes) /\ s \in Seq(ShapeId \cup NativeId) /\ InStep(b, r, s)
          /\ \A k \in 1..Len(s) : \E id \in Registered(b.alias) : HadBy(b, id, s[k])
      BY <2>1, <3>1 DEF BatchInv, ThreadInv, Progress, Kept, BatchTypeOK, Outcomes
    <3>3. DOMAIN s = 1..Len(s) /\ DOMAIN r = 1..Len(r) /\ Len(s) \in Nat /\ Len(r) \in Nat
      BY <3>2
    <3>4. \A k \in 1..Len(s) : k \in 1..Len(r) BY <3>2, <3>3 DEF InStep
    <3>5. {k \in DOMAIN r : r[k] = "SUCCESS"} = DOMAIN s BY <3>2, <3>3, <3>4 DEF InStep
    <3>6. Done(t) = DOMAIN s BY <3>1, <3>5 DEF Done
    <3>7. \A k \in DOMAIN s : s[k] = b.items[k] /\ HasOrLost(b, s[k])
      BY <3>2, <3>3 DEF InStep, HasOrLost, HadBy
    <3>8. StopsAtFailure(r) BY <3>2 DEF InStep
    <3> QED BY <3>1, <3>6, <3>7, <3>8
  <2> QED BY <2>1 DEF ReportIsTrue
<1> QED BY <1>1, BatchInvariant, PTL

\* A wizard sent again after its first command took effect changes nothing, as
\* long as nothing hides that effect from its commands.
THEOREM RepeatedBatchIsInert == BatchSpec => []RepetitionIsInert
<1>1. BatchInv => RepetitionIsInert
  BY DEF BatchInv, ThreadInv, Inert, RepetitionIsInert
<1> QED BY <1>1, BatchInvariant, PTL
=============================================================================
