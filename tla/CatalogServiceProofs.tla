------------------------- MODULE CatalogServiceProofs -------------------------
(***************************************************************************)
(* Proofs about CatalogService, for every set of products, fields, values  *)
(* and concurrent handlers: what a patch may write, with and without a     *)
(* race, and which request may bring a product back.                       *)
(***************************************************************************)
EXTENDS CatalogService, TLAPS

LEMMA RequestFields ==
  ASSUME TypeOK, NEW r \in Requests
  PROVE  /\ req[r] \in Request
         /\ req[r].pc \in Pcs
         /\ req[r].id \in Products \cup {None}
         /\ req[r].patch \in Patch
         /\ req[r].item \in Row \cup {None}
         /\ req[r].raced \in BOOLEAN
         /\ req[r].res \in Answers
<1>1. req[r] \in Request
  BY DEF TypeOK
<1> QED BY <1>1 DEF Request

LEMMA IdleIsRequest == IdleRequest \in Request
<1>1. NoPatch \in Patch
  BY DEF NoPatch, Patch
<1> QED BY <1>1 DEF IdleRequest, Request, Pcs, Answers

LEMMA RowNotNone == \A value \in Row : value # None
BY NoneAssumption DEF Row

LEMMA MergedFacts ==
  ASSUME NEW current \in Row, NEW patch \in Patch
  PROVE  /\ Merged(current, patch) \in Row
         /\ \A f \in Fields :
              Merged(current, patch)[f] =
                IF patch[f] = None THEN current[f] ELSE patch[f]
BY DEF Merged, Row, Patch

-----------------------------------------------------------------------------
(* What the control-flow operators change, field by field. *)

Others(r) == \A s \in Requests : s # r => req'[s] = req[s]

Same(s) ==
  /\ req'[s].pc = req[s].pc /\ req'[s].id = req[s].id
  /\ req'[s].patch = req[s].patch /\ req'[s].item = req[s].item

LEMMA ReplyFields ==
  ASSUME TypeOK, NEW r \in Requests, NEW code \in Answers, Reply(r, code)
  PROVE  req' \in [Requests -> Request] /\ Others(r) /\ req'[r].pc = "done"
<1> DEFINE q == [req[r] EXCEPT !.pc = "done", !.res = code]
<1>1. "done" \in Pcs
  BY DEF Pcs
<1>2. q \in Request /\ q.pc = "done"
  BY <1>1, RequestFields DEF Request
<1>3. req'[r] = q /\ Others(r) /\ req' \in [Requests -> Request]
  BY <1>2 DEF TypeOK, Reply, Others
<1> QED BY <1>2, <1>3

LEMMA CommitFields ==
  ASSUME TypeOK, NEW r \in Requests, NEW p \in Products, NEW value,
         NEW ack \in BOOLEAN, Commit(r, p, value, ack)
  PROVE  /\ req' \in [Requests -> Request]
         /\ req'[r].pc = "done"
         /\ \A s \in Requests : s # r =>
              Same(s) /\ (req'[s].raced <=> req[s].raced \/ req[s].id = p)
<1>1. "done" \in Pcs /\ "ok" \in Answers /\ "internal" \in Answers
  BY DEF Pcs, Answers
<1>2. req'[r] \in Request /\ req'[r].pc = "done"
  <2> DEFINE code == IF ack THEN "ok" ELSE "internal"
             q == [req[r] EXCEPT !.pc = "done", !.res = code]
  <2>1. code \in Answers
    BY <1>1
  <2>2. q \in Request /\ q.pc = "done"
    <3> HIDE DEF code
    <3> QED BY <1>1, <2>1, RequestFields DEF Request
  <2>3. req'[r] = q
    BY DEF Commit
  <2> QED BY <2>2, <2>3
<1>3. ASSUME NEW s \in Requests, s # r
      PROVE  /\ req'[s] \in Request /\ Same(s)
             /\ req'[s].raced <=> req[s].raced \/ req[s].id = p
  <2> DEFINE b == req[s].raced \/ req[s].id = p
             q == [req[s] EXCEPT !.raced = b]
  <2>1. /\ q \in Request /\ q.pc = req[s].pc /\ q.id = req[s].id
        /\ q.patch = req[s].patch /\ q.item = req[s].item /\ q.raced = b
    <3>1. b \in BOOLEAN
      OBVIOUS
    <3> HIDE DEF b
    <3> QED BY <3>1, RequestFields DEF Request
  <2>2. req'[s] = q
    BY <1>3 DEF Commit
  <2>3. req'[s].raced = b
    BY <2>1, <2>2
  <2> QED BY <2>1, <2>2, <2>3 DEF Same
<1>4. req' = [s \in Requests |-> req'[s]]
  BY DEF Commit
<1> QED BY <1>2, <1>3, <1>4

-----------------------------------------------------------------------------
(* The invariant, by kind of step. *)

(* A step that changes no row. *)
LEMMA LocalStep ==
  ASSUME IndInv, NEW r \in Requests, req' \in [Requests -> Request],
         Others(r), UNCHANGED <<row, past>>, BuiltOK(r)'
  PROVE  IndInv'
<1>1. TypeOK' /\ PastOK'
  BY DEF IndInv, TypeOK, PastOK
<1>2. ASSUME NEW s \in Requests, s # r PROVE BuiltOK(s)'
  BY <1>2 DEF IndInv, BuiltOK, Others
<1> QED BY <1>1, <1>2 DEF IndInv

LEMMA DoneBuilt ==
  ASSUME NEW r \in Requests, req'[r].pc = "done" PROVE BuiltOK(r)'
BY DEF BuiltOK

LEMMA RefusalInv ==
  ASSUME IndInv, NEW r \in Requests, NEW code \in Answers, Reply(r, code),
         UNCHANGED <<row, past>>
  PROVE  IndInv'
BY ReplyFields, DoneBuilt, LocalStep DEF IndInv

(* A step that commits a row, or the deletion of one. *)
LEMMA CommitStep ==
  ASSUME IndInv, NEW r \in Requests, NEW p \in Products,
         NEW value \in Row \cup {None}, NEW ack \in BOOLEAN,
         Commit(r, p, value, ack)
  PROVE  /\ IndInv'
         /\ row'[p] = value
         /\ \A o \in Products : o # p => row'[o] = row[o]
<1>1. TypeOK /\ PastOK /\ \A s \in Requests : BuiltOK(s)
  BY DEF IndInv
<1>2. /\ row' = [row EXCEPT ![p] = value]
      /\ past' = IF value = None THEN past
                 ELSE [past EXCEPT ![p] =
                         [f \in Fields |-> past[p][f] \cup {value[f]}]]
  BY DEF Commit
<1>3. /\ row'[p] = value
      /\ \A o \in Products : o # p => row'[o] = row[o]
      /\ row' \in [Products -> Row \cup {None}]
  BY <1>1, <1>2 DEF TypeOK
<1>4. /\ past' \in [Products -> [Fields -> SUBSET Values]]
      /\ \A o \in Products, f \in Fields : past[o][f] \subseteq past'[o][f]
      /\ value # None => \A f \in Fields : value[f] \in past'[p][f]
  <2>1. CASE value = None
    BY <1>1, <1>2, <2>1 DEF TypeOK
  <2>2. CASE value # None
    <3> DEFINE held == [f \in Fields |-> past[p][f] \cup {value[f]}]
    <3>1. held \in [Fields -> SUBSET Values]
      BY <1>1, <2>2 DEF TypeOK, Row
    <3>2. \A f \in Fields : held[f] = past[p][f] \cup {value[f]}
      OBVIOUS
    <3>3. past' = [past EXCEPT ![p] = held]
      BY <1>2, <2>2
    <3> HIDE DEF held
    <3> QED BY <1>1, <3>1, <3>2, <3>3 DEF TypeOK
  <2> QED BY <2>1, <2>2
<1>5. /\ req' \in [Requests -> Request] /\ req'[r].pc = "done"
      /\ \A s \in Requests : s # r =>
           Same(s) /\ (req'[s].raced <=> req[s].raced \/ req[s].id = p)
  BY <1>1, CommitFields
<1>6. TypeOK'
  BY <1>3, <1>4, <1>5 DEF TypeOK
<1>7. PastOK'
  <2>1. ASSUME NEW o \in Products, row'[o] # None, NEW f \in Fields
        PROVE  row'[o][f] \in past'[o][f]
    <3>1. CASE o = p
      BY <1>3, <1>4, <2>1, <3>1
    <3>2. CASE o # p
      BY <1>1, <1>3, <1>4, <2>1, <3>2 DEF PastOK
    <3> QED BY <3>1, <3>2
  <2> QED BY <2>1 DEF PastOK
<1>8. BuiltOK(r)'
  BY <1>5, DoneBuilt
<1>9. ASSUME NEW s \in Requests, s # r PROVE BuiltOK(s)'
  <2>1. BuiltOK(s) /\ Same(s) /\ (req'[s].raced <=> req[s].raced \/ req[s].id = p)
    BY <1>1, <1>5, <1>9
  <2>2. req[s].id \in Products \cup {None}
    BY <1>1, RequestFields
  <2>3. req[s].pc \in {"patch_update", "patch_upsert"} =>
          req[s].id \in Products
    BY <2>1, <2>2 DEF BuiltOK
  <2>4. req'[s].pc \in {"patch_update", "patch_upsert"} =>
          \A f \in Fields :
            IF req'[s].patch[f] = None
              THEN req'[s].item[f] \in past'[req'[s].id][f]
              ELSE req'[s].item[f] = req'[s].patch[f]
    BY <1>4, <2>1, <2>3 DEF BuiltOK, Same
  <2>5. req'[s].pc = "patch_update" /\ ~req'[s].raced =>
          /\ row'[req'[s].id] # None
          /\ req'[s].item = Merged(row'[req'[s].id], req'[s].patch)
    BY <1>3, <2>1, <2>3 DEF BuiltOK, Same
  <2>6. req'[s].pc = "patch_upsert" => req'[s].raced
    BY <2>1 DEF BuiltOK, Same
  <2>7. /\ req'[s].pc \notin {"idle", "create_insert", "done"} => req'[s].id # None
        /\ req'[s].pc = "create_insert" => req'[s].item # None
        /\ req'[s].pc \in {"patch_update", "patch_upsert"} => req'[s].item # None
    BY <2>1 DEF BuiltOK, Same
  <2> QED BY <2>4, <2>5, <2>6, <2>7 DEF BuiltOK
<1> QED BY <1>3, <1>6, <1>7, <1>8, <1>9 DEF IndInv

-----------------------------------------------------------------------------
(* The invariant, action by action. *)

LEMMA CreateInv ==
  ASSUME IndInv, NEW r \in Requests, NEW value \in Row, NEW valid \in BOOLEAN,
         Create(r, value, valid)
  PROVE  IndInv'
<1> DEFINE c == IF valid THEN "create_insert" ELSE "done"
           a == IF valid THEN "none" ELSE "validation"
           q == [IdleRequest EXCEPT !.item = value, !.pc = c, !.res = a]
<1>1. c \in Pcs /\ a \in Answers /\ c \in {"create_insert", "done"}
  BY DEF Pcs, Answers
<1>2. q \in Request /\ q.pc \in {"create_insert", "done"} /\ q.item = value
  <2> HIDE DEF c, a
  <2> QED BY <1>1, IdleIsRequest DEF Request
<1>3. req'[r] = q /\ Others(r) /\ req' \in [Requests -> Request]
  <2>1. req' = [req EXCEPT ![r] = q]
    BY DEF Create
  <2> HIDE DEF q
  <2> QED BY <1>2, <2>1 DEF IndInv, TypeOK, Others
<1>4. value # None
  BY RowNotNone
<1>5. BuiltOK(r)'
  <2> HIDE DEF q
  <2> QED BY <1>2, <1>3, <1>4 DEF BuiltOK
<1> QED BY <1>3, <1>5, LocalStep DEF Create

LEMMA PatchProductInv ==
  ASSUME IndInv, NEW r \in Requests, NEW p \in Products, NEW patch \in Patch,
         NEW valid \in BOOLEAN, PatchProduct(r, p, patch, valid)
  PROVE  IndInv'
<1> DEFINE accepted == valid /\ patch # NoPatch
           c == IF accepted THEN "patch_read" ELSE "done"
           a == IF accepted THEN "none" ELSE "validation"
           q == [IdleRequest EXCEPT !.id = p, !.patch = patch, !.pc = c,
                   !.res = a]
<1>1. c \in Pcs /\ a \in Answers /\ c \in {"patch_read", "done"}
  BY DEF Pcs, Answers
<1>2. q \in Request /\ q.pc \in {"patch_read", "done"} /\ q.id = p
  <2> HIDE DEF c, a
  <2> QED BY <1>1, IdleIsRequest DEF Request
<1>3. req'[r] = q /\ Others(r) /\ req' \in [Requests -> Request]
  <2>1. req' = [req EXCEPT ![r] = q]
    BY DEF PatchProduct
  <2> HIDE DEF q
  <2> QED BY <1>2, <2>1 DEF IndInv, TypeOK, Others
<1>4. BuiltOK(r)'
  <2> HIDE DEF q
  <2> QED BY <1>2, <1>3, NoneAssumption DEF BuiltOK
<1> QED BY <1>3, <1>4, LocalStep DEF PatchProduct

LEMMA DeleteProductInv ==
  ASSUME IndInv, NEW r \in Requests, NEW p \in Products, DeleteProduct(r, p)
  PROVE  IndInv'
<1> DEFINE q == [IdleRequest EXCEPT !.id = p, !.pc = "delete"]
<1>1. q \in Request /\ q.pc = "delete" /\ q.id = p
  BY IdleIsRequest DEF Request, Pcs
<1>2. req'[r] = q /\ Others(r) /\ req' \in [Requests -> Request]
  <2>1. req' = [req EXCEPT ![r] = q]
    BY DEF DeleteProduct
  <2> HIDE DEF q
  <2> QED BY <1>1, <2>1 DEF IndInv, TypeOK, Others
<1>3. BuiltOK(r)'
  <2> HIDE DEF q
  <2> QED BY <1>1, <1>2, NoneAssumption DEF BuiltOK
<1> QED BY <1>2, <1>3, LocalStep DEF DeleteProduct

(* The read of a patch binds the row it will save. *)
LEMMA PatchReadInv ==
  ASSUME IndInv, NEW r \in Requests, PatchRead(r)
  PROVE  IndInv'
<1> DEFINE p == req[r].id
           patch == req[r].patch
           item == Merged(row[p], patch)
           q == [req[r] EXCEPT !.pc = "patch_update", !.raced = FALSE,
                   !.item = item]
<1>1. /\ TypeOK /\ PastOK /\ BuiltOK(r) /\ req[r].pc = "patch_read"
      /\ UNCHANGED <<row, past>>
  BY DEF IndInv, PatchRead
<1>2. CASE row[p] = None
  <2>1. Reply(r, "notfound") /\ "notfound" \in Answers
    BY <1>2 DEF PatchRead, Answers
  <2> QED BY <1>1, <2>1, RefusalInv
<1>3. CASE row[p] # None
  <2>1. p \in Products /\ patch \in Patch
    BY <1>1, RequestFields DEF BuiltOK
  <2>2. row[p] \in Row
    BY <1>1, <1>3, <2>1 DEF TypeOK
  <2>3. /\ item \in Row
        /\ \A f \in Fields :
             item[f] = IF patch[f] = None THEN row[p][f] ELSE patch[f]
    BY <2>1, <2>2, MergedFacts
  <2>4. \A f \in Fields : row[p][f] \in past[p][f]
    BY <1>1, <1>3, <2>1 DEF PastOK
  <2>5. item # None /\ p # None
    BY <2>1, <2>3, RowNotNone, NoneAssumption
  <2>6. /\ q \in Request /\ q.pc = "patch_update" /\ q.id = p
        /\ q.patch = patch /\ q.item = item
    <3>1. "patch_update" \in Pcs
      BY DEF Pcs
    <3> HIDE DEF item
    <3> QED BY <1>1, <2>3, <3>1, RequestFields DEF Request
  <2>7. req'[r] = q /\ Others(r) /\ req' \in [Requests -> Request]
    <3>1. req' = [req EXCEPT ![r] = q]
      BY <1>3 DEF PatchRead
    <3> HIDE DEF q
    <3> QED BY <1>1, <2>6, <3>1 DEF TypeOK, Others
  <2>8. /\ req'[r].pc = "patch_update" /\ req'[r].id = p
        /\ req'[r].patch = patch /\ req'[r].item = item
    BY <2>6, <2>7
  <2>9. BuiltOK(r)'
    <3>1. \A f \in Fields : IF patch[f] = None THEN item[f] \in past[p][f]
                                               ELSE item[f] = patch[f]
      BY <2>3, <2>4
    <3>2. row'[p] # None /\ item = Merged(row'[p], patch)
      BY <1>1, <1>3
    <3> HIDE DEF item, q
    <3> QED BY <1>1, <2>5, <2>8, <3>1, <3>2 DEF BuiltOK
  <2> QED BY <1>1, <2>7, <2>9, LocalStep
<1> QED BY <1>2, <1>3

(* A step that commits, and the row it commits. *)
Writes(r, p, value) ==
  /\ row'[p] = value
  /\ \A o \in Products : o # p => row'[o] = row[o]

LEMMA CreateInsertInv ==
  ASSUME IndInv, NEW r \in Requests, NEW p \in Products, NEW ack \in BOOLEAN,
         CreateInsert(r, p, ack)
  PROVE  IndInv' /\ Writes(r, p, req[r].item)
<1>1. req[r].item \in Row \cup {None} /\ Commit(r, p, req[r].item, ack)
  BY RequestFields DEF IndInv, CreateInsert
<1> QED BY <1>1, CommitStep DEF Writes

LEMMA PatchUpdateInv ==
  ASSUME IndInv, NEW r \in Requests, NEW ack \in BOOLEAN, PatchUpdate(r, ack)
  PROVE  /\ IndInv'
         /\ req[r].id \in Products
         /\ \/ UNCHANGED row
            \/ row[req[r].id] # None /\ Writes(r, req[r].id, req[r].item)
<1> DEFINE p == req[r].id
<1>1. /\ TypeOK /\ BuiltOK(r) /\ req[r].pc = "patch_update"
      /\ p \in Products /\ req[r].item \in Row \cup {None}
  BY RequestFields DEF IndInv, PatchUpdate, BuiltOK
<1>2. CASE row[p] # None
  <2>1. Commit(r, p, req[r].item, ack)
    BY <1>2 DEF PatchUpdate
  <2> QED BY <1>1, <1>2, <2>1, CommitStep DEF Writes
<1>3. CASE row[p] = None
  <2> DEFINE q == [req[r] EXCEPT !.pc = "patch_upsert"]
  <2>1. Goto(r, "patch_upsert") /\ UNCHANGED <<row, past>>
    BY <1>3 DEF PatchUpdate
  <2>2. /\ q \in Request /\ q.pc = "patch_upsert" /\ q.id = p
        /\ q.patch = req[r].patch /\ q.item = req[r].item
        /\ q.raced = req[r].raced
    BY <1>1, RequestFields DEF Request, Pcs
  <2>3. req'[r] = q /\ Others(r) /\ req' \in [Requests -> Request]
    <3>1. req' = [req EXCEPT ![r] = q]
      BY <2>1 DEF Goto
    <3> HIDE DEF q
    <3> QED BY <1>1, <2>2, <3>1 DEF TypeOK, Others
  <2>4. req[r].raced
    BY <1>1, <1>3 DEF BuiltOK
  <2>5. BuiltOK(r)'
    <3> HIDE DEF q
    <3> QED BY <1>1, <2>1, <2>2, <2>3, <2>4 DEF BuiltOK
  <2> QED BY <1>1, <2>1, <2>3, <2>5, LocalStep
<1> QED BY <1>2, <1>3

LEMMA PatchUpsertInv ==
  ASSUME IndInv, NEW r \in Requests, NEW ack \in BOOLEAN, PatchUpsert(r, ack)
  PROVE  IndInv' /\ req[r].id \in Products /\ Writes(r, req[r].id, req[r].item)
<1>1. /\ req[r].id \in Products /\ req[r].item \in Row \cup {None}
      /\ Commit(r, req[r].id, req[r].item, ack)
  BY RequestFields DEF IndInv, PatchUpsert, BuiltOK
<1> QED BY <1>1, CommitStep DEF Writes

LEMMA DeleteRowInv ==
  ASSUME IndInv, NEW r \in Requests, NEW ack \in BOOLEAN, DeleteRow(r, ack)
  PROVE  /\ IndInv'
         /\ req[r].id \in Products
         /\ UNCHANGED row \/ Writes(r, req[r].id, None)
<1>1. TypeOK /\ req[r].id \in Products /\ "notfound" \in Answers
  BY RequestFields DEF IndInv, DeleteRow, BuiltOK, Answers
<1>2. CASE row[req[r].id] = None
  <2>1. Reply(r, "notfound") /\ UNCHANGED <<row, past>>
    BY <1>2 DEF DeleteRow
  <2> QED BY <1>1, <2>1, RefusalInv
<1>3. CASE row[req[r].id] # None
  <2>1. Commit(r, req[r].id, None, ack)
    BY <1>3 DEF DeleteRow
  <2> QED BY <1>1, <2>1, CommitStep DEF Writes
<1> QED BY <1>2, <1>3

LEMMA AnsweredInv ==
  ASSUME IndInv, NEW r \in Requests, Answered(r)
  PROVE  IndInv'
<1>1. req' = [req EXCEPT ![r] = IdleRequest] /\ UNCHANGED <<row, past>>
  BY DEF Answered
<1>2. req'[r] = IdleRequest /\ Others(r) /\ req' \in [Requests -> Request]
  BY <1>1, IdleIsRequest DEF IndInv, TypeOK, Others
<1>3. BuiltOK(r)'
  BY <1>2 DEF IdleRequest, BuiltOK
<1> QED BY <1>1, <1>2, <1>3, LocalStep

LEMMA CrashInv ==
  ASSUME IndInv, Crash
  PROVE  IndInv'
<1>1. req' = [r \in Requests |-> IdleRequest] /\ UNCHANGED <<row, past>>
  BY DEF Crash
<1>2. TypeOK' /\ PastOK'
  BY <1>1, IdleIsRequest DEF IndInv, TypeOK, PastOK
<1>3. \A r \in Requests : BuiltOK(r)'
  BY <1>1 DEF IdleRequest, BuiltOK
<1> QED BY <1>2, <1>3 DEF IndInv

-----------------------------------------------------------------------------
(* The theorems. *)

LEMMA InitInv == Init => IndInv
<1> SUFFICES ASSUME Init PROVE IndInv
  OBVIOUS
<1>1. TypeOK /\ PastOK
  BY IdleIsRequest DEF Init, TypeOK, PastOK
<1>2. \A r \in Requests : BuiltOK(r)
  BY DEF Init, IdleRequest, BuiltOK
<1> QED BY <1>1, <1>2 DEF IndInv

LEMMA NextInv == IndInv /\ [Next]_vars => IndInv'
<1> SUFFICES ASSUME IndInv, [Next]_vars PROVE IndInv'
  OBVIOUS
<1>1. CASE UNCHANGED vars
  BY <1>1 DEF vars, IndInv, TypeOK, PastOK, BuiltOK
<1>2. ASSUME NEW r \in Requests, Arrive(r) PROVE IndInv'
  BY <1>2, CreateInv, PatchProductInv, DeleteProductInv DEF Arrive
<1>3. ASSUME NEW r \in Requests, Serve(r) PROVE IndInv'
  BY <1>3, CreateInsertInv, PatchReadInv, PatchUpdateInv, PatchUpsertInv,
     DeleteRowInv, AnsweredInv DEF Serve
<1>4. ASSUME NEW r \in Requests, Fail(r) PROVE IndInv'
  BY <1>4, RefusalInv DEF Fail, Answers
<1>5. CASE Crash
  BY <1>5, CrashInv
<1> QED BY <1>1, <1>2, <1>3, <1>4, <1>5 DEF Next

(* The invariant behind the properties of the catalog: the row a patch is
   about to save is the row it read with the named fields changed, its other
   fields are values those fields have had, and only a patch whose product
   changed under it gets to the INSERT of Save. *)
THEOREM Invariance == Spec => []IndInv
BY InitInv, NextInv, PTL DEF Spec

(* Every row and handler of the catalog service stays in its type: a
   committed row has a value in every column. *)
THEOREM TypeCorrect == Spec => []TypeOK
<1>1. IndInv => TypeOK
  BY DEF IndInv
<1> QED BY <1>1, Invariance, PTL

LEMMA SavedRow ==
  ASSUME IndInv, NEW r \in Requests, Saves(r), row'[req[r].id] # row[req[r].id]
  PROVE  /\ req[r].pc \in {"patch_update", "patch_upsert"}
         /\ req[r].id \in Products
         /\ row'[req[r].id] = req[r].item
<1> PICK ack \in BOOLEAN : PatchUpdate(r, ack) \/ PatchUpsert(r, ack)
  BY DEF Saves
<1> QED BY PatchUpdateInv, PatchUpsertInv DEF PatchUpdate, PatchUpsert, Writes

(* PatchProduct without a race changes exactly the fields the request names,
   of a row that is still there. *)
THEOREM PatchIsExactWhenAlone == Spec => ExactWhenAlone
<1> DEFINE Rule(r) ==
      LET p == req[r].id IN
      Saves(r) /\ row'[p] # row[p] /\ ~req[r].raced =>
        /\ row[p] # None
        /\ \A f \in Fields :
             row'[p][f] = IF req[r].patch[f] = None THEN row[p][f]
                                                    ELSE req[r].patch[f]
<1>1. ASSUME IndInv, NEW r \in Requests PROVE Rule(r)
  <2> DEFINE p == req[r].id
  <2> SUFFICES ASSUME Saves(r), row'[p] # row[p], ~req[r].raced
               PROVE  /\ row[p] # None
                      /\ \A f \in Fields :
                           row'[p][f] = IF req[r].patch[f] = None
                                          THEN row[p][f] ELSE req[r].patch[f]
    OBVIOUS
  <2>1. /\ BuiltOK(r) /\ p \in Products /\ row'[p] = req[r].item
        /\ req[r].pc \in {"patch_update", "patch_upsert"}
    BY <1>1, SavedRow DEF IndInv
  <2>2. row[p] # None /\ req[r].item = Merged(row[p], req[r].patch)
    BY <2>1 DEF BuiltOK
  <2>3. row[p] \in Row /\ req[r].patch \in Patch
    BY <1>1, <2>1, <2>2, RequestFields DEF IndInv, TypeOK
  <2> QED BY <2>1, <2>2, <2>3, MergedFacts
<1>2. IndInv => [\A r \in Requests : Rule(r)]_vars
  BY <1>1
<1> QED BY <1>2, Invariance, PTL DEF ExactWhenAlone

(* PatchProduct that lost a race writes back at worst a value the field has
   had: Save never invents one. *)
THEOREM PatchRevertsAtMost == Spec => RevertsAtMost
<1> DEFINE Rule(r) ==
      LET p == req[r].id IN
      Saves(r) /\ row'[p] # row[p] =>
        \A f \in Fields :
          req[r].patch[f] = None => row'[p][f] \in past[p][f]
<1>1. ASSUME IndInv, NEW r \in Requests PROVE Rule(r)
  BY <1>1, SavedRow DEF IndInv, BuiltOK
<1>2. IndInv => [\A r \in Requests : Rule(r)]_vars
  BY <1>1
<1> QED BY <1>2, Invariance, PTL DEF RevertsAtMost

(* A deleted product is brought back by the Save of a patch that had read it
   before the deletion, and by nothing else. *)
THEOREM OnlyRacingPatchesResurrect == Spec => OnlyRacesResurrect
<1> DEFINE Rule(p) ==
      row[p] = None /\ row'[p] # None /\ (\E f \in Fields : past[p][f] # {})
        => \E r \in Requests :
             /\ req[r].pc = "patch_upsert"
             /\ req[r].id = p
             /\ req[r].raced
<1>1. ASSUME IndInv, [Next]_vars, NEW p \in Products PROVE Rule(p)
  <2> SUFFICES ASSUME row[p] = None, row'[p] # None,
                      \E f \in Fields : past[p][f] # {}
               PROVE  \E r \in Requests : /\ req[r].pc = "patch_upsert"
                                          /\ req[r].id = p
                                          /\ req[r].raced
    OBVIOUS
  <2>1. PICK r \in Requests, ack \in BOOLEAN :
          \/ \E o \in Products : CreateInsert(r, o, ack)
          \/ PatchUpdate(r, ack) \/ PatchUpsert(r, ack) \/ DeleteRow(r, ack)
    BY <1>1 DEF Next, Arrive, Serve, vars, Create, PatchProduct, DeleteProduct,
                PatchRead, Answered, Fail, Crash
  <2>2. ASSUME NEW o \in Products, CreateInsert(r, o, ack) PROVE FALSE
    BY <1>1, <2>2, CreateInsertInv DEF CreateInsert, Writes
  <2>3. ~PatchUpdate(r, ack)
    BY <1>1, PatchUpdateInv DEF Writes
  <2>4. ~DeleteRow(r, ack)
    BY <1>1, DeleteRowInv DEF Writes
  <2>5. PatchUpsert(r, ack)
    BY <2>1, <2>2, <2>3, <2>4
  <2>6. req[r].id = p /\ req[r].pc = "patch_upsert" /\ BuiltOK(r)
    BY <1>1, <2>5, PatchUpsertInv DEF PatchUpsert, Writes, IndInv
  <2> QED BY <2>6 DEF BuiltOK
<1>2. IndInv /\ [Next]_vars => [\A p \in Products : Rule(p)]_vars
  BY <1>1
<1> QED BY <1>2, Invariance, PTL DEF Spec, OnlyRacesResurrect

=============================================================================
