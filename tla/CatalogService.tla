---------------------------- MODULE CatalogService ----------------------------
(***************************************************************************)
(* The catalog service (services/catalog): administrators create, patch    *)
(* and delete products through concurrent handlers.  PatchProduct reads    *)
(* the row, changes the fields the request names and writes the whole row  *)
(* back with gorm's Save: an UPDATE of every column and, when that matched *)
(* no row, an INSERT ... ON CONFLICT DO UPDATE.  Each statement is a       *)
(* transaction of its own, hence one step.                                 *)
(***************************************************************************)
EXTENDS Naturals

CONSTANTS
  Products,   \* product ids (uuid.New never repeats one)
  Fields,     \* name, description, price, count
  Values,     \* values a field may hold
  Zero,       \* the zero value of a field's type
  Requests,   \* handler goroutines that may be in flight together
  None        \* no row; a field a patch does not name; no product

ASSUME NoneAssumption == None \notin Products \cup Values \cup [Fields -> Values]
ASSUME ZeroAssumption == Zero \in Values

VARIABLES
  row,        \* row of each product, or None
  req,        \* what each handler goroutine is doing
  past        \* history: the values each field of a product has held

vars == <<row, req, past>>

Row == [Fields -> Values]
Patch == [Fields -> Values \cup {None}]

(***************************************************************************)
(* A request: its operation, product and patch, its next statement (pc),   *)
(* the row it has built (item) and its answer (res).  "raced" is history:  *)
(* the product has changed since PatchProduct read it.                     *)
(***************************************************************************)
Pcs == {"idle", "create_insert", "patch_read", "patch_update",
        "patch_upsert", "delete", "done"}

Answers == {"none", "ok", "validation", "notfound", "internal"}

NoPatch == [f \in Fields |-> None]

Request == [pc: Pcs, id: Products \cup {None}, patch: Patch,
            item: Row \cup {None}, raced: BOOLEAN, res: Answers]

IdleRequest == [pc |-> "idle", id |-> None, patch |-> NoPatch,
                item |-> None, raced |-> FALSE, res |-> "none"]

TypeOK ==
  /\ row \in [Products -> Row \cup {None}]
  /\ req \in [Requests -> Request]
  /\ past \in [Products -> [Fields -> SUBSET Values]]

Init ==
  /\ row = [p \in Products |-> None]
  /\ req = [r \in Requests |-> IdleRequest]
  /\ past = [p \in Products |-> [f \in Fields |-> {}]]

-----------------------------------------------------------------------------
Goto(r, label) == req' = [req EXCEPT ![r] = [@ EXCEPT !.pc = label]]

Reply(r, code) ==
  req' = [req EXCEPT ![r] = [@ EXCEPT !.pc = "done", !.res = code]]

(* Handler r commits "value" as the row of p and answers; the others that
   have read p hold an outdated row. *)
Commit(r, p, value, acknowledged) ==
  /\ row' = [row EXCEPT ![p] = value]
  /\ past' = IF value = None THEN past
             ELSE [past EXCEPT ![p] =
                     [f \in Fields |-> past[p][f] \cup {value[f]}]]
  /\ req' = [s \in Requests |->
               IF s = r
                 THEN [req[r] EXCEPT !.pc = "done",
                         !.res = IF acknowledged THEN "ok" ELSE "internal"]
                 ELSE [req[s] EXCEPT !.raced = @ \/ req[s].id = p]]

(* Name and description must not be blank, nor the price negative. *)
Create(r, value, valid) ==
  /\ req[r].pc = "idle"
  /\ req' = [req EXCEPT ![r] =
       [IdleRequest EXCEPT !.item = value,
          !.pc  = IF valid THEN "create_insert" ELSE "done",
          !.res = IF valid THEN "none" ELSE "validation"]]
  /\ UNCHANGED <<row, past>>

(* uuid.New gives the product an id no row has ever had. *)
CreateInsert(r, p, acknowledged) ==
  /\ req[r].pc = "create_insert"
  /\ \A f \in Fields : past[p][f] = {}
  /\ Commit(r, p, req[r].item, acknowledged)

-----------------------------------------------------------------------------
(* A patch names at least one field, and only valid values. *)
PatchProduct(r, p, patch, valid) ==
  /\ req[r].pc = "idle"
  /\ LET accepted == valid /\ patch # NoPatch IN
     req' = [req EXCEPT ![r] =
       [IdleRequest EXCEPT !.id = p, !.patch = patch,
          !.pc  = IF accepted THEN "patch_read" ELSE "done",
          !.res = IF accepted THEN "none" ELSE "validation"]]
  /\ UNCHANGED <<row, past>>

(* Mutant of Merged: fields without pointers, so that a field the request
   does not name arrives as its zero value. *)
Merged_Zero(current, patch) ==
  [f \in Fields |-> IF patch[f] = None THEN Zero ELSE patch[f]]

(* Mutant of Merged: the pointers of the request are stored as they are. *)
Merged_Nulls(current, patch) == [f \in Fields |-> patch[f]]

Merged(current, patch) ==
  [f \in Fields |-> IF patch[f] = None THEN current[f] ELSE patch[f]]

(* Mutant of PatchRead: Find in place of First, which leaves the zero product
   when there is no row. *)
PatchRead_Find(r) ==
  LET current == row[req[r].id]
      found   == IF current = None THEN [f \in Fields |-> Zero] ELSE current
  IN
  /\ req[r].pc = "patch_read"
  /\ req' = [req EXCEPT ![r] =
       [@ EXCEPT !.pc = "patch_update", !.raced = FALSE,
                 !.item = Merged(found, req[r].patch)]]
  /\ UNCHANGED <<row, past>>

PatchRead(r) ==
  LET current == row[req[r].id] IN
  /\ req[r].pc = "patch_read"
  /\ IF current = None
       THEN Reply(r, "notfound")
       ELSE req' = [req EXCEPT ![r] =
              [@ EXCEPT !.pc = "patch_update", !.raced = FALSE,
                        !.item = Merged(current, req[r].patch)]]
  /\ UNCHANGED <<row, past>>

PatchUpdate(r, acknowledged) ==
  /\ req[r].pc = "patch_update"
  /\ IF row[req[r].id] # None
       THEN Commit(r, req[r].id, req[r].item, acknowledged)
       ELSE Goto(r, "patch_upsert") /\ UNCHANGED <<row, past>>

PatchUpsert(r, acknowledged) ==
  /\ req[r].pc = "patch_upsert"
  /\ Commit(r, req[r].id, req[r].item, acknowledged)

-----------------------------------------------------------------------------
DeleteProduct(r, p) ==
  /\ req[r].pc = "idle"
  /\ req' = [req EXCEPT ![r] = [IdleRequest EXCEPT !.id = p, !.pc = "delete"]]
  /\ UNCHANGED <<row, past>>

DeleteRow(r, acknowledged) ==
  /\ req[r].pc = "delete"
  /\ IF row[req[r].id] = None
       THEN Reply(r, "notfound") /\ UNCHANGED <<row, past>>
       ELSE Commit(r, req[r].id, None, acknowledged)

-----------------------------------------------------------------------------
Answered(r) ==
  /\ req[r].pc = "done"
  /\ req' = [req EXCEPT ![r] = IdleRequest]
  /\ UNCHANGED <<row, past>>

(* A statement that did not take effect returns an error. *)
Fail(r) ==
  /\ req[r].pc \notin {"idle", "done"}
  /\ Reply(r, "internal")
  /\ UNCHANGED <<row, past>>

(* The process is killed and restarted. *)
Crash ==
  /\ \E r \in Requests : req[r].pc # "idle"
  /\ req' = [r \in Requests |-> IdleRequest]
  /\ UNCHANGED <<row, past>>

Arrive(r) ==
  \/ \E value \in Row, valid \in BOOLEAN : Create(r, value, valid)
  \/ \E p \in Products, patch \in Patch, valid \in BOOLEAN :
       PatchProduct(r, p, patch, valid)
  \/ \E p \in Products : DeleteProduct(r, p)

Serve(r) ==
  \/ \E p \in Products, ack \in BOOLEAN : CreateInsert(r, p, ack)
  \/ PatchRead(r)
  \/ \E ack \in BOOLEAN :
       PatchUpdate(r, ack) \/ PatchUpsert(r, ack) \/ DeleteRow(r, ack)
  \/ Answered(r)

Next ==
  \/ \E r \in Requests : Arrive(r) \/ Serve(r) \/ Fail(r)
  \/ Crash

Spec == Init /\ [][Next]_vars

-----------------------------------------------------------------------------
(* Properties. *)

Saves(r) == \E ack \in BOOLEAN : PatchUpdate(r, ack) \/ PatchUpsert(r, ack)

(* A patch nobody raced with changes the row it read, which is still there,
   in exactly the fields it names. *)
ExactWhenAlone ==
  [][\A r \in Requests :
       LET p == req[r].id IN
       Saves(r) /\ row'[p] # row[p] /\ ~req[r].raced =>
         /\ row[p] # None
         /\ \A f \in Fields :
              row'[p][f] = IF req[r].patch[f] = None THEN row[p][f]
                                                     ELSE req[r].patch[f]]_vars

(* A patch that lost a race may write back what a field was, never what it
   never was: a field it does not name gets a value the field has had. *)
RevertsAtMost ==
  [][\A r \in Requests :
       LET p == req[r].id IN
       Saves(r) /\ row'[p] # row[p] =>
         \A f \in Fields :
           req[r].patch[f] = None => row'[p][f] \in past[p][f]]_vars

(* A row that a patch puts back after a deletion was there when the patch
   read it: no other request brings a product back. *)
OnlyRacesResurrect ==
  [][\A p \in Products :
       row[p] = None /\ row'[p] # None /\ (\E f \in Fields : past[p][f] # {})
         => \E r \in Requests :
              /\ req[r].pc = "patch_upsert"
              /\ req[r].id = p
              /\ req[r].raced]_vars

(***************************************************************************)
(* The inductive invariant behind these: what the row a patch is about to  *)
(* save has to do with the row it read and with the values fields have had.*)
(***************************************************************************)
PastOK ==
  \A p \in Products :
    row[p] # None => \A f \in Fields : row[p][f] \in past[p][f]

BuiltOK(r) ==
  LET p == req[r].id
      patch == req[r].patch
      item == req[r].item
  IN
  /\ req[r].pc \notin {"idle", "create_insert", "done"} => p # None
  /\ req[r].pc = "create_insert" => item # None
  /\ req[r].pc \in {"patch_update", "patch_upsert"} =>
       /\ item # None
       /\ \A f \in Fields :
            IF patch[f] = None THEN item[f] \in past[p][f]
                               ELSE item[f] = patch[f]
  /\ req[r].pc = "patch_update" /\ ~req[r].raced =>
       row[p] # None /\ item = Merged(row[p], patch)
  /\ req[r].pc = "patch_upsert" => req[r].raced

IndInv == TypeOK /\ PastOK /\ \A r \in Requests : BuiltOK(r)

-----------------------------------------------------------------------------
(* What the repository says and the code does not do. *)

(* readme.md says PATCH updates fields of the product, and the fields of
   PatchProductRequest are optional: a field the request does not name keeps
   the value it has. *)
PatchKeepsOtherFields ==
  [][\A r \in Requests :
       LET p == req[r].id IN
       Saves(r) /\ row[p] # None /\ row'[p] # None =>
         \A f \in Fields : req[r].patch[f] = None => row'[p][f] = row[p][f]]_vars
=============================================================================
