----------------------------- MODULE MachinesService -----------------------------
(***************************************************************************)
(* MachinesService (src/src/machines/machines.service.ts) behind its three *)
(* controllers: find() and then save() or softRemove(), with other         *)
(* requests in between.                                                    *)
(*                                                                         *)
(* save() of TypeORM reads the row again and writes every column that      *)
(* differs from the entity, deletedAt included; that is one step here.     *)
(* The version column plays no part in it.                                 *)
(***************************************************************************)
EXTENDS MachineStore

CONSTANT Requests   \* requests that may be under way at a time

ASSUME DataAssumption ==
  /\ Machines \cap Schemas = {}
  /\ Null \notin Texts \cup Schemas
  /\ Undefined \notin Texts \cup Schemas \cup {Null}
  /\ \A i \in Ids : Absent \notin Row(i)

VARIABLES
  op,      \* op[r]: what request r is about to do to its row, "idle" for nothing
  target,  \* target[r]: the identifier of its row
  read,    \* read[r]: the row as findOne() returned it
  body     \* body[r]: the body of the PATCH

requestVars == <<op, target, read, body>>
machineVars == <<rows, requestVars>>

NoBody == [note |-> Undefined, ref |-> Undefined]

MachinesTypeOK ==
  /\ StoreTypeOK
  /\ op \in [Requests -> {"idle", "save", "softRemove"}]
  /\ target \in [Requests -> Ids \cup {Absent}]
  /\ DOMAIN read = Requests
  /\ DOMAIN body = Requests
  /\ \A r \in Requests : op[r] # "idle" =>
       /\ target[r] \in Ids
       /\ read[r] \in Row(target[r])
       /\ body[r] \in Dto(target[r])

MachinesInit ==
  /\ StoreInit
  /\ op = [r \in Requests |-> "idle"]
  /\ target = [r \in Requests |-> Absent]
  /\ read = [r \in Requests |-> Absent]
  /\ body = [r \in Requests |-> NoBody]

-----------------------------------------------------------------------------
(* Creating and restoring: one statement each.                             *)

(* A reference to a row that does not exist fails on the foreign key.      *)
CreateMachine(i, note, ref) ==
  /\ ~Exists(i)
  /\ ref \in Referable
  /\ rows' = [rows EXCEPT ![i] = [note |-> note, ref |-> ref, deleted |-> FALSE]]
  /\ UNCHANGED requestVars

(* recover() of an identifier without a row does nothing.                  *)
RestoreMachine(i) ==
  /\ Exists(i)
  /\ rows' = [rows EXCEPT ![i].deleted = FALSE]
  /\ UNCHANGED requestVars

-----------------------------------------------------------------------------
(* Updating and removing: findOne(), which does not see removed rows, and  *)
(* answers 404 for them, then the write.                                   *)

Find_WithDeleted(r, i, o, dto) ==
  /\ op[r] = "idle"
  /\ Exists(i)
  /\ op' = [op EXCEPT ![r] = o]
  /\ target' = [target EXCEPT ![r] = i]
  /\ read' = [read EXCEPT ![r] = rows[i]]
  /\ body' = [body EXCEPT ![r] = dto]
  /\ UNCHANGED rows

Find(r, i, o, dto) ==
  /\ op[r] = "idle"
  /\ IsLive(i)
  /\ op' = [op EXCEPT ![r] = o]
  /\ target' = [target EXCEPT ![r] = i]
  /\ read' = [read EXCEPT ![r] = rows[i]]
  /\ body' = [body EXCEPT ![r] = dto]
  /\ UNCHANGED rows

(* a ?? b, and a !== undefined ? a : b                                     *)
Coalesce(a, b) == IF a \in {Null, Undefined} THEN b ELSE a
OrElse(a, b) == IF a = Undefined THEN b ELSE a

(* Object.assign(): field by field for a machine, the whole body else.     *)
Assigned_Unguarded(i, row, dto) == [row EXCEPT !.note = dto.note, !.ref = dto.ref]

Assigned(i, row, dto) ==
  [note    |-> IF i \in Machines THEN Coalesce(dto.note, row.note) ELSE OrElse(dto.note, row.note),
   ref     |-> OrElse(dto.ref, row.ref),
   deleted |-> row.deleted]

Entity(r) == Assigned(target[r], read[r], body[r])

Answered(r) ==
  /\ op' = [op EXCEPT ![r] = "idle"]
  /\ target' = [target EXCEPT ![r] = Absent]
  /\ read' = [read EXCEPT ![r] = Absent]
  /\ body' = [body EXCEPT ![r] = NoBody]

(* save(), unless the foreign key refuses it.                              *)
Save(r) ==
  /\ op[r] = "save"
  /\ \/ Entity(r).ref \in Referable /\ rows' = [rows EXCEPT ![target[r]] = Entity(r)]
     \/ Entity(r).ref \notin Referable /\ UNCHANGED rows
  /\ Answered(r)

(* The row may be removed already; deletedAt is then set once more.        *)
SoftRemove_Hard(r) ==
  /\ op[r] = "softRemove"
  /\ rows' = [rows EXCEPT ![target[r]] = Absent]
  /\ Answered(r)

SoftRemove(r) ==
  /\ op[r] = "softRemove"
  /\ rows' = [rows EXCEPT ![target[r]].deleted = TRUE]
  /\ Answered(r)

MachinesNext ==
  \/ \E i \in Ids : \E note \in Notes, ref \in Refs(i) : CreateMachine(i, note, ref)
  \/ \E i \in Ids : RestoreMachine(i)
  \/ \E r \in Requests, i \in Ids : \E dto \in Dto(i) : Find(r, i, "save", dto)
  \/ \E r \in Requests, i \in Ids : Find(r, i, "softRemove", NoBody)
  \/ \E r \in Requests : Save(r)
  \/ \E r \in Requests : SoftRemove(r)

MachinesSpec == MachinesInit /\ [][MachinesNext]_machineVars

-----------------------------------------------------------------------------
(* Properties.                                                             *)

(* However requests overlap, a machine refers to a row that exists: it may *)
(* be removed but its schema can still be loaded for it.                   *)
RefsExist == \A i \in Machines : Exists(i) => rows[i].ref \in Referable

(* The row of a request that has read it was live then and is there still: *)
(* save() updates, and never inserts a row.                                *)
ReadRowsStay ==
  \A r \in Requests : op[r] # "idle" => Exists(target[r]) /\ ~read[r].deleted

(* A save() that writes back what has changed since it was read.           *)
StaleSave == \E r \in Requests : op[r] = "save" /\ read[r] # rows[target[r]] /\ Save(r)

(* Overlapping requests do no harm other than that: every step but a stale *)
(* save() is what the store promises, or changes nothing.  In particular a *)
(* removed row is changed, or comes back, by a restore or by an update     *)
(* that had read it before it was removed.                                 *)
StepsOfTheStore == StoreInit /\ [][StaleSave \/ StoreNext]_rows
=============================================================================
