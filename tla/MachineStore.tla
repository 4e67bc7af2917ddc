------------------------------ MODULE MachineStore ------------------------------
(***************************************************************************)
(* What the REST interface of the machines promises: tables of rows, where *)
(* every request on a row is one step.  Removing a row hides it, nothing   *)
(* makes it vanish.                                                        *)
(*                                                                         *)
(* Two tables stand for the three: "schema" is a MessageSchema or, by the  *)
(* same code, a MachineType; a machine may refer to one.  Of the columns   *)
(* there are the description and that reference.                           *)
(***************************************************************************)
CONSTANTS Machines,  \* the identifiers of the rows of the table of machines
          Schemas,   \* those of the other table
          Texts,     \* descriptions
          Null,      \* null
          Undefined, \* what a request does not mention
          Absent     \* there is no such row

VARIABLE rows        \* rows[i]: the row with identifier i

Ids == Machines \cup Schemas

Notes == Texts \cup {Null}

Refs(i) == IF i \in Machines THEN Schemas \cup {Null} ELSE {Null}

Rows == [note : Notes, ref : Schemas \cup {Null}, deleted : BOOLEAN]

Row(i) == [note : Notes, ref : Refs(i), deleted : BOOLEAN]

(* The body of a PATCH.                                                    *)
Dto(i) == [note : Notes \cup {Undefined}, ref : Refs(i) \cup {Undefined}]

Exists(i) == rows[i] # Absent

IsLive(i) == Exists(i) /\ ~rows[i].deleted

Referable == {Null} \cup {s \in Schemas : Exists(s)}

StoreTypeOK ==
  /\ rows \in [Ids -> Rows \cup {Absent}]
  /\ \A i \in Ids : rows[i] \in Row(i) \cup {Absent}

StoreInit == rows = [i \in Ids |-> Absent]

-----------------------------------------------------------------------------

Insert(i) ==
  /\ ~Exists(i)
  /\ \E row \in Row(i) :
       /\ ~row.deleted
       /\ row.ref \in Referable
       /\ rows' = [rows EXCEPT ![i] = row]

(* A PATCH touches a live row, leaves it live, gives the columns that it   *)
(* mentions their values and no other column; null says nothing about the  *)
(* description of a machine.                                               *)
Patch(i) ==
  /\ IsLive(i)
  /\ \E dto \in Dto(i), row \in Row(i) :
       /\ ~row.deleted
       /\ row.ref \in Referable
       /\ dto.note \in Texts => row.note = dto.note
       /\ dto.note = Undefined \/ (dto.note = Null /\ i \in Machines) => row.note = rows[i].note
       /\ dto.note = Null /\ i \in Schemas => row.note = Null
       /\ row.ref = IF dto.ref = Undefined THEN rows[i].ref ELSE dto.ref
       /\ rows' = [rows EXCEPT ![i] = row]

Remove(i) == IsLive(i) /\ rows' = [rows EXCEPT ![i].deleted = TRUE]

Restore(i) == Exists(i) /\ rows' = [rows EXCEPT ![i].deleted = FALSE]

StoreNext == \E i \in Ids : Insert(i) \/ Patch(i) \/ Remove(i) \/ Restore(i)

StoreSpec == StoreInit /\ [][StoreNext]_rows
=============================================================================
