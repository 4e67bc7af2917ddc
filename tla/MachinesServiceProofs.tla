-------------------------- MODULE MachinesServiceProofs --------------------------
(***************************************************************************)
(* Proofs about MachinesService: whatever requests overlap, rows keep      *)
(* their type and never vanish, references can be followed, and every step *)
(* but a stale save() is a step of MachineStore.                           *)
(***************************************************************************)
EXTENDS MachinesService, TLAPS

MachinesInv == MachinesTypeOK /\ ReadRowsStay /\ RefsExist

-----------------------------------------------------------------------------

(* What Object.assign() makes of a live row and a body is a live row whose *)
(* columns are those of the row or those of the body.                      *)
LEMMA AssignedRow ==
  ASSUME NEW i \in Ids, NEW row \in Row(i), NEW dto \in Dto(i), ~row.deleted
  PROVE  /\ Assigned(i, row, dto) \in Row(i)
         /\ ~Assigned(i, row, dto).deleted
         /\ Assigned(i, row, dto).note = IF i \in Machines THEN Coalesce(dto.note, row.note)
                                         ELSE OrElse(dto.note, row.note)
         /\ Assigned(i, row, dto).ref = OrElse(dto.ref, row.ref)
  <1>1. /\ Assigned(i, row, dto).note = IF i \in Machines THEN Coalesce(dto.note, row.note)
                                        ELSE OrElse(dto.note, row.note)
        /\ Assigned(i, row, dto).ref = OrElse(dto.ref, row.ref)
        /\ Assigned(i, row, dto).deleted = row.deleted
        /\ Assigned(i, row, dto) = [note |-> Assigned(i, row, dto).note,
                                    ref |-> Assigned(i, row, dto).ref,
                                    deleted |-> Assigned(i, row, dto).deleted]
    BY DEF Assigned
  <1>2. Assigned(i, row, dto).note \in Notes
    BY <1>1 DEF Coalesce, OrElse, Row, Dto, Notes
  <1>3. Assigned(i, row, dto).ref \in Refs(i)
    BY <1>1 DEF OrElse, Row, Dto
  <1>4. QED
    BY <1>1, <1>2, <1>3 DEF Row

(* The identifiers of the rows that requests work on.                      *)
LEMMA RequestRow ==
  ASSUME MachinesInv, NEW r \in Requests, op[r] # "idle"
  PROVE  /\ target[r] \in Ids
         /\ read[r] \in Row(target[r])
         /\ body[r] \in Dto(target[r])
         /\ ~read[r].deleted
         /\ rows[target[r]] \in Row(target[r])
         /\ Entity(r) \in Row(target[r])
         /\ ~Entity(r).deleted
  <1>1. /\ target[r] \in Ids /\ read[r] \in Row(target[r]) /\ body[r] \in Dto(target[r])
        /\ ~read[r].deleted
        /\ rows[target[r]] \in Row(target[r])
    BY DEF MachinesInv, MachinesTypeOK, StoreTypeOK, ReadRowsStay, Exists
  <1>2. QED
    BY <1>1, AssignedRow DEF Entity

(* Rows that are not written over with Absent stay: what could be referred *)
(* to and what requests have read is still there.                          *)
LEMMA NothingVanishes ==
  ASSUME MachinesInv, NEW i \in Ids, NEW row \in Row(i), row.ref \in Referable,
         rows' = [rows EXCEPT ![i] = row]
  PROVE  /\ StoreTypeOK'
         /\ RefsExist'
         /\ \A j \in Ids : Exists(j) => Exists(j)'
  <1>1. row # Absent
    BY DataAssumption
  <1>2. row \in Rows
    BY DEF Row, Rows, Refs
  <1>3. StoreTypeOK'
    BY <1>2 DEF MachinesInv, MachinesTypeOK, StoreTypeOK, Row, Refs, Notes
  <1>4. \A j \in Ids : Exists(j) => Exists(j)'
    BY <1>1 DEF Exists, MachinesInv, MachinesTypeOK, StoreTypeOK
  <1>5. \A x : x \in Referable => x \in Referable'
    BY <1>4 DEF Referable, Ids
  <1>6. RefsExist'
    <2> SUFFICES ASSUME NEW m \in Machines, Exists(m)' PROVE rows'[m].ref \in Referable'
      BY DEF RefsExist
    <2>1. CASE m = i
      BY <2>1, <1>5 DEF MachinesInv, MachinesTypeOK, StoreTypeOK, Ids
    <2>2. CASE m # i
      <3>1. rows'[m] = rows[m]
        BY <2>2 DEF MachinesInv, MachinesTypeOK, StoreTypeOK, Ids
      <3>2. Exists(m)
        BY <3>1 DEF Exists
      <3>3. QED
        BY <3>1, <3>2, <1>5 DEF MachinesInv, RefsExist
    <2>3. QED
      BY <2>1, <2>2
  <1>7. QED
    BY <1>3, <1>4, <1>6

(* An existing row that is marked or unmarked as removed is a row with the *)
(* reference it had.                                                       *)
LEMMA MarkedRow ==
  ASSUME MachinesInv, NEW i \in Ids, Exists(i), NEW mark \in BOOLEAN
  PROVE  /\ [rows[i] EXCEPT !.deleted = mark] \in Row(i)
         /\ [rows[i] EXCEPT !.deleted = mark].ref \in Referable
  <1>1. rows[i] \in Row(i)
    BY DEF MachinesInv, MachinesTypeOK, StoreTypeOK, Exists
  <1>2. rows[i].ref \in Referable
    BY <1>1, DataAssumption DEF MachinesInv, RefsExist, Row, Refs, Ids, Referable
  <1>3. QED
    BY <1>1, <1>2 DEF Row

-----------------------------------------------------------------------------

(* Steps that leave the requests alone keep what is known of them.         *)
LEMMA RequestsKept ==
  ASSUME MachinesInv, UNCHANGED requestVars, StoreTypeOK', RefsExist',
         \A j \in Ids : Exists(j) => Exists(j)'
  PROVE  MachinesInv'
  <1>1. MachinesTypeOK'
    BY DEF MachinesInv, MachinesTypeOK, requestVars
  <1>2. ReadRowsStay'
    BY DEF MachinesInv, MachinesTypeOK, ReadRowsStay, requestVars
  <1>3. QED
    BY <1>1, <1>2 DEF MachinesInv

(* ... and so does the answer to one of them.                              *)
LEMMA RequestAnswered ==
  ASSUME MachinesInv, NEW r \in Requests, Answered(r), StoreTypeOK', RefsExist',
         \A j \in Ids : Exists(j) => Exists(j)'
  PROVE  MachinesInv'
  <1>1. \A q \in Requests : op'[q] # "idle" =>
          /\ op[q] # "idle" /\ q # r
          /\ target'[q] = target[q] /\ read'[q] = read[q] /\ body'[q] = body[q]
    BY DEF Answered, MachinesInv, MachinesTypeOK
  <1>2. MachinesTypeOK'
    <2>1. /\ op' \in [Requests -> {"idle", "save", "softRemove"}]
          /\ target' \in [Requests -> Ids \cup {Absent}]
          /\ DOMAIN read' = Requests
          /\ DOMAIN body' = Requests
      BY DEF Answered, MachinesInv, MachinesTypeOK
    <2>2. QED
      BY <1>1, <2>1 DEF MachinesInv, MachinesTypeOK, Row, Dto, Refs
  <1>3. ReadRowsStay'
    BY <1>1 DEF MachinesInv, MachinesTypeOK, ReadRowsStay
  <1>4. QED
    BY <1>2, <1>3 DEF MachinesInv

LEMMA MachinesInitially == MachinesInit => MachinesInv
  <1> SUFFICES ASSUME MachinesInit PROVE MachinesInv
    OBVIOUS
  <1>1. MachinesTypeOK
    <2>1. StoreTypeOK
      BY DEF MachinesInit, StoreInit, StoreTypeOK
    <2>2. /\ op \in [Requests -> {"idle", "save", "softRemove"}]
          /\ target \in [Requests -> Ids \cup {Absent}]
          /\ DOMAIN read = Requests
          /\ DOMAIN body = Requests
          /\ \A r \in Requests : op[r] = "idle"
      BY DEF MachinesInit
    <2>3. QED
      BY <2>1, <2>2 DEF MachinesTypeOK
  <1>2. ReadRowsStay /\ RefsExist
    BY DEF MachinesInit, StoreInit, ReadRowsStay, RefsExist, Exists, Ids
  <1>3. QED
    BY <1>1, <1>2 DEF MachinesInv

LEMMA MachinesStep == MachinesInv /\ [MachinesNext]_machineVars => MachinesInv'
  <1> SUFFICES ASSUME MachinesInv, [MachinesNext]_machineVars PROVE MachinesInv'
    OBVIOUS
  <1>1. ASSUME NEW i \in Ids, NEW note \in Notes, NEW ref \in Refs(i),
               CreateMachine(i, note, ref)
        PROVE  MachinesInv'
    <2> DEFINE row == [note |-> note, ref |-> ref, deleted |-> FALSE]
    <2>1. row \in Row(i) /\ row.ref \in Referable /\ rows' = [rows EXCEPT ![i] = row]
      BY <1>1 DEF Row, CreateMachine
    <2> HIDE DEF row
    <2>2. QED
      BY <1>1, <2>1, NothingVanishes, RequestsKept DEF CreateMachine
  <1>2. ASSUME NEW i \in Ids, RestoreMachine(i) PROVE MachinesInv'
    <2> DEFINE row == [rows[i] EXCEPT !.deleted = FALSE]
    <2>1. rows' = [rows EXCEPT ![i] = row]
      BY <1>2 DEF RestoreMachine
    <2>2. row \in Row(i) /\ row.ref \in Referable
      BY <1>2, MarkedRow DEF RestoreMachine
    <2> HIDE DEF row
    <2>3. QED
      BY <1>2, <2>1, <2>2, NothingVanishes, RequestsKept DEF RestoreMachine
  <1>3. ASSUME NEW r \in Requests, NEW i \in Ids, NEW o \in {"save", "softRemove"},
               NEW dto \in Dto(i), Find(r, i, o, dto)
        PROVE  MachinesInv'
    <2>1. rows[i] \in Row(i)
      BY <1>3 DEF Find, IsLive, Exists, MachinesInv, MachinesTypeOK, StoreTypeOK
    <2>2. /\ op' \in [Requests -> {"idle", "save", "softRemove"}]
          /\ target' \in [Requests -> Ids \cup {Absent}]
          /\ DOMAIN read' = Requests
          /\ DOMAIN body' = Requests
          /\ rows' = rows
      BY <1>3 DEF Find, MachinesInv, MachinesTypeOK
    <2>3. target'[r] = i /\ read'[r] = rows[i] /\ body'[r] = dto
      BY <1>3 DEF Find, MachinesInv, MachinesTypeOK
    <2>4. \A q \in Requests \ {r} :
            op'[q] = op[q] /\ target'[q] = target[q] /\ read'[q] = read[q] /\ body'[q] = body[q]
      BY <1>3 DEF Find, MachinesInv, MachinesTypeOK
    <2>5. MachinesTypeOK'
      <3>1. \A q \in Requests : op'[q] # "idle" =>
              /\ target'[q] \in Ids
              /\ read'[q] \in Row(target'[q])
              /\ body'[q] \in Dto(target'[q])
        BY <2>1, <2>3, <2>4 DEF MachinesInv, MachinesTypeOK
      <3>2. QED
        BY <3>1, <2>2 DEF MachinesInv, MachinesTypeOK, StoreTypeOK, Row, Dto, Refs
    <2>6. ReadRowsStay'
      BY <1>3, <2>2, <2>3, <2>4 DEF Find, IsLive, Exists, MachinesInv, ReadRowsStay
    <2>7. RefsExist'
      BY <2>2 DEF MachinesInv, RefsExist, Exists, Referable
    <2>8. QED
      BY <2>5, <2>6, <2>7 DEF MachinesInv
  <1>4. ASSUME NEW r \in Requests, Save(r) PROVE MachinesInv'
    <2>1. op[r] # "idle"
      BY <1>4 DEF Save
    <2>2. CASE Entity(r).ref \in Referable /\ rows' = [rows EXCEPT ![target[r]] = Entity(r)]
      BY <1>4, <2>1, <2>2, RequestRow, NothingVanishes, RequestAnswered DEF Save
    <2>3. CASE UNCHANGED rows
      <3>1. /\ StoreTypeOK' /\ RefsExist'
            /\ \A j \in Ids : Exists(j) => Exists(j)'
        BY <2>3 DEF MachinesInv, MachinesTypeOK, StoreTypeOK, RefsExist, Exists, Referable, Row, Refs
      <3>2. QED
        BY <1>4, <3>1, RequestAnswered DEF Save
    <2>4. QED
      BY <1>4, <2>2, <2>3 DEF Save
  <1>5. ASSUME NEW r \in Requests, SoftRemove(r) PROVE MachinesInv'
    <2>1. target[r] \in Ids /\ Exists(target[r])
      BY <1>5 DEF SoftRemove, MachinesInv, MachinesTypeOK, ReadRowsStay
    <2> DEFINE row == [rows[target[r]] EXCEPT !.deleted = TRUE]
    <2>2. rows' = [rows EXCEPT ![target[r]] = row]
      BY <1>5 DEF SoftRemove
    <2>3. row \in Row(target[r]) /\ row.ref \in Referable
      BY <2>1, MarkedRow
    <2> HIDE DEF row
    <2>4. QED
      BY <1>5, <2>1, <2>2, <2>3, NothingVanishes, RequestAnswered DEF SoftRemove
  <1>6. CASE UNCHANGED machineVars
    BY <1>6 DEF machineVars, requestVars, MachinesInv, MachinesTypeOK, StoreTypeOK, ReadRowsStay,
                RefsExist, Exists, Referable, Row, Dto, Refs
  <1>7. \A i \in Ids : NoBody \in Dto(i)
    BY DEF NoBody, Dto
  <1>8. QED
    BY <1>1, <1>2, <1>3, <1>4, <1>5, <1>6, <1>7 DEF MachinesNext

LEMMA MachinesAlways == MachinesSpec => []MachinesInv
  BY MachinesInitially, MachinesStep, PTL DEF MachinesSpec

(* Whatever requests overlap, the tables and the requests keep their type. *)
THEOREM MachinesTypeCorrect == MachinesSpec => []MachinesTypeOK
  <1>1. MachinesInv => MachinesTypeOK
    BY DEF MachinesInv
  <1>2. QED
    BY <1>1, MachinesAlways, PTL

(* Whatever requests overlap, the reference of a machine can be followed,  *)
(* and save() never inserts a row.                                         *)
THEOREM ReferencesHold == MachinesSpec => [](RefsExist /\ ReadRowsStay)
  <1>1. MachinesInv => RefsExist /\ ReadRowsStay
    BY DEF MachinesInv
  <1>2. QED
    BY <1>1, MachinesAlways, PTL

(* What find() returned is still a row when save() writes: no overlapping  *)
(* request can turn the UPDATE into an INSERT.                             *)
COROLLARY RowsReadStay == MachinesSpec => []ReadRowsStay
  BY ReferencesHold, PTL

-----------------------------------------------------------------------------
(* The store.                                                              *)

LEMMA StoreStep ==
  MachinesInv /\ [MachinesNext]_machineVars => [StaleSave \/ StoreNext]_rows
  <1> SUFFICES ASSUME MachinesInv, [MachinesNext]_machineVars
               PROVE  StaleSave \/ StoreNext \/ UNCHANGED rows
    OBVIOUS
  <1>1. ASSUME NEW i \in Ids, NEW note \in Notes, NEW ref \in Refs(i),
               CreateMachine(i, note, ref)
        PROVE  StoreNext
    <2>1. [note |-> note, ref |-> ref, deleted |-> FALSE] \in Row(i)
      BY DEF Row
    <2>2. Insert(i)
      BY <1>1, <2>1 DEF CreateMachine, Insert
    <2>3. QED
      BY <2>2 DEF StoreNext
  <1>2. ASSUME NEW i \in Ids, RestoreMachine(i) PROVE StoreNext
    BY <1>2 DEF RestoreMachine, Restore, StoreNext
  <1>3. ASSUME NEW r \in Requests, Save(r) PROVE StaleSave \/ StoreNext \/ UNCHANGED rows
    <2>1. op[r] = "save" /\ op[r] # "idle"
      BY <1>3 DEF Save
    <2>2. CASE read[r] # rows[target[r]]
      BY <1>3, <2>1, <2>2 DEF StaleSave
    <2>3. CASE read[r] = rows[target[r]] /\ ~UNCHANGED rows
      <3> DEFINE i == target[r]
      <3>1. Entity(r).ref \in Referable /\ rows' = [rows EXCEPT ![i] = Entity(r)]
        BY <1>3, <2>3 DEF Save
      <3>2. /\ i \in Ids /\ body[r] \in Dto(i) /\ rows[i] \in Row(i) /\ ~rows[i].deleted
            /\ Entity(r) \in Row(i) /\ ~Entity(r).deleted
        BY <2>1, <2>3, RequestRow
      <3>3. Exists(i)
        BY <3>2, DataAssumption DEF Exists
      <3>4. /\ Entity(r).note = IF i \in Machines THEN Coalesce(body[r].note, rows[i].note)
                                ELSE OrElse(body[r].note, rows[i].note)
            /\ Entity(r).ref = OrElse(body[r].ref, rows[i].ref)
        BY <2>3, <3>2, AssignedRow DEF Entity
      <3>5. /\ body[r].note \in Texts => Entity(r).note = body[r].note
            /\ body[r].note = Undefined \/ (body[r].note = Null /\ i \in Machines)
                 => Entity(r).note = rows[i].note
            /\ body[r].note = Null /\ i \in Schemas => Entity(r).note = Null
            /\ Entity(r).ref = IF body[r].ref = Undefined THEN rows[i].ref ELSE body[r].ref
        BY <3>4, DataAssumption DEF Coalesce, OrElse
      <3>6. Patch(i)
        BY <3>1, <3>2, <3>3, <3>5 DEF Patch, IsLive
      <3>7. QED
        BY <3>2, <3>6 DEF StoreNext
    <2>4. QED
      BY <2>2, <2>3
  <1>4. ASSUME NEW r \in Requests, SoftRemove(r) PROVE StoreNext \/ UNCHANGED rows
    <2>1. op[r] # "idle" /\ rows' = [rows EXCEPT ![target[r]].deleted = TRUE]
      BY <1>4 DEF SoftRemove
    <2>2. /\ target[r] \in Ids /\ rows[target[r]] \in Row(target[r]) /\ Exists(target[r])
          /\ rows \in [Ids -> Rows \cup {Absent}]
      BY <2>1, RequestRow DEF MachinesInv, MachinesTypeOK, StoreTypeOK, ReadRowsStay
    <2>3. CASE rows[target[r]].deleted
      <3>1. [rows[target[r]] EXCEPT !.deleted = TRUE] = rows[target[r]]
        BY <2>2, <2>3 DEF Row
      <3>2. QED
        BY <2>1, <2>2, <3>1
    <2>4. CASE ~rows[target[r]].deleted
      BY <2>1, <2>2, <2>4 DEF Remove, IsLive, StoreNext
    <2>5. QED
      BY <2>3, <2>4
  <1>5. ASSUME NEW r \in Requests, NEW i \in Ids, NEW o, NEW dto, Find(r, i, o, dto)
        PROVE  UNCHANGED rows
    BY <1>5 DEF Find
  <1>6. QED
    BY <1>1, <1>2, <1>3, <1>4, <1>5 DEF MachinesNext, machineVars

(* Every step of the service but a stale save() is a step of the store.    *)
THEOREM ServiceIsAlmostAStore == MachinesSpec => StepsOfTheStore
  <1>1. MachinesInit => StoreInit
    BY DEF MachinesInit
  <1>2. QED
    BY <1>1, MachinesAlways, StoreStep, PTL DEF MachinesSpec, StepsOfTheStore

-----------------------------------------------------------------------------
(* Requests that do not overlap on a row.                                  *)

OneRequestPerRow ==
  \A r, q \in Requests :
    op[r] # "idle" /\ op[q] # "idle" /\ target[r] = target[q] => r = q

(* No row has changed since a request that is under way read it.           *)
ReadsAreFresh == \A r \in Requests : op[r] # "idle" => read[r] = rows[target[r]]

(* The answer to r, which may have written its row.                        *)
LEMMA FreshAnswered ==
  ASSUME MachinesInv, ReadsAreFresh, OneRequestPerRow, NEW r \in Requests, op[r] # "idle",
         Answered(r), \A i \in Ids \ {target[r]} : rows'[i] = rows[i]
  PROVE  ReadsAreFresh'
  <1>1. \A q \in Requests : op'[q] # "idle" =>
          q # r /\ op[q] # "idle" /\ target'[q] = target[q] /\ read'[q] = read[q]
    BY DEF Answered, MachinesInv, MachinesTypeOK
  <1>2. \A q \in Requests : op'[q] # "idle" => target[q] \in Ids \ {target[r]}
    BY <1>1, RequestRow DEF OneRequestPerRow
  <1>3. QED
    BY <1>1, <1>2 DEF ReadsAreFresh

LEMMA FreshStep ==
  MachinesInv /\ ReadsAreFresh /\ OneRequestPerRow /\ [MachinesNext]_machineVars => ReadsAreFresh'
  <1> SUFFICES ASSUME MachinesInv, ReadsAreFresh, OneRequestPerRow, [MachinesNext]_machineVars
               PROVE  ReadsAreFresh'
    OBVIOUS
  <1>1. \A q \in Requests : op[q] # "idle" =>
          target[q] \in Ids /\ Exists(target[q]) /\ rows[target[q]] \in Row(target[q])
          /\ ~rows[target[q]].deleted
    BY RequestRow DEF MachinesInv, ReadRowsStay, ReadsAreFresh
  <1>2. DOMAIN rows = Ids
    BY DEF MachinesInv, MachinesTypeOK, StoreTypeOK
  <1>3. ASSUME NEW i \in Ids, NEW note \in Notes, NEW ref \in Refs(i), CreateMachine(i, note, ref)
        PROVE  ReadsAreFresh'
    <2>1. \A q \in Requests : op[q] # "idle" => target[q] # i
      BY <1>1, <1>3 DEF CreateMachine
    <2>2. QED
      BY <1>1, <1>2, <1>3, <2>1 DEF CreateMachine, requestVars, ReadsAreFresh
  <1>4. ASSUME NEW i \in Ids, RestoreMachine(i) PROVE ReadsAreFresh'
    <2>1. ASSUME NEW q \in Requests, op[q] # "idle" PROVE rows'[target[q]] = rows[target[q]]
      <3>1. [rows[target[q]] EXCEPT !.deleted = FALSE] = rows[target[q]]
        BY <1>1, <2>1 DEF Row
      <3>2. QED
        BY <1>1, <1>2, <1>4, <2>1, <3>1 DEF RestoreMachine
    <2>2. QED
      BY <1>4, <2>1 DEF RestoreMachine, requestVars, ReadsAreFresh
  <1>5. ASSUME NEW r \in Requests, NEW i \in Ids, NEW o, NEW dto, Find(r, i, o, dto)
        PROVE  ReadsAreFresh'
    <2>1. /\ rows' = rows /\ target'[r] = i /\ read'[r] = rows[i]
          /\ \A q \in Requests \ {r} : op'[q] = op[q] /\ target'[q] = target[q] /\ read'[q] = read[q]
      BY <1>5 DEF Find, MachinesInv, MachinesTypeOK
    <2>2. QED
      BY <2>1 DEF ReadsAreFresh
  <1>6. ASSUME NEW r \in Requests, Save(r) \/ SoftRemove(r) PROVE ReadsAreFresh'
    <2>1. op[r] # "idle" /\ Answered(r)
      BY <1>6 DEF Save, SoftRemove
    <2>2. \A i \in Ids \ {target[r]} : rows'[i] = rows[i]
      BY <1>2, <1>6 DEF Save, SoftRemove
    <2>3. QED
      BY <2>1, <2>2, FreshAnswered
  <1>7. CASE UNCHANGED machineVars
    BY <1>7 DEF machineVars, requestVars, ReadsAreFresh
  <1>8. QED
    BY <1>3, <1>4, <1>5, <1>6, <1>7 DEF MachinesNext

(* Two requests on one row are all that can go wrong (hazard: two updates  *)
(* of one machine overlap): if no request on a row begins between find()   *)
(* and the write of another, each has the effect of one step of the store, *)
(* however many are under way on other rows, rows they refer to included,  *)
(* and whatever is created or restored meanwhile.                          *)
THEOREM SeparateRequestsGiveTheStore == MachinesSpec /\ []OneRequestPerRow => StoreSpec
  <1>1. MachinesInit => ReadsAreFresh
    BY DEF MachinesInit, ReadsAreFresh
  <1>2. MachinesSpec /\ []OneRequestPerRow => []ReadsAreFresh
    BY <1>1, FreshStep, MachinesAlways, PTL DEF MachinesSpec
  <1>3. ReadsAreFresh /\ [StaleSave \/ StoreNext]_rows => [StoreNext]_rows
    BY DEF ReadsAreFresh, StaleSave
  <1>4. QED
    BY <1>2, <1>3, ServiceIsAlmostAStore, PTL DEF StepsOfTheStore, StoreSpec
=============================================================================
