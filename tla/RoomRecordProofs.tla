--------------------------- MODULE RoomRecordProofs ---------------------------
(***************************************************************************)
(* That the room records stay well typed, that what was acknowledged of a  *)
(* room lasts and that ids and names are shared only by what was made at   *)
(* the same time: for any rooms, services, people and requests at once.    *)
(***************************************************************************)
EXTENDS RoomRecords, RowEditProofs

-----------------------------------------------------------------------------
(* The inductive invariant *)

\* What the check of an insert saw is still there, and is something else.
Informed(call) ==
  /\ call.op = "room" => call.id \in RoomIds
  /\ call.seenRooms \subseteq Rooms
  /\ \A q \in call.seenRooms : roomId[q] # call.id
  /\ call.seenAids \subseteq Aids
  /\ \A i \in call.seenAids : aidName[i] # call.name \/ Trim[call.name] # call.name

CallInv == \A s \in Slots : Informed(calls[s])

\* Edits are of rooms that exist, and of their invitees or their providers.
EditInv ==
  \A s \in Slots : Editing(s) => edits[s].key \in Rooms /\ edits[s].asked \in Aspects

ProviderInv ==
  /\ \A r \in Keys : table[r]["providers"] \in SUBSET People
  /\ \A s \in Slots : Editing(s) => edits[s].mine["providers"] \in SUBSET People

RecordInv == TypeOK /\ RowInv /\ CallInv /\ EditInv /\ ProviderInv

LEMMA ColumnsAre ==
  /\ Columns = People \cup {"providers"} /\ "providers" \notin People
  /\ {Yes, No} \cup SUBSET People \subseteq Values
BY RoomAssumption

LEMMA NoCallIsCall == NoCall \in Call /\ Informed(NoCall)
BY DEF NoCall, Call, Informed

\* An edit is of a row that has its providers.
LEMMA EditedRows ==
  ASSUME RecordInv, NEW r \in Rooms
  PROVE  r \in Keys /\ table[r] \in [Columns -> Values] /\ table[r]["providers"] \in SUBSET People
BY DEF RecordInv, TypeOK, RowTypes, Row, Rooms, ProviderInv

-----------------------------------------------------------------------------
(* Inserts *)

\* The first step of an insert changes nothing but what its request knows.
LEMMA CallKeeps ==
  ASSUME RecordInv, NEW s \in Slots, NEW new \in Call, Informed(new),
         calls' = [calls EXCEPT ![s] = new], UNCHANGED <<rowVars, roomId, aidName>>
  PROVE  RecordInv'
<1>1. RowInv'
  BY UnchangedKeeps DEF RecordInv
<1>2. TypeOK'
  BY <1>1 DEF RecordInv, TypeOK, RowInv
<1>3. CallInv'
  BY DEF RecordInv, TypeOK, CallInv, Informed, Rooms, Aids
<1>4. EditInv' /\ ProviderInv'
  BY DEF RecordInv, EditInv, ProviderInv, Editing, Rooms, rowVars
<1> QED BY <1>1, <1>2, <1>3, <1>4 DEF RecordInv

LEMMA CreateRoomKeeps ==
  ASSUME RecordInv, NEW s \in Slots, CreateRoom(s)
  PROVE  RecordInv'
<1>1. PICK id \in RoomIds :
        /\ \A r \in Rooms : roomId[r] # id
        /\ calls' = [calls EXCEPT ![s] = [NoCall EXCEPT !.op = "room", !.id = id,
                                                        !.seenRooms = Rooms]]
  BY DEF CreateRoom
<1> DEFINE new == [NoCall EXCEPT !.op = "room", !.id = id, !.seenRooms = Rooms]
<1>2. /\ new \in Call /\ new.id = id /\ new.seenRooms = Rooms /\ new.seenAids = {}
  BY DEF NoCall, Call, Rooms
<1>3. calls' = [calls EXCEPT ![s] = new]
  BY <1>1
<1> HIDE DEF new
<1>4. Informed(new)
  BY <1>1, <1>2 DEF Informed
<1> QED BY <1>2, <1>3, <1>4, CallKeeps DEF CreateRoom

LEMMA AddAidServiceKeeps ==
  ASSUME RecordInv, NEW s \in Slots, NEW name \in Names, NEW edited \in SUBSET AidKeys,
         AddAidService(s, name, edited),
         NameFree(name) \/ NameFree(Trim[name])
  PROVE  RecordInv'
<1> DEFINE new == [NoCall EXCEPT !.op = "aid", !.name = name, !.seenAids = Aids, !.edited = edited]
<1>1. new \in Call /\ new.name = name /\ new.seenAids = Aids /\ new.seenRooms = {}
      /\ new.op = "aid"
  BY DEF NoCall, Call, Aids
<1>2. calls' = [calls EXCEPT ![s] = new]
  BY DEF AddAidService
<1> HIDE DEF new
<1>3. Informed(new)
  BY <1>1 DEF Informed, NameFree
<1> QED BY <1>1, <1>2, <1>3, CallKeeps DEF AddAidService

LEMMA InsertFailedKeeps ==
  ASSUME RecordInv, NEW s \in Slots, InsertFailed(s)
  PROVE  RecordInv'
BY NoCallIsCall, CallKeeps DEF InsertFailed, Done

LEMMA RoomCreatedKeeps ==
  ASSUME RecordInv, NEW s \in Slots, RoomCreated(s)
  PROVE  RecordInv'
<1> DEFINE row == [c \in Columns |-> IF c = "providers" THEN {} ELSE No]
<1>1. PICK r \in Keys \ Rooms : InsertRow(r, row) /\ roomId' = [roomId EXCEPT ![r] = calls[s].id]
  BY DEF RoomCreated
<1>2. row \in Row /\ row["providers"] = {}
  BY ColumnsAre DEF Row
<1> HIDE DEF row
<1>3. \A t \in Slots : edits[t].key # r
  BY <1>1, RowAssumption DEF RecordInv, EditInv, Editing
<1>4. RowInv'
  BY <1>1, <1>2, <1>3, InsertKeeps DEF RecordInv
<1>5. calls[s] \in Call /\ calls[s].id \in RoomIds \cup {NoRoomId}
  BY DEF RecordInv, TypeOK, Call
<1>6. TypeOK'
  BY <1>1, <1>4, <1>5, NoCallIsCall DEF RoomCreated, Done, RecordInv, TypeOK, RowInv
<1>7. \A q \in Rooms : q \in Rooms' /\ roomId'[q] = roomId[q]
  BY <1>1, <1>6 DEF Rooms, RecordInv, TypeOK
<1>8. calls'[s] = NoCall /\ \A t \in Slots \ {s} : calls'[t] = calls[t]
  BY DEF RoomCreated, Done, RecordInv, TypeOK
<1>9. CallInv'
  <2>1. ASSUME NEW t \in Slots \ {s} PROVE Informed(calls[t])'
    BY <1>7, <1>8 DEF RecordInv, CallInv, Informed, Aids, RoomCreated
  <2>2. Informed(calls[s])'
    BY <1>8 DEF NoCall, Informed
  <2> QED BY <2>1, <2>2 DEF CallInv
<1>10. EditInv'
  BY <1>1, <1>7 DEF RecordInv, EditInv, Editing, InsertRow
<1>11. ProviderInv'
  BY <1>1, <1>2 DEF RecordInv, ProviderInv, Editing, InsertRow, TypeOK, RowTypes
<1> QED BY <1>4, <1>6, <1>9, <1>10, <1>11 DEF RecordInv

LEMMA AidServiceSavedKeeps ==
  ASSUME RecordInv, NEW s \in Slots, AidServiceSaved(s)
  PROVE  RecordInv'
<1>1. PICK i \in AidKeys \ Aids : aidName' = [aidName EXCEPT ![i] = calls[s].name]
  BY DEF AidServiceSaved
<1>2. RowInv'
  BY UnchangedKeeps DEF RecordInv, AidServiceSaved
<1>3. calls[s] \in Call /\ calls[s].name \in Names \cup {NoName}
  BY DEF RecordInv, TypeOK, Call
<1>4. TypeOK'
  BY <1>1, <1>2, <1>3, NoCallIsCall DEF AidServiceSaved, Done, RecordInv, TypeOK, RowInv
<1>5. \A j \in Aids : j \in Aids' /\ aidName'[j] = aidName[j]
  BY <1>1, <1>4 DEF Aids, RecordInv, TypeOK
<1>6. calls'[s] = NoCall /\ \A t \in Slots \ {s} : calls'[t] = calls[t]
  BY DEF AidServiceSaved, Done, RecordInv, TypeOK
<1>7. CallInv'
  <2>1. ASSUME NEW t \in Slots \ {s} PROVE Informed(calls[t])'
    BY <1>5, <1>6 DEF RecordInv, CallInv, Informed, Rooms, AidServiceSaved
  <2>2. Informed(calls[s])'
    BY <1>6 DEF NoCall, Informed
  <2> QED BY <2>1, <2>2 DEF CallInv
<1>8. EditInv' /\ ProviderInv'
  BY DEF RecordInv, EditInv, ProviderInv, Editing, Rooms, rowVars, AidServiceSaved
<1> QED BY <1>2, <1>4, <1>7, <1>8 DEF RecordInv

-----------------------------------------------------------------------------
(* Edits *)

LEMMA EditKeeps ==
  ASSUME RecordInv, UNCHANGED <<roomId, aidName, calls>>, RowInv', EditInv', ProviderInv'
  PROVE  RecordInv'
<1>1. TypeOK' /\ CallInv'
  BY DEF RecordInv, TypeOK, RowInv, CallInv, Informed, Rooms, Aids
<1> QED BY <1>1 DEF RecordInv

LEMMA ReadingKeeps ==
  ASSUME RecordInv, NEW s \in Slots, NEW r \in Rooms, NEW mine \in Row,
         NEW columns \in SUBSET Columns, NEW asked \in SUBSET columns,
         \A c \in Columns \ asked : mine[c] = table[r][c], mine["providers"] \in SUBSET People,
         asked \in Aspects,
         ReadRow(s, r, mine, asked, columns), UNCHANGED <<roomId, aidName, calls>>
  PROVE  RecordInv'
<1>1. RowInv'
  BY EditedRows, ReadKeeps DEF RecordInv
<1>2. EditInv'
  BY DEF RecordInv, EditInv, Editing, ReadRow, TypeOK, RowTypes, Rooms
<1>3. ProviderInv'
  BY DEF RecordInv, ProviderInv, Editing, ReadRow, TypeOK, RowTypes
<1> QED BY <1>1, <1>2, <1>3, EditKeeps

LEMMA AddParticipantsKeeps ==
  ASSUME RecordInv, NEW s \in Slots, AddParticipantsToRoom(s)
  PROVE  RecordInv'
<1>1. PICK r \in Rooms, found \in SUBSET People :
        ReadRow(s, r, [c \in Columns |-> IF c \in found THEN Yes ELSE table[r][c]], found, Columns)
  BY DEF AddParticipantsToRoom
<1> DEFINE mine == [c \in Columns |-> IF c \in found THEN Yes ELSE table[r][c]]
<1>2. /\ mine \in Row /\ \A c \in Columns \ found : mine[c] = table[r][c]
      /\ mine["providers"] \in SUBSET People
  BY EditedRows, ColumnsAre DEF Row
<1>3. ReadRow(s, r, mine, found, Columns) /\ found \in SUBSET Columns
  BY <1>1, ColumnsAre
<1>4. found \in Aspects
  BY DEF Aspects
<1> HIDE DEF mine
<1> QED BY <1>2, <1>3, <1>4, ReadingKeeps DEF AddParticipantsToRoom

LEMMA RequestAidServiceKeeps ==
  ASSUME RecordInv, NEW s \in Slots, RequestAidService(s)
  PROVE  RecordInv'
<1>1. PICK r \in Rooms, requested \in SUBSET People :
        ReadRow(s, r, [table[r] EXCEPT !["providers"] = @ \cup requested],
                {"providers"}, {"providers"})
  BY DEF RequestAidService
<1> DEFINE mine == [table[r] EXCEPT !["providers"] = @ \cup requested]
<1>2. table[r]["providers"] \cup requested \in SUBSET People
  BY EditedRows
<1>3. /\ mine \in Row /\ \A c \in Columns \ {"providers"} : mine[c] = table[r][c]
      /\ mine["providers"] \in SUBSET People
  BY <1>2, EditedRows, ColumnsAre DEF Row
<1>4. ReadRow(s, r, mine, {"providers"}, {"providers"}) /\ {"providers"} \in SUBSET Columns
  BY <1>1, ColumnsAre
<1>5. {"providers"} \in Aspects
  BY DEF Aspects
<1> HIDE DEF mine
<1> QED BY <1>3, <1>4, <1>5, ReadingKeeps DEF RequestAidService

LEMMA RoomComparedKeeps ==
  ASSUME RecordInv, NEW s \in Slots, RoomCompared(s)
  PROVE  RecordInv'
<1>1. edits[s] \in Edit /\ edits[s].left \in SUBSET Columns
  BY DEF RecordInv, TypeOK, RowTypes, Edit
<1>2. RowInv'
  <2> DEFINE columns == IF "providers" \in edits[s].left THEN {"providers"} ELSE edits[s].left
  <2>1. columns \in SUBSET Columns /\ Editing(s) /\ CompareColumns(s, columns)
    BY <1>1, ColumnsAre DEF RoomCompared
  <2> HIDE DEF columns
  <2> QED BY <2>1, CompareKeeps DEF RecordInv
<1>3. \A t \in Slots : /\ edits'[t].key = edits[t].key /\ edits'[t].mine = edits[t].mine
                        /\ edits'[t].asked = edits[t].asked
  BY <1>1 DEF RoomCompared, CompareColumns, RecordInv, TypeOK, RowTypes, Edit
<1>4. EditInv' /\ ProviderInv'
  BY <1>3 DEF RecordInv, EditInv, ProviderInv, Editing, Rooms, RoomCompared, CompareColumns
<1> QED BY <1>2, <1>4, EditKeeps DEF RoomCompared

LEMMA EndsKeep ==
  ASSUME RecordInv, NEW s \in Slots,
         EditCommitted(s) \/ EditRefused(s) \/ EditFailed(s) \/ FailureHidden(s)
  PROVE  RecordInv'
<1>1. /\ edits'[s] = NoEdit /\ \A t \in Slots \ {s} : edits'[t] = edits[t]
      /\ UNCHANGED <<roomId, aidName, calls>>
  BY DEF EditCommitted, EditRefused, EditFailed, FailureHidden, SaveRow, AbandonEdit,
         LoseEdit, EndEdit, RecordInv, TypeOK, RowTypes
<1>2. EditInv'
  BY <1>1 DEF NoEdit, Editing, RecordInv, EditInv, Rooms
<1>3. CASE EditCommitted(s)
  <2>1. RowInv'
    BY <1>3, SaveKeeps DEF EditCommitted, RecordInv
  <2> DEFINE edit == edits[s]
  <2>2. table' = [table EXCEPT ![edit.key] = Overwrite(@, edit.mine, edit.dirty)]
    BY <1>3 DEF EditCommitted, SaveRow
  <2>3. edit.mine["providers"] \in SUBSET People
    BY <1>3 DEF EditCommitted, RecordInv, ProviderInv
  <2>4. ASSUME NEW r \in Keys PROVE table'[r]["providers"] \in SUBSET People
    <3>1. CASE r = edit.key
      <4>1. table'[r] = Overwrite(table[r], edit.mine, edit.dirty)
        BY <2>2, <3>1 DEF RecordInv, TypeOK, RowTypes
      <4> QED BY <2>3, <4>1, ColumnsAre DEF Overwrite, RecordInv, ProviderInv
    <3>2. CASE r # edit.key
      BY <2>2, <3>2 DEF RecordInv, ProviderInv, TypeOK, RowTypes
    <3> QED BY <3>1, <3>2
  <2>5. ProviderInv'
    BY <1>1, <2>4 DEF NoEdit, Editing, RecordInv, ProviderInv
  <2> QED BY <1>1, <1>2, <2>1, <2>5, EditKeeps
<1>4. CASE EditRefused(s) \/ EditFailed(s) \/ FailureHidden(s)
  <2>1. RowInv'
    BY <1>4, AbandonKeeps, LoseKeeps DEF EditRefused, EditFailed, FailureHidden, RecordInv
  <2>2. ProviderInv'
    BY <1>1, <1>4 DEF NoEdit, Editing, RecordInv, ProviderInv, EditRefused, EditFailed,
       FailureHidden, AbandonEdit, LoseEdit
  <2> QED BY <1>1, <1>2, <2>1, <2>2, EditKeeps
<1> QED BY <1>3, <1>4

-----------------------------------------------------------------------------
(* The theorems *)

LEMMA InitGivesRecordInv == Init => RecordInv
<1> SUFFICES ASSUME Init PROVE RecordInv
  OBVIOUS
<1>1. [c \in Columns |-> IF c = "providers" THEN {} ELSE No] \in Row
  BY ColumnsAre DEF Row
<1>2. table \in [Keys -> Row] /\ NoEdit \in Edit
  BY <1>1 DEF Init, NoEdit, Edit
<1>3. RowInv
  BY <1>2 DEF Init, RowInv, RowTypes, AcknowledgedChangesLast, Editing, NoEdit
<1>4. TypeOK
  BY <1>3, NoCallIsCall DEF Init, TypeOK, RowInv
<1>5. CallInv /\ EditInv /\ ProviderInv
  BY NoCallIsCall, ColumnsAre DEF Init, CallInv, EditInv, ProviderInv, Editing, NoEdit
<1> QED BY <1>3, <1>4, <1>5 DEF RecordInv

LEMMA NextKeepsRecordInv == RecordInv /\ [Next]_vars => RecordInv'
<1> SUFFICES ASSUME RecordInv, [Next]_vars PROVE RecordInv'
  OBVIOUS
<1>1. CASE UNCHANGED vars
  <2>1. RowInv'
    BY <1>1, UnchangedKeeps DEF RecordInv, vars
  <2>2. EditInv' /\ ProviderInv'
    BY <1>1 DEF vars, rowVars, RecordInv, EditInv, ProviderInv, Editing, Rooms
  <2> QED BY <1>1, <2>1, <2>2, EditKeeps DEF vars
<1>2. CASE Next
  <2>1. ASSUME NEW s \in Slots, CreateAidService(s) \/ UpdateAidService(s)
        PROVE  RecordInv'
    <3>1. \A i \in Aids : {i} \in SUBSET AidKeys
      BY DEF Aids
    <3> QED BY <2>1, <3>1, AddAidServiceKeeps DEF CreateAidService, UpdateAidService
  <2> QED BY <1>2, <2>1, CreateRoomKeeps, RoomCreatedKeeps, AidServiceSavedKeeps,
             InsertFailedKeeps, AddParticipantsKeeps, RequestAidServiceKeeps,
             RoomComparedKeeps, EndsKeep DEF Next
<1> QED BY <1>1, <1>2

\* The room records never leave their inductive invariant.
THEOREM RecordInvariant == Spec => []RecordInv
BY InitGivesRecordInv, NextKeepsRecordInv, PTL DEF Spec

\* Every variable keeps its type.
THEOREM RecordTypeCorrect == Spec => []TypeOK
<1>1. RecordInv => TypeOK
  BY DEF RecordInv
<1> QED BY <1>1, RecordInvariant, PTL

\* Who was invited or asked for help, and was told so, is in the room's row, unless
\* requests that overlap on the room undo it, or a failure was answered as success.
THEOREM RoomChangesLast == Spec => []AcknowledgedChangesLast
<1>1. RecordInv => AcknowledgedChangesLast
  BY DEF RecordInv, RowInv
<1> QED BY <1>1, RecordInvariant, PTL

\* Rooms with one id, and aid services with one name, were made at the same time, or
\* the name had blanks around it.
THEOREM RecordTwinsOverlap == Spec => TwinsOverlap
<1>1. ASSUME RecordInv, Next, NEW s \in Slots, calls[s].op # "none", calls'[s] = NoCall
      PROVE  /\ \A q \in calls[s].seenRooms, r \in Keys :
                  roomId[r] # roomId'[r] => roomId[q] # roomId'[r]
             /\ \A i \in calls[s].seenAids, j \in AidKeys :
                  aidName[j] # aidName'[j] =>
                    aidName[i] # aidName'[j] \/ Trim[aidName'[j]] # aidName'[j]
  <2>1. Informed(calls[s]) /\ calls[s] # NoCall
    BY <1>1 DEF RecordInv, CallInv, NoCall
  <2>2. CASE UNCHANGED <<roomId, aidName>>
    BY <2>2
  <2>3. ASSUME NEW t \in Slots, RoomCreated(t) PROVE t = s
    BY <1>1, <2>1, <2>3 DEF RoomCreated, Done, RecordInv, TypeOK
  <2>4. ASSUME NEW t \in Slots, AidServiceSaved(t) PROVE t = s
    BY <1>1, <2>1, <2>4 DEF AidServiceSaved, Done, RecordInv, TypeOK
  <2>5. CASE RoomCreated(s)
    <3>1. PICK r \in Keys \ Rooms : roomId' = [roomId EXCEPT ![r] = calls[s].id]
      BY <2>5 DEF RoomCreated
    <3> QED BY <1>1, <2>1, <2>5, <3>1 DEF RoomCreated, Informed, RecordInv, TypeOK
  <2>6. CASE AidServiceSaved(s)
    <3>1. PICK i \in AidKeys \ Aids : aidName' = [aidName EXCEPT ![i] = calls[s].name]
      BY <2>6 DEF AidServiceSaved
    <3> QED BY <1>1, <2>1, <2>6, <3>1 DEF AidServiceSaved, Informed, RecordInv, TypeOK
  <2>7. \/ UNCHANGED <<roomId, aidName>>
        \/ \E t \in Slots : RoomCreated(t) \/ AidServiceSaved(t)
    BY <1>1 DEF Next, CreateRoom, CreateAidService, UpdateAidService, AddAidService,
       InsertFailed, AddParticipantsToRoom, RequestAidService, RoomCompared, EditCommitted,
       EditRefused, EditFailed, FailureHidden
  <2> QED BY <2>2, <2>3, <2>4, <2>5, <2>6, <2>7
<1>2. RecordInv /\ [Next]_vars => [NewRecordsDiffer]_vars
  BY <1>1 DEF NewRecordsDiffer
<1> QED BY <1>2, RecordInvariant, PTL DEF TwinsOverlap, Spec

-----------------------------------------------------------------------------
(* The rooms implement AtomicRows *)

LEMMA AspectsAreColumns == \A columns \in Aspects : columns \in SUBSET Columns
BY ColumnsAre DEF Aspects

\* Only an insert adds a room, and only the end of an edit writes to one or takes
\* back what was promised of it.
LEMMA WhatWrites ==
  ASSUME [Next]_vars
  PROVE  \/ UNCHANGED <<table, due, roomId>>
         \/ \E s \in Slots : RoomCreated(s) \/ EditCommitted(s) \/ FailureHidden(s)
<1>1. ASSUME NEW s \in Slots,
             \/ CreateRoom(s) \/ CreateAidService(s) \/ UpdateAidService(s)
             \/ AidServiceSaved(s) \/ InsertFailed(s)
      PROVE  UNCHANGED <<table, due, roomId>>
  BY <1>1 DEF rowVars, CreateRoom, CreateAidService, UpdateAidService, AddAidService,
              AidServiceSaved, InsertFailed
<1>2. ASSUME NEW s \in Slots,
             \/ AddParticipantsToRoom(s) \/ RequestAidService(s) \/ RoomCompared(s)
             \/ EditRefused(s) \/ EditFailed(s)
      PROVE  UNCHANGED <<table, due, roomId>>
  BY <1>2 DEF AddParticipantsToRoom, RequestAidService, ReadRow, RoomCompared,
              CompareColumns, EditRefused, EditFailed, AbandonEdit
<1>3. CASE UNCHANGED vars
  BY <1>3 DEF vars, rowVars
<1>4. CASE Next
  BY <1>1, <1>2, <1>4 DEF Next
<1> QED BY <1>3, <1>4

LEMMA PromisedStart ==
  ASSUME RecordInv, due = table
  PROVE  Promised!RowsInit
BY RowAssumption DEF Promised!RowsInit, Promised!Row, Row, Reliable, RecordInv, TypeOK, RowTypes

\* A change of one aspect of a room is one of AtomicRows.
LEMMA LastingChange ==
  ASSUME RecordInv, RecordInv', Rooms' = Rooms, NEW columns \in Aspects, Lasts(columns)
  PROVE  Promised!Change(columns)
<1> DEFINE old == Reliable(Rooms)
           next == [k \in Keys |-> IF k \notin Rooms THEN NoKey
                                  ELSE IF due'[k] = Unknown THEN Unknown ELSE table'[k]]
<1>1. columns \in SUBSET Columns /\ RowTypes /\ RowTypes'
  BY AspectsAreColumns DEF RecordInv, TypeOK
<1>2. next = Reliable(Rooms)'
  BY DEF Reliable
<1>3. /\ old = Reliable(Rooms)
      /\ next = [k \in Keys |-> IF k \notin Rooms THEN NoKey
                                ELSE IF due'[k] = Unknown THEN Unknown ELSE table'[k]]
  OBVIOUS
<1> HIDE DEF old, next
<1>4. /\ next \in [Keys -> Row \cup {NoKey, Unknown}]
      /\ \A k \in Keys : old[k] \in {NoKey, Unknown} => next[k] = old[k]
      /\ \A j, k \in Keys :
           next[j] \notin {old[j], Unknown} /\ next[k] \notin {old[k], Unknown} =>
             /\ \A c \in Columns \ columns : next[k][c] = old[k][c]
             /\ \A c \in columns : next[j][c] = next[k][c]
  BY <1>1, <1>3, ReliableChange
<1> QED BY <1>2, <1>3, <1>4 DEF Promised!Change, Promised!Changed, Promised!Row, Row

LEMMA PromisedStep ==
  ASSUME RecordInv, RecordInv', [Next]_vars
  PROVE  [Promised!RowsNext]_(Reliable(Rooms))
<1>1. CASE UNCHANGED <<table, due, roomId>>
  BY <1>1 DEF Reliable, Rooms
<1>2. ASSUME NEW s \in Slots, RoomCreated(s) PROVE Promised!RowsNext
  <2>1. PICK r, row : /\ r \in Keys \ Rooms /\ InsertRow(r, row)
                      /\ roomId' = [roomId EXCEPT ![r] = calls[s].id]
    BY <1>2 DEF RoomCreated
  <2>2. Rooms' = Rooms \cup {r}
    <3>1. calls[s].id \in RoomIds
      BY <1>2 DEF RoomCreated, RecordInv, CallInv, Informed
    <3> QED BY <2>1, <3>1, RoomAssumption DEF Rooms, RecordInv, TypeOK
  <2>3. /\ Reliable(Rooms)[r] = NoKey /\ Reliable(Rooms)'[r] = table'[r]
        /\ table'[r] \in Row
    BY <2>1, <2>2, RowAssumption DEF Reliable, InsertRow, RecordInv, TypeOK, RowTypes
  <2>4. \A k \in Keys \ {r} : Reliable(Rooms)'[k] = Reliable(Rooms)[k]
    BY <2>1, <2>2 DEF Reliable, InsertRow, RecordInv, TypeOK, RowTypes
  <2>5. Reliable(Rooms)' = [Reliable(Rooms) EXCEPT ![r] = Reliable(Rooms)'[r]]
    BY <2>4 DEF Reliable
  <2> QED BY <2>1, <2>3, <2>5 DEF Promised!RowsNext, Promised!Insert, Promised!Row, Row
<1>3. ASSUME NEW s \in Slots, EditCommitted(s) \/ FailureHidden(s) PROVE Promised!RowsNext
  <2>1. Lasts(edits[s].asked)
    BY <1>3, SaveLasts, LoseLasts DEF EditCommitted, FailureHidden, RecordInv
  <2>2. edits[s].asked \in Aspects /\ Rooms' = Rooms
    BY <1>3 DEF EditCommitted, FailureHidden, RecordInv, EditInv, Rooms
  <2> QED BY <2>1, <2>2, LastingChange DEF Promised!RowsNext
<1> QED BY <1>1, <1>2, <1>3, WhatWrites

\* Whatever the edits read and save, an invitation changes who is invited and a request
\* for help who was asked, unless requests overlap on the room or a failure is hidden:
\* AtomicRows.
THEOREM RoomsChangeAtomically == Spec => OneChangeAtATime
<1>1. Init => Promised!RowsInit
  BY InitGivesRecordInv, PromisedStart DEF Init
<1>2. RecordInv /\ RecordInv' /\ [Next]_vars => [Promised!RowsNext]_(Reliable(Rooms))
  BY PromisedStep
<1> QED BY <1>1, <1>2, RecordInvariant, PTL DEF Spec, OneChangeAtATime, Promised!RowsSpec
=============================================================================
