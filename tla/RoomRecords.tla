----------------------------- MODULE RoomRecords -----------------------------
(***************************************************************************)
(* The tables Room and AidService: rooms, who is invited and who was asked *)
(* for help in them (src/src/call/room.service.ts and                      *)
(* src/src/aid-service/aid-service.service.ts).  Neither table has a       *)
(* unique index; what should be there once is looked for before it is put  *)
(* in.  As in Accounts, a step goes from one await to the next, and a      *)
(* request that is refused changes nothing and is left out.                *)
(***************************************************************************)
EXTENDS RowEdits, Naturals, FiniteSets

CONSTANTS
  RoomIds,   \* what generateUniqueID makes of the names that clients give
  Names,     \* names of aid services, as clients spell them
  Trim,      \* Trim[n]: n without blanks around it
  People,    \* whom clients invite, and who offers aid services
  NoName,    \* no aid service
  NoRoomId,  \* no room
  AidKeys,   \* primary keys of aid services
  Yes, No

\* A room's invitees are rows of a join table, one column for each; its providers
\* are one column of JSON.
ASSUME RoomAssumption ==
  /\ Columns = People \cup {"providers"} /\ "providers" \notin People
  /\ {Yes, No} \cup SUBSET People \subseteq Values /\ Yes # No
  /\ Trim \in [Names -> Names] /\ \A n \in Names : Trim[Trim[n]] = Trim[n]
  /\ NoName \notin Names /\ NoRoomId \notin RoomIds
  /\ IsFiniteSet(Keys) /\ IsFiniteSet(AidKeys)

VARIABLES
  roomId,   \* roomId[r]: the id of room r, NoRoomId if there is no such row
  aidName,  \* aidName[i]: the name of aid service i, NoName if there is none
  calls     \* calls[s]: the insert that slot s is at

vars == <<rowVars, roomId, aidName, calls>>

Call == [op : {"none", "room", "aid"}, id : RoomIds \cup {NoRoomId},
         name : Names \cup {NoName},
         \* history: what the check saw, and the aid service that was to be edited
         seenRooms : SUBSET Keys, seenAids : SUBSET AidKeys, edited : SUBSET AidKeys]

NoCall == [op |-> "none", id |-> NoRoomId, name |-> NoName,
           seenRooms |-> {}, seenAids |-> {}, edited |-> {}]

TypeOK ==
  /\ RowTypes
  /\ roomId \in [Keys -> RoomIds \cup {NoRoomId}]
  /\ aidName \in [AidKeys -> Names \cup {NoName}]
  /\ calls \in [Slots -> Call]

Rooms   == {r \in Keys : roomId[r] # NoRoomId}
Aids    == {i \in AidKeys : aidName[i] # NoName}
Idle(s) == calls[s] = NoCall /\ ~Editing(s)
Done(s) == calls' = [calls EXCEPT ![s] = NoCall]

Inserting(op) == {s \in Slots : calls[s].op = op}

-----------------------------------------------------------------------------
(* createRoom *)

\* generateUniqueID asks through the repository, outside the transaction, until
\* it has an id that no room has.  Keys bounds the rooms.
CreateRoom(s) ==
  /\ Idle(s)
  /\ Cardinality(Rooms) + Cardinality(Inserting("room")) < Cardinality(Keys)
  /\ \E id \in RoomIds :
       /\ \A r \in Rooms : roomId[r] # id
       /\ calls' = [calls EXCEPT ![s] = [NoCall EXCEPT !.op = "room", !.id = id,
                                                       !.seenRooms = Rooms]]
  /\ UNCHANGED <<rowVars, roomId, aidName>>

RoomCreated(s) ==
  /\ calls[s].op = "room"
  /\ \E r \in Keys \ Rooms :
       /\ InsertRow(r, [c \in Columns |-> IF c = "providers" THEN {} ELSE No])
       /\ roomId' = [roomId EXCEPT ![r] = calls[s].id]
  /\ Done(s)
  /\ UNCHANGED aidName

-----------------------------------------------------------------------------
(* createAidService, updateAidService *)

\* Mistake: a name may be used again.
AnyName(name) == TRUE

\* The name that is looked for: createAidService trims it, updateAidService does not.
NameFree(name) == \A i \in Aids : aidName[i] # name

AddAidService(s, name, edited) ==
  /\ Idle(s)
  /\ Cardinality(Aids) + Cardinality(Inserting("aid")) < Cardinality(AidKeys)
  /\ calls' = [calls EXCEPT ![s] = [NoCall EXCEPT !.op = "aid", !.name = name,
                                                  !.seenAids = Aids, !.edited = edited]]
  /\ UNCHANGED <<rowVars, roomId, aidName>>

CreateAidService(s) == \E n \in Names : NameFree(Trim[n]) /\ AddAidService(s, n, {})

\* The service is looked up, but what is saved is a new object without its id:
\* save makes a row of it, and leaves the service as it is.
UpdateAidService(s) ==
  \E i \in Aids, n \in Names : NameFree(n) /\ AddAidService(s, n, {i})

\* The name goes in as it was given.
AidServiceSaved(s) ==
  /\ calls[s].op = "aid"
  /\ \E i \in AidKeys \ Aids : aidName' = [aidName EXCEPT ![i] = calls[s].name]
  /\ Done(s)
  /\ UNCHANGED <<rowVars, roomId>>

InsertFailed(s) ==
  /\ calls[s].op # "none"
  /\ Done(s)
  /\ UNCHANGED <<rowVars, roomId, aidName>>

-----------------------------------------------------------------------------
(* Edits of rooms *)

\* Mistake: those who are found take the place of those who were invited.
ReplaceParticipants(s) ==
  /\ Idle(s)
  /\ \E r \in Rooms \cap Edited, found \in SUBSET People :
       ReadRow(s, r, [c \in Columns |-> IF c \in found THEN Yes
                                       ELSE IF c \in People THEN No ELSE table[r][c]],
               found, Columns)
  /\ UNCHANGED <<roomId, aidName, calls>>

\* addParticipantsToRoom: those who are found by email or phone join those who
\* were invited before.  What is saved is the whole room that was read, its
\* providers too.  Of several rooms with the id, any is found.
AddParticipantsToRoom(s) ==
  /\ Idle(s)
  /\ \E r \in Rooms \cap Edited, found \in SUBSET People :
       ReadRow(s, r, [c \in Columns |-> IF c \in found THEN Yes ELSE table[r][c]], found, Columns)
  /\ UNCHANGED <<roomId, aidName, calls>>

\* Mistake: the list of those who were asked is put into the list of providers.
RequestAidServiceNested(s) ==
  /\ Idle(s)
  /\ \E r \in Rooms \cap Edited, requested \in (SUBSET People) \ {{}} :
       ReadRow(s, r, [table[r] EXCEPT !["providers"] = @ \cup {requested}],
               {"providers"}, {"providers"})
  /\ UNCHANGED <<roomId, aidName, calls>>

\* Mistake: who is asked for help is invited, too.
RequestAidServiceInvites(s) ==
  /\ Idle(s)
  /\ \E r \in Rooms \cap Edited, requested \in (SUBSET People) \ {{}} :
       ReadRow(s, r, [c \in Columns |-> IF c \in requested THEN Yes
                                       ELSE IF c = "providers" THEN table[r][c] \cup requested
                                       ELSE table[r][c]],
               requested \cup {"providers"}, Columns)
  /\ UNCHANGED <<roomId, aidName, calls>>

\* requestAidService: everyone who offers the service is asked, and added to the
\* room's providers.  The saves, one for each, are of one object that has them all.
RequestAidService(s) ==
  /\ Idle(s)
  /\ \E r \in Rooms \cap Edited, requested \in (SUBSET People) \ {{}} :
       ReadRow(s, r, [table[r] EXCEPT !["providers"] = @ \cup requested],
               {"providers"}, {"providers"})
  /\ UNCHANGED <<roomId, aidName, calls>>

\* save reads the room's row first, then the join table of its invitees, if they
\* are part of the object.
RoomCompared(s) ==
  /\ Editing(s) /\ edits[s].left # {}
  /\ CompareColumns(s, IF "providers" \in edits[s].left THEN {"providers"} ELSE edits[s].left)
  /\ UNCHANGED <<roomId, aidName, calls>>

EditCommitted(s) ==
  /\ Editing(s) /\ edits[s].left = {} /\ ~Conflict(s, People, Yes)
  /\ SaveRow(s)
  /\ UNCHANGED <<roomId, aidName, calls>>

\* addParticipantsToRoom has no list of participants to answer with: an error.
EditRefused(s) ==
  /\ Editing(s) /\ edits[s].left = {} /\ Conflict(s, People, Yes)
  /\ AbandonEdit(s)
  /\ UNCHANGED <<roomId, aidName, calls>>

\* Any query fails, and the client is told so.
EditFailed(s) ==
  /\ Editing(s)
  /\ AbandonEdit(s)
  /\ UNCHANGED <<roomId, aidName, calls>>

\* A failure that the client is not told of.  requestAidService settles its saves
\* without looking at what became of them; the transaction that one of them broke
\* is rolled back by COMMIT, which is no error.  addParticipantsToRoom has its answer
\* before COMMIT, and gives it if COMMIT fails.
FailureHidden(s) ==
  /\ Editing(s)
  /\ edits[s].asked = {"providers"} \/ edits[s].left = {}
  /\ LoseEdit(s)
  /\ UNCHANGED <<roomId, aidName, calls>>

-----------------------------------------------------------------------------
Init ==
  /\ table = [r \in Keys |-> [c \in Columns |-> IF c = "providers" THEN {} ELSE No]]
  /\ due = table
  /\ roomId = [r \in Keys |-> NoRoomId]
  /\ aidName = [i \in AidKeys |-> NoName]
  /\ edits = [s \in Slots |-> NoEdit]
  /\ calls = [s \in Slots |-> NoCall]

Next ==
  \E s \in Slots :
    \/ CreateRoom(s) \/ RoomCreated(s)
    \/ CreateAidService(s) \/ UpdateAidService(s) \/ AidServiceSaved(s) \/ InsertFailed(s)
    \/ AddParticipantsToRoom(s) \/ RequestAidService(s)
    \/ RoomCompared(s) \/ EditCommitted(s) \/ EditRefused(s) \/ EditFailed(s)
    \/ FailureHidden(s)

Spec == Init /\ [][Next]_vars

-----------------------------------------------------------------------------
(* Properties *)

NewRecordsDiffer ==
  \A s \in Slots : calls[s].op # "none" /\ calls'[s] = NoCall =>
    /\ \A q \in calls[s].seenRooms, r \in Keys :
         roomId[r] # roomId'[r] => roomId[q] # roomId'[r]
    /\ \A i \in calls[s].seenAids, j \in AidKeys :
         aidName[j] # aidName'[j] =>
           aidName[i] # aidName'[j] \/ Trim[aidName'[j]] # aidName'[j]

\* A room gets the id of another, or an aid service the name of another ("Aid
\* Service alreay exists", aid-service.service.ts:37), only if the two were made at
\* the same time, or if the service's name was given with blanks around it.
TwinsOverlap == [][NewRecordsDiffer]_vars

\* What one request is about: who is invited, or who was asked for help.
Aspects == (SUBSET People) \cup {{"providers"}}

Promised == INSTANCE AtomicRows WITH
  rows <- Reliable(Rooms), NoRow <- NoKey, Lost <- Unknown

\* An invitation adds who was found and a request for help who was asked, all of
\* them at once.  Neither changes what the other is about, though an invitation saves
\* the providers, too, as it read them some steps before: unless requests overlap on
\* the room or a failure was hidden, when nothing is promised of it any more.
OneChangeAtATime == Promised!RowsSpec

\* An aid service that a client edits has the name that was given from then on
\* ("Aid serice edited successfully", aid-service.controller.ts:53).
EditsAreDone ==
  [][\A s \in Slots : \A i \in calls[s].edited :
       calls'[s] = NoCall /\ aidName' # aidName => aidName'[i] = calls[s].name]_vars

\* A request for help that is answered as done ("Aid service request successful",
\* aid-service.controller.ts:44) has everyone it asked in the room's providers.
RequestsAreDone ==
  [][\A s \in Slots :
       (EditCommitted(s) \/ FailureHidden(s)) /\ edits[s].asked = {"providers"} =>
         edits[s].mine["providers"] \subseteq table'[edits[s].key]["providers"]]_vars

=============================================================================
