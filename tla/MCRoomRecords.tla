---------------------------- MODULE MCRoomRecords ----------------------------
(***************************************************************************)
(* An instance of the room records for TLC: one name of an aid service,    *)
(* with and without blanks.                                                *)
(***************************************************************************)
EXTENDS RoomRecords, TLC

CONSTANTS name, blank_name

MCNames == {name, blank_name}
MCTrim == [n \in MCNames |-> name]
MCColumns == People \cup {"providers"}
MCValues == {Yes, No} \cup SUBSET People

Alike == Permutations(Slots) \cup Permutations(RoomIds) \cup Permutations(AidKeys)
         \cup Permutations(People)
=============================================================================
