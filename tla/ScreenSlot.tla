------------------------------ MODULE ScreenSlot ------------------------------
(***************************************************************************)
(* What screen sharing promises a room: one share at a time.  A share that *)
(* begins ends the one before it, and a share that ended never comes back. *)
(***************************************************************************)
CONSTANTS Rooms, Shares, NoShare

VARIABLES
  live,   \* live[r]: the share that room r sees, NoShare when there is none
  ended   \* shares that are over

slotVars == <<live, ended>>

SlotInit == live = [r \in Rooms |-> NoShare] /\ ended = {}

\* The share that room r sees is over.
EndLive(r) == ended' = ended \cup ({live[r]} \ {NoShare})

Begin(r, p) ==
  /\ p \notin ended /\ \A q \in Rooms : live[q] # p
  /\ live' = [live EXCEPT ![r] = p]
  /\ EndLive(r)

Stop(r) == live' = [live EXCEPT ![r] = NoShare] /\ EndLive(r)

SlotNext == \E r \in Rooms : Stop(r) \/ \E p \in Shares : Begin(r, p)

SlotSpec == SlotInit /\ [][SlotNext]_slotVars

=============================================================================
