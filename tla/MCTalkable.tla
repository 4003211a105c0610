------------------------------ MODULE MCTalkable ------------------------------
(***************************************************************************)
(* A registered user with two clients, two guests of one name who share a  *)
(* third, and an admin.                                                    *)
(***************************************************************************)
EXTENDS TalkableGateway

CONSTANTS ana, guest, visitor, admin, a1, a2, g1, d1

MCSpeaks ==
  [s \in Sockets |-> CASE s \in {a1, a2} -> {ana}
                       [] s = g1         -> {guest, visitor}
                       [] OTHER          -> {admin}]

MCIdOf == [p \in People |-> IF p \in {guest, visitor} THEN NoId ELSE p]

MCNameOf == [p \in People |-> IF p = visitor THEN guest ELSE p]

\* A phone number each.
MCChatOf == [p \in People |-> p]

=============================================================================
