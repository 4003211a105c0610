---------------------------- MODULE MCCallGateway ----------------------------
(***************************************************************************)
(* Instances of the call gateway for TLC.                                  *)
(***************************************************************************)
EXTENDS CallGateway, TLC

CONSTANT Owner   \* the socket of the owner of every room of the instance

MCOwnerSockets == [r \in Rooms |-> {Owner}]

\* Nothing tells apart two slots, two rooms or two clients other than the owner.
Alike == Permutations(Calls) \cup Permutations(Rooms) \cup Permutations(Sockets \ {Owner})

\* What the clients of each run send: the owner, and the others.
Say(owner, others) == [s \in Sockets |-> IF s = Owner THEN owner ELSE others]

\* Members of a room, their transports and their data, and what is said about others,
\* gone ones included, with a worker and a database that fail.
RoomRequests ==
  Say({"join", "receiveTransport", "consumeData", "modifyContext", "acceptPreference",
       "disconnect"},
      {"join", "sendTransport", "produceData", "requestToJoin", "react", "disconnect"})

\* Who is asked to let others in.
AdminRequests ==
  Say({"join", "modifyContext", "acceptPreference", "disconnect"},
      {"join", "requestToJoin", "react", "disconnect"})

\* Two who share their screens.
ScreenRequests ==
  Say({"join", "sendTransport", "screenShare", "modifyContext", "disconnect"},
      {"join", "sendTransport", "screenShare", "stopSharing", "disconnect"})

\* One client's microphone and camera, produced again and again; whoever else asks
\* for its toggles would ask for the same.
MuteRequests ==
  Say({"join", "sendTransport", "produce", "produceUntagged", "toggle", "consumerReady",
       "closeProducer", "disconnect"}, {})

\* Enough to produce one kind again with another one tracked.
ThreeProducers == Cardinality(created) <= 3

\* The guest produces, the owner consumes.
PlayRequests ==
  Say({"receiveTransport", "consume", "consumerReady"},
      {"join", "sendTransport", "produce", "disconnect"})

\* Who comes to two rooms, comes back and goes.
JoinRequests == Say({"join", "disconnect"}, {"join", "sendTransport", "disconnect"})

=============================================================================
