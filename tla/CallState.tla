------------------------------ MODULE CallState ------------------------------
(***************************************************************************)
(* The state of the call gateway (src/src/call/call.gateway.ts): the maps  *)
(* it keeps in the process, the socket.io rooms and the mediasoup objects  *)
(* it drives, and the handlers that are suspended at an `await`.           *)
(*                                                                         *)
(* Node runs one handler at a time; a handler runs without interruption up *)
(* to its next await of the mediasoup worker or of the database.  So a     *)
(* handler is modelled as one action per uninterrupted segment, and what   *)
(* it holds in local variables across an await is a record in `calls`.     *)
(* An await of a value that is already there (an async method that does no *)
(* I/O) is not a point where another request gets in.                      *)
(***************************************************************************)
EXTENDS Naturals, FiniteSets

CONSTANTS
  Sockets,       \* client connections; a socket id is never used twice
  Rooms,         \* room ids
  OwnerSockets,  \* OwnerSockets[r]: the sockets of the user who owns room r
  Calls,         \* bound: how many handlers can be suspended at once
  Requests,      \* Requests[s]: the kinds of request that client s sends
  Faults,        \* may the worker or the database reject what it is asked?
  MaxRouters,    \* bound: routers created per room
  MaxProducers,  \* bound: producers per socket, room and kind
  NoSocket,      \* undefined, or '', where a socket id is expected
  NoProducer     \* undefined, or null, where a producer is expected

SwitchKinds == {"audio", "video"}          \* what a client can turn on and off
UserKinds   == SwitchKinds \cup {"data"}   \* what a roomsUsers entry tracks

\* What can be produced: "screen" is tracked by the room, "untagged" (mediaKind
\* 'data' or none in a request to produce) by nobody.
Kinds == UserKinds \cup {"screen", "untagged"}

\* What never changes about a producer is its identity: its number counts what its
\* socket produced of its kind in its room.  A router is known by its number within
\* its room.
Producer == [by : Sockets, room : Rooms, kind : Kinds,
             router : 1..MaxRouters, nr : 1..MaxProducers]

MaybeProducer == Producer \cup {NoProducer}
MaybeSocket   == Sockets \cup {NoSocket}

ASSUME CallAssumption ==
  /\ OwnerSockets \in [Rooms -> SUBSET Sockets]
  /\ MaxRouters \in Nat /\ MaxProducers \in Nat
  /\ DOMAIN Requests = Sockets
  /\ Faults \in BOOLEAN
  /\ IsFiniteSet(Calls)
  /\ NoSocket \notin Sockets
  /\ NoProducer \notin Producer

VARIABLES
  connected,    \* sockets that are up
  members,      \* members[r]: the sockets that get what is broadcast to room r
  roomRouters,  \* roomRouters[r]: number of the room's router, 0 for none
  roomsUsers,   \* roomsUsers[r][s]: what the gateway knows about s in room r
  listed,       \* listed[r]: the keys of roomsUsers[r]
  openRooms,    \* the keys of roomsUsers
  roomContexts, \* roomContexts[r]: who shares the screen, who presents
  created,      \* producers that exist or existed in the worker
  closed,       \* those that have been closed
  paused,       \* those that are paused
  playing,      \* <<s, p>>: the consumer of p that s asked for was resumed
  asked,        \* the admin that the last request to join was sent to
  calls,        \* calls[c]: the handler suspended in slot c
  raced         \* history: see Overtake

registry == <<roomsUsers, listed, openRooms>>
media    == <<created, closed, paused, playing>>
sockets  == <<connected, members>>
vars     == <<sockets, roomRouters, registry, roomContexts, media, asked, calls, raced>>

open == created \ closed

-----------------------------------------------------------------------------
(* Types *)

\* IUserConnectionDetail.  `joined` stands for the fields only joinRoom writes
\* (userId, socketId, room, ...).  A transport is the number of the router it
\* is on, 0 for none: the gateway never closes one, so nothing tells two
\* transports on one router apart.
User == [joined : BOOLEAN, isAdmin : BOOLEAN,
         producerTransport : 0..MaxRouters, consumerTransport : 0..MaxRouters,
         producer : [UserKinds -> MaybeProducer],
         turnedOff : [SwitchKinds -> BOOLEAN],
         consumers : SUBSET Producer]

EmptyUser == [joined |-> FALSE, isAdmin |-> FALSE,
              producerTransport |-> 0, consumerTransport |-> 0,
              producer |-> [k \in UserKinds |-> NoProducer],
              turnedOff |-> [k \in SwitchKinds |-> FALSE],
              consumers |-> {}]

\* IRoomContext.  `said` is history, for the properties only: a client's message changed
\* isSharing or the sharer since a share last began or ended.
Context == [screen : MaybeProducer, sharing : BOOLEAN, sharer : MaybeSocket,
            presenter : MaybeSocket, said : BOOLEAN]

EmptyContext == [screen |-> NoProducer, sharing |-> FALSE,
                 sharer |-> NoSocket, presenter |-> NoSocket, said |-> FALSE]

\* Suspended handlers, by what they wait for, with what they remember.
Idle          == [op |-> "idle"]
JoinCall      == [op : {"createRouter", "getRoom"}, room : Rooms, user : Sockets]
TransportCall == [op : {"createTransport"}, room : Rooms, user : Sockets,
                  isProducer : BOOLEAN, router : 1..MaxRouters]
ProduceCall   == [op : {"produce"}, room : Rooms, user : Sockets, kind : Kinds,
                  off : BOOLEAN, router : 1..MaxRouters]
ConsumeCall   == [op : {"consume", "consumeData"}, room : Rooms, user : Sockets,
                  producer : Producer]
ToggleCall    == [op : {"toggle"}, room : Rooms, user : Sockets, kind : SwitchKinds,
                  off : BOOLEAN, producer : Producer, flags : [SwitchKinds -> BOOLEAN]]
ReadyCall     == [op : {"consumerReady"}, room : Rooms, user : MaybeSocket,
                  stage : {"video", "audio", "consumer"},
                  tracks : [UserKinds -> MaybeProducer], flags : [SwitchKinds -> BOOLEAN],
                  producer : Producer, consumer : Sockets]

Call == {Idle} \cup JoinCall \cup TransportCall \cup ProduceCall
        \cup ConsumeCall \cup ToggleCall \cup ReadyCall

\* Every variable holds what the code keeps in it.
TypeOK ==
  /\ connected \subseteq Sockets
  /\ members \in [Rooms -> SUBSET Sockets]
  /\ roomRouters \in [Rooms -> 0..MaxRouters]
  /\ roomsUsers \in [Rooms -> [Sockets -> User]]
  /\ listed \in [Rooms -> SUBSET Sockets]
  /\ openRooms \subseteq Rooms
  /\ roomContexts \in [Rooms -> Context]
  /\ created \subseteq Producer
  /\ closed \subseteq created
  /\ paused \subseteq Producer
  /\ playing \subseteq Sockets \X Producer
  /\ asked \in MaybeSocket
  /\ calls \in [Calls -> Call]
  /\ raced \subseteq Rooms \X MaybeSocket

-----------------------------------------------------------------------------
(* afterInit: empty maps and a worker.  Connecting changes no state, so the  *)
(* sockets are up from the start.                                            *)
Init ==
  /\ connected = Sockets
  /\ members = [r \in Rooms |-> {}]
  /\ roomRouters = [r \in Rooms |-> 0]
  /\ roomsUsers = [r \in Rooms |-> [s \in Sockets |-> EmptyUser]]
  /\ listed = [r \in Rooms |-> {}]
  /\ openRooms = {}
  /\ roomContexts = [r \in Rooms |-> EmptyContext]
  /\ created = {} /\ closed = {} /\ paused = {} /\ playing = {}
  /\ asked = NoSocket
  /\ calls = [c \in Calls |-> Idle]
  /\ raced = {}

-----------------------------------------------------------------------------
(* What the handlers share *)

\* A client that is up sends a request of kind k.
Asks(s, k) == s \in connected /\ k \in Requests[s]

\* updateRoomSocketUser(room, socketId, dto): `user` is the entry with dto merged
\* in.  A socket that has no entry gets one, whether it is up or not.
UpdateRoomSocketUser(r, s, user) ==
  /\ roomsUsers' = [roomsUsers EXCEPT ![r][s] = user]
  /\ listed' = [listed EXCEPT ![r] = @ \cup {s}]
  /\ openRooms' = openRooms \cup {r}

\* What the begin and the end of a screen share make of the room's context: both set
\* all that the context says of it.
ShareBegun(context, p) ==
  [context EXCEPT !.screen = p, !.sharing = TRUE, !.sharer = p.by, !.said = FALSE]

ShareEnded(context) ==
  [context EXCEPT !.screen = NoProducer, !.sharing = FALSE, !.sharer = NoSocket, !.said = FALSE]

\* A handler reaches its first await, and its end.
Start(c, call) == calls[c] = Idle /\ calls' = [calls EXCEPT ![c] = call]

Finish(c) == calls' = [calls EXCEPT ![c] = Idle]

\* `raced` remembers, for the properties only, that a handler was overtaken: another
\* one wrote the switches or the producers of user s in room r, or made the router
\* of r (s is NoSocket then), which it had read and will still act upon.  `own` is
\* the slot of the one that writes.
Overtaken(r, s, own) ==
  \E c \in Calls \ own :
    /\ calls[c].op \in (IF s = NoSocket THEN {"createRouter"} ELSE {"toggle", "consumerReady"})
    /\ calls[c].room = r
    /\ s = NoSocket \/ calls[c].user = s

Overtake(r, s, own) == raced' = raced \cup (IF Overtaken(r, s, own) THEN {<<r, s>>} ELSE {})

=============================================================================
