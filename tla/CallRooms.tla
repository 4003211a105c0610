------------------------------ MODULE CallRooms ------------------------------
(***************************************************************************)
(* Being in a room: joining and leaving it, the transports of a member,    *)
(* what a member's entry says about it and what the room's context says.   *)
(***************************************************************************)
EXTENDS CallState

-----------------------------------------------------------------------------
(* joinRoom: the room's router, then the room's row, then the entry.         *)

\* Mistake: the check of roomRouters[room] is gone.
JoinRoomUnchecked(c, s, r) ==
  /\ Asks(s, "join")
  /\ Start(c, [op |-> "createRouter", room |-> r, user |-> s])
  /\ UNCHANGED <<sockets, roomRouters, registry, roomContexts, media, asked, raced>>

\* Mistake: the socket joins the socket.io room before the awaits.
JoinRoomEarly(c, s, r) ==
  /\ Asks(s, "join")
  /\ Start(c, [op |-> IF roomRouters[r] = 0 THEN "createRouter" ELSE "getRoom",
               room |-> r, user |-> s])
  /\ members' = [members EXCEPT ![r] = @ \cup {s}]
  /\ UNCHANGED <<connected, roomRouters, registry, roomContexts, media, asked, raced>>

\* The router is made by whoever finds none, whether or not one is on its way.
JoinRoom(c, s, r) ==
  /\ Asks(s, "join")
  /\ Start(c, [op |-> IF roomRouters[r] = 0 THEN "createRouter" ELSE "getRoom",
               room |-> r, user |-> s])
  /\ UNCHANGED <<sockets, roomRouters, registry, roomContexts, media, asked, raced>>

\* Mistake: the handler that makes the router returns.
RouterCreatedAndDone(c) ==
  /\ calls[c].op = "createRouter"
  /\ roomRouters[calls[c].room] < MaxRouters
  /\ roomRouters' = [roomRouters EXCEPT ![calls[c].room] = @ + 1]
  /\ Finish(c)
  /\ Overtake(calls[c].room, NoSocket, {c})
  /\ UNCHANGED <<sockets, registry, roomContexts, media, asked>>

\* updateRoomRouter: the newest router replaces the room's.  Only a room without
\* router gets one, so no room gets more than Calls has slots: with MaxRouters at
\* least that the second guard never holds a handler up.
RouterCreated(c) ==
  /\ calls[c].op = "createRouter"
  /\ roomRouters[calls[c].room] < MaxRouters
  /\ roomRouters' = [roomRouters EXCEPT ![calls[c].room] = @ + 1]
  /\ calls' = [calls EXCEPT ![c].op = "getRoom"]
  /\ Overtake(calls[c].room, NoSocket, {c})
  /\ UNCHANGED <<sockets, registry, roomContexts, media, asked>>

\* The entry, the context's sharer and the socket.io room, in one go.  The rest
\* of an entry that is already there stays, the list of consumers excepted.  For a
\* socket that has gone meanwhile, client.join does nothing.
RoomFetched(c) ==
  LET r == calls[c].room
      s == calls[c].user IN
  /\ calls[c].op = "getRoom"
  /\ UpdateRoomSocketUser(r, s, [roomsUsers[r][s] EXCEPT !.joined = TRUE,
                                   !.isAdmin = s \in OwnerSockets[r], !.consumers = {}])
  /\ roomContexts' = [roomContexts EXCEPT ![r].sharer = NoSocket]
  /\ members' = [members EXCEPT ![r] = @ \cup ({s} \cap connected)]
  /\ Finish(c)
  /\ UNCHANGED <<connected, roomRouters, media, asked, raced>>

-----------------------------------------------------------------------------
(* createTransport *)

CreateTransport(c, s, r, isProducer) ==
  /\ Asks(s, IF isProducer THEN "sendTransport" ELSE "receiveTransport")
  /\ roomRouters[r] # 0
  /\ Start(c, [op |-> "createTransport", room |-> r, user |-> s,
               isProducer |-> isProducer, router |-> roomRouters[r]])
  /\ UNCHANGED <<sockets, roomRouters, registry, roomContexts, media, asked, raced>>

TransportCreated(c) ==
  LET call == calls[c]
      old == roomsUsers[call.room][call.user] IN
  /\ call.op = "createTransport"
  /\ UpdateRoomSocketUser(call.room, call.user,
       IF call.isProducer THEN [old EXCEPT !.producerTransport = call.router]
                          ELSE [old EXCEPT !.consumerTransport = call.router])
  /\ Finish(c)
  /\ UNCHANGED <<sockets, roomRouters, roomContexts, media, asked, raced>>

-----------------------------------------------------------------------------
(* Requests that name the user they are about: socketId, or the sender.  What *)
(* they write in the entry (a raised hand, a way to communicate) decides      *)
(* nothing here; that they make an entry does.                                *)

SetUserReaction(s, r, t) ==
  /\ Asks(s, "react")
  /\ r \in openRooms
  /\ UpdateRoomSocketUser(r, t, roomsUsers[r][t])
  /\ UNCHANGED <<sockets, roomRouters, roomContexts, media, asked, calls, raced>>

\* Mistake: the preferences replace the entry.
AcceptanceOverwrites(s, r, t) ==
  /\ Asks(s, "acceptPreference")
  /\ UpdateRoomSocketUser(r, t, EmptyUser)
  /\ UNCHANGED <<sockets, roomRouters, roomContexts, media, asked, calls, raced>>

AccessibilityPreferenceAcceptance(s, r, t) ==
  /\ Asks(s, "acceptPreference")
  /\ UpdateRoomSocketUser(r, t, roomsUsers[r][t])
  /\ UNCHANGED <<sockets, roomRouters, roomContexts, media, asked, calls, raced>>

\* What a message sets in a context; a field that it does not carry has the value it
\* had.  Clients are assumed not to send screenShareProducer, which is an object of
\* the worker: what they could put in its place cannot be closed.
Message == [presenter : MaybeSocket, sharer : MaybeSocket, sharing : BOOLEAN]

\* The context with the message merged in, whatever the message says.
Merged(context, message) ==
  [context EXCEPT !.presenter = message.presenter,
                  !.sharer = message.sharer, !.sharing = message.sharing,
                  !.said = @ \/ context.sharer # message.sharer
                             \/ context.sharing # message.sharing]

RoomContextModification(s, r, message) ==
  /\ Asks(s, "modifyContext")
  /\ roomContexts' = [roomContexts EXCEPT ![r] = Merged(@, message)]
  /\ UNCHANGED <<sockets, roomRouters, registry, media, asked, calls, raced>>

\* requestTojOIN: the request goes to one of the admins the room lists.  A room
\* with none answers "No admin is connected yet", or an error, and nothing goes out.
RequestToJoin(s, r) ==
  /\ Asks(s, "requestToJoin")
  /\ \E admin \in listed[r] :
       /\ roomsUsers[r][admin].joined /\ roomsUsers[r][admin].isAdmin
       /\ asked' = admin
  /\ UNCHANGED <<sockets, roomRouters, registry, roomContexts, media, calls, raced>>

-----------------------------------------------------------------------------
(* notifyAndDeleteClosedProducers.  socket.io has taken the socket out of its *)
(* rooms; the gateway looks for one room that lists it and cleans that one.   *)

\* Mistakes: what is not there or closed is closed; the video is forgotten.
UncheckedMedia(r, s) == {roomsUsers[r][s].producer[k] : k \in SwitchKinds}

AudioOnly(r, s) == {roomsUsers[r][s].producer["audio"]} \cap open

TrackedMedia(r, s) == {roomsUsers[r][s].producer[k] : k \in SwitchKinds} \cap open

\* Mistakes: the share is not taken out of the context; the end of the presentation
\* writes back the context as it was before the end of the share.
ContextStillShares(context, s) ==
  [context EXCEPT !.presenter = IF @ = s THEN NoSocket ELSE @]

ContextWrittenBack(context, s) ==
  IF context.presenter = s THEN [context EXCEPT !.presenter = NoSocket]
  ELSE IF context.sharer = s THEN ShareEnded(context)
  ELSE context

\* What becomes of the context when s leaves: the end of its share, as
\* screenSharingStopped has it, and the end of its presentation.
ContextWithout(context, s) ==
  LET stopped == IF context.sharer = s THEN ShareEnded(context) ELSE context
  IN [stopped EXCEPT !.presenter = IF @ = s THEN NoSocket ELSE @]

SharedBy(context, s) == IF context.sharer = s THEN {context.screen} \cap open ELSE {}

Leave(s) ==
  /\ Asks(s, "disconnect")
  /\ connected' = connected \ {s}
  /\ members' = [r \in Rooms |-> members[r] \ {s}]

DisconnectUnlisted(s) ==
  /\ Leave(s)
  /\ \A r \in Rooms : s \notin listed[r]
  /\ UNCHANGED <<roomRouters, registry, roomContexts, media, asked, calls, raced>>

DisconnectMember(s, r) ==
  /\ Leave(s)
  /\ s \in listed[r] /\ roomsUsers[r][s].joined
  /\ closed' = closed \cup TrackedMedia(r, s) \cup SharedBy(roomContexts[r], s)
  /\ roomContexts' = [roomContexts EXCEPT ![r] = ContextWithout(@, s)]
  /\ roomsUsers' = [roomsUsers EXCEPT ![r][s] = EmptyUser]
  /\ listed' = [listed EXCEPT ![r] = @ \ {s}]
  /\ Overtake(r, s, {})
  /\ UNCHANGED <<openRooms, roomRouters, created, paused, playing, asked, calls>>

\* An entry that no join made has no `room`: the producers are closed, then the
\* look-up of roomsUsers[undefined] throws and the entry stays.
DisconnectStranger(s, r) ==
  /\ Leave(s)
  /\ s \in listed[r] /\ ~roomsUsers[r][s].joined
  /\ closed' = closed \cup TrackedMedia(r, s)
  /\ UNCHANGED <<registry, roomContexts, roomRouters, created, paused, playing,
                 asked, calls, raced>>

Disconnect(s) ==
  \/ DisconnectUnlisted(s)
  \/ \E r \in Rooms : DisconnectMember(s, r) \/ DisconnectStranger(s, r)

=============================================================================
