----------------------------- MODULE CallGateway -----------------------------
(***************************************************************************)
(* The call gateway: every request its clients can send, every answer of   *)
(* the mediasoup worker and of the database, in any order, and what must   *)
(* come of it.                                                             *)
(***************************************************************************)
EXTENDS CallRooms, CallMedia

-----------------------------------------------------------------------------
(* What the worker or the database answers to a suspended handler.           *)

\* With an error: the handler ends where it is, by its own catch or thrown out of it.
Rejected(c) ==
  /\ Faults
  /\ calls[c] # Idle
  /\ Finish(c)
  /\ UNCHANGED <<sockets, roomRouters, registry, roomContexts, media, asked, raced>>

Answered(c) ==
  \/ RouterCreated(c) \/ RoomFetched(c) \/ TransportCreated(c) \/ Produced(c)
  \/ Consumed(c) \/ DataConsumed(c) \/ TrackResumed(c) \/ ConsumerResumed(c)
  \/ Toggled(c)

-----------------------------------------------------------------------------
(* Requests                                                                  *)

\* Those that wait for something, in slot c.
Requested(c, s, r) ==
  \/ JoinRoom(c, s, r)
  \/ \E isProducer \in BOOLEAN : CreateTransport(c, s, r, isProducer)
  \/ \E k \in Kinds, off \in BOOLEAN :
       (k \in SwitchKinds \/ ~off) /\ Produce(c, s, r, k, off)
  \/ \E p \in open : Consume(c, s, r, p) \/ ConsumeData(c, s, r, p)
  \/ \E t \in Sockets, p \in created : ConsumerReady(c, s, r, t, p)
  \/ \E t \in Sockets, k \in SwitchKinds, off \in BOOLEAN : Toggle(c, s, r, t, k, off)

\* Those that are done at once.
Done(s, r) ==
  \/ RequestToJoin(s, r)
  \/ \E message \in Message : RoomContextModification(s, r, message)
  \/ \E t \in Sockets :
       \/ SetUserReaction(s, r, t)
       \/ AccessibilityPreferenceAcceptance(s, r, t)
       \/ ScreenSharingStopped(s, r, t)
       \/ \E k \in SwitchKinds :
            \/ ProducerClosed(s, r, t, k)
            \/ \E off \in BOOLEAN : ToggleNothing(s, r, t, k, off)

Next ==
  \/ \E c \in Calls : Answered(c) \/ Rejected(c)
  \/ \E c \in Calls, s \in Sockets, r \in Rooms : Requested(c, s, r)
  \/ \E s \in Sockets, r \in Rooms : Done(s, r)
  \/ \E s \in Sockets : Disconnect(s)

Spec == Init /\ [][Next]_vars

\* A worker and a database that are up answer what they are asked.  Nothing makes
\* a client send a request.
FairSpec == Spec /\ \A c \in Calls : WF_vars(Answered(c))

-----------------------------------------------------------------------------
(* Screen sharing                                                            *)

\* No screen share outlives its place in the room's context: a share that was
\* replaced or stopped is closed, whatever requests were under way ("clean up
\* previouse sharing" in produce, screenSharingStopped, and the disconnect).
NoOrphanScreenShare ==
  \A p \in open : p.kind = "screen" => roomContexts[p.room].screen = p

\* The producer that a room's context tracks is open, whatever clients' messages say;
\* and what the context says of it is true from any begin or end of a share until a
\* message says otherwise: isSharing exactly while a producer is tracked, and a named
\* sharer is the one who produces it.
ContextTellsTheTruth ==
  \A r \in Rooms :
    LET context == roomContexts[r] IN
    /\ context.screen # NoProducer => context.screen \in open
    /\ ~context.said =>
         /\ context.sharing <=> context.screen # NoProducer
         /\ context.sharer # NoSocket =>
              /\ context.screen # NoProducer
              /\ context.screen.by = context.sharer

ScreenShares == {p \in Producer : p.kind = "screen"}

Slot == INSTANCE ScreenSlot WITH
  Shares <- ScreenShares, NoShare <- NoProducer,
  live <- [r \in Rooms |-> roomContexts[r].screen],
  ended <- {p \in closed : p.kind = "screen"}

\* Sharing keeps the promise of ScreenSlot: one share per room, and a share that
\* ended does not come back.
OneShareAtATime == Slot!SlotSpec

-----------------------------------------------------------------------------
(* Rooms                                                                     *)

\* Who hears what is broadcast to a room is who its entries say has joined it:
\* a member of the socket.io room is listed as joined, and a client that is up
\* and listed as joined is a member.
MembersAreListed ==
  \A r \in Rooms, s \in Sockets :
    /\ s \in members[r] => s \in listed[r] /\ roomsUsers[r][s].joined
    /\ s \in connected /\ s \in listed[r] /\ roomsUsers[r][s].joined => s \in members[r]

\* The transports of a room and all that was ever produced in it are on the room's
\* router, so that every client can consume every other and whoever joins late can
\* too, unless two joins were making the room's router at once.
RoomNotSplit ==
  \A r \in Rooms : <<r, NoSocket>> \notin raced =>
    /\ \A s \in Sockets : /\ roomsUsers[r][s].producerTransport \in {0, roomRouters[r]}
                          /\ roomsUsers[r][s].consumerTransport \in {0, roomRouters[r]}
    /\ \A p \in created : p.room = r => p.router = roomRouters[r]

\* A room gets no more routers, made and in the making, than handlers can be under
\* way at once: only joins that met when it had none make any, and however many
\* come later none makes another.
RoutersAreFew ==
  \A r \in Rooms :
    roomRouters[r] + Cardinality({c \in Calls : /\ calls[c].op = "createRouter"
                                               /\ calls[c].room = r}) <= Cardinality(Calls)

LeavesNothingBehind(s, r) ==
  LET user == roomsUsers[r][s] IN
  /\ s \in connected /\ s \notin connected'
  /\ s \in listed[r] /\ user.joined
  /\ \A q \in Rooms \ {r} : s \notin listed[q]
  => /\ s \notin listed'[r]
     /\ s \notin {roomContexts'[r].sharer, roomContexts'[r].presenter}
     /\ roomContexts[r].sharer = s => roomContexts[r].screen \in closed' \cup {NoProducer}
     /\ \A k \in SwitchKinds : user.producer[k] \in closed' \cup {NoProducer}

Departures == \A s \in Sockets, r \in Rooms : LeavesNothingBehind(s, r)

\* A member of one room that leaves leaves nothing of itself in it: no entry, no
\* share, no presentation, no audio or video.
DepartureIsComplete == [][Departures]_vars

\* Every admin that a request to join is sent to is connected ("If no admin is
\* connected ie no socketId throw", call.gateway.ts:550).
AdminIsConnected ==
  [][asked' # asked => asked' \in connected]_vars

\* A join under way ends with the client in the room, unless the client goes.
JoinEnds ==
  \A r \in Rooms, s \in Sockets :
    (\E c \in Calls : /\ calls[c].op \in {"createRouter", "getRoom"}
                      /\ calls[c].room = r /\ calls[c].user = s)
      ~> (s \in members[r] \/ s \notin connected)

-----------------------------------------------------------------------------
(* Audio and video                                                           *)

\* A handler acted on what it had read of s before another one changed it.
Raced(r, s) == <<r, s>> \in raced

\* Who turned the microphone or the camera off sends nothing: the producer that a
\* switch is for is paused while the switch is off, unless a toggle or a consumerReady
\* about the same user was overtaken.
MutedStaysSilent ==
  \A r \in Rooms, s \in Sockets, k \in SwitchKinds :
    LET user == roomsUsers[r][s] IN
    user.turnedOff[k] /\ user.producer[k] \in open /\ ~Raced(r, s)
      => user.producer[k] \in paused

\* Audio or video that is still open is what its user's entry tracks, so that the
\* client's toggles and its disconnect reach it; only a later one of the same user
\* takes that place.
Replaced(p) == \E q \in created : SameSource(p, q) /\ p.nr < q.nr

NoLostMedia ==
  \A p \in open : p.kind \in SwitchKinds =>
    \/ p.by \in listed[p.room] /\ roomsUsers[p.room][p.by].producer[p.kind] = p
    \/ Replaced(p)

Settling(c, r, s, k) ==
  /\ calls[c].op \in {"toggle", "produce"} /\ calls'[c] = Idle
  /\ calls[c].room = r /\ calls[c].user = s /\ calls[c].kind = k

ChangesForOneReason(r, s) ==
  LET was == roomsUsers[r][s]
      is  == roomsUsers'[r][s] IN
  (\E k \in SwitchKinds : is.turnedOff[k] # was.turnedOff[k]) /\ ~Raced(r, s) =>
    \E k \in SwitchKinds :
      /\ \A j \in SwitchKinds \ {k} :
           is.turnedOff[j] = was.turnedOff[j] \/ s \notin listed'[r]
      /\ \/ \E c \in Calls : Settling(c, r, s, k)
         \/ was.producer[k] \notin open \/ was.producer[k] \in closed'

SwitchChanges == \A r \in Rooms, s \in Sockets : ChangesForOneReason(r, s)

\* A switch changes only for its own reason: toggling, producing or closing media
\* of that kind, or the end of the entry; turning the camera off does not unmute.
SwitchesAreIndependent == [][SwitchChanges]_vars

ReadyEnds(call) ==
  \/ <<call.consumer, call.producer>> \in playing'
  \/ call.producer \notin roomsUsers[call.room][call.consumer].consumers
  \/ \E q \in closed : q.by = call.producer.by /\ q.room = call.producer.room

ReadyHandlersEnd ==
  \A c \in Calls : calls[c].op = "consumerReady" /\ calls'[c] = Idle => ReadyEnds(calls[c])

\* No consumerReady gives up while the consumer could play: it ends without resuming
\* it only if the consumer is forgotten or something that the producing user has is
\* closed, unless the worker refuses.
ReadyEndsForAReason == [][~Faults => ReadyHandlersEnd]_vars

\* consumerReady about a consumer that exists lets it play, unless meanwhile the
\* producer is closed, the consumer is forgotten (a join) or something else that the
\* producing user has is closed: to resume that throws.
ReadyMeansPlaying ==
  \A p \in {q \in Producer : q.kind \in SwitchKinds}, t \in Sockets :
    (/\ p \in roomsUsers[p.room][t].consumers
     /\ \E c \in Calls : /\ calls[c].op = "consumerReady"
                        /\ calls[c].producer = p /\ calls[c].consumer = t)
      ~> (\/ <<t, p>> \in playing
          \/ p \notin roomsUsers[p.room][t].consumers
          \/ \E q \in closed : q.by = p.by /\ q.room = p.room)

-----------------------------------------------------------------------------
(* What the above rests on                                                   *)

\* What an entry and a context track was made by and for who they say.
TracksAreOwn ==
  \A r \in Rooms :
    /\ roomContexts[r].screen # NoProducer =>
         /\ roomContexts[r].screen.kind = "screen" /\ roomContexts[r].screen.room = r
    /\ \A s \in Sockets, k \in UserKinds :
         LET p == roomsUsers[r][s].producer[k] IN
         p # NoProducer => p \in created /\ p.kind = k /\ p.room = r /\ p.by = s

\* Two makers of a room's router at once are remembered, and so is every transport
\* that is still being made on a router that was replaced.
RoutersInTheMaking ==
  \A c \in Calls :
    LET call == calls[c] IN
    /\ call.op = "createRouter" /\ roomRouters[call.room] # 0 => Raced(call.room, NoSocket)
    /\ call.op \in {"createTransport", "produce"} =>
         Raced(call.room, NoSocket) \/ call.router = roomRouters[call.room]

\* What a suspended toggle or consumerReady has read of its user is still so, or the
\* handler was overtaken.
SnapshotsAreFresh ==
  \A c \in Calls :
    LET call == calls[c] IN
    /\ call.op = "toggle" =>
         /\ call.producer \in created
         /\ call.producer.kind = call.kind
         /\ call.producer.room = call.room /\ call.producer.by = call.user
         /\ ~Raced(call.room, call.user) =>
              /\ call.flags = roomsUsers[call.room][call.user].turnedOff
              /\ call.producer = roomsUsers[call.room][call.user].producer[call.kind]
    /\ call.op = "consumerReady" /\ call.stage \in SwitchKinds =>
         /\ call.user \in Sockets
         /\ ~call.flags[call.stage]
         /\ \A k \in SwitchKinds :
              call.tracks[k] # NoProducer =>
                /\ call.tracks[k] \in created /\ call.tracks[k].kind = k
                /\ call.tracks[k].room = call.room /\ call.tracks[k].by = call.user
         /\ call.tracks[call.stage] # NoProducer
         /\ ~Raced(call.room, call.user) =>
              call.flags = roomsUsers[call.room][call.user].turnedOff

\* The producing user that a suspended consumerReady found is the one whose producer
\* is to be played, and so are the tracks that it still has to resume.
ReadyIsAboutOne ==
  \A c \in Calls :
    LET call == calls[c] IN
    call.op = "consumerReady" =>
      /\ call.producer \in created /\ call.producer.room = call.room
      /\ \A k \in SwitchKinds :
           call.tracks[k] # NoProducer =>
             /\ call.tracks[k] \in created
             /\ call.tracks[k].room = call.room /\ call.tracks[k].by = call.producer.by

=============================================================================
