--------------------------- MODULE CallTypeProofs ---------------------------
(***************************************************************************)
(* The variables of the call gateway keep their types.                     *)
(***************************************************************************)
EXTENDS CallGateway, TLAPS

\* updateRoomSocketUser keeps the types of what it writes.
LEMMA UpdateTypes ==
  ASSUME TypeOK, NEW r \in Rooms, NEW s \in Sockets, NEW user \in User,
         UpdateRoomSocketUser(r, s, user)
  PROVE  /\ roomsUsers' \in [Rooms -> [Sockets -> User]]
         /\ listed' \in [Rooms -> SUBSET Sockets]
         /\ openRooms' \subseteq Rooms
BY DEF TypeOK, UpdateRoomSocketUser

\* What the handlers do to an entry leaves it an entry.
LEMMA UserUpdates ==
  ASSUME NEW user \in User
  PROVE  /\ \A b \in BOOLEAN :
              [user EXCEPT !.joined = TRUE, !.isAdmin = b, !.consumers = {}] \in User
         /\ \A t \in 0..MaxRouters : /\ [user EXCEPT !.producerTransport = t] \in User
                                    /\ [user EXCEPT !.consumerTransport = t] \in User
         /\ \A p \in Producer : [user EXCEPT !.consumers = @ \cup {p}] \in User
         /\ \A flags \in [SwitchKinds -> BOOLEAN], k \in SwitchKinds, off \in BOOLEAN :
              SwitchTo(user, flags, k, off) \in User
BY DEF User, SwitchTo

\* What the handlers do to a context leaves it a context.
LEMMA ContextUpdates ==
  ASSUME NEW context \in Context
  PROVE  /\ [context EXCEPT !.sharer = NoSocket] \in Context
         /\ \A p \in Producer : ShareBegun(context, p) \in Context
         /\ ShareEnded(context) \in Context
         /\ \A message \in Message : Merged(context, message) \in Context
         /\ \A s \in Sockets : ContextWithout(context, s) \in Context
<1> USE DEF Context, MaybeProducer, MaybeSocket
<1>1. \A p \in Producer : ShareBegun(context, p) \in Context
  BY DEF ShareBegun, Producer
<1>2. ShareEnded(context) \in Context
  BY DEF ShareEnded
<1>3. ASSUME NEW message \in Message PROVE Merged(context, message) \in Context
  <2> DEFINE said == context.said \/ context.sharer # message.sharer
                                  \/ context.sharing # message.sharing
  <2>1. said \in BOOLEAN
    OBVIOUS
  <2>2. Merged(context, message) = [context EXCEPT !.presenter = message.presenter,
          !.sharer = message.sharer, !.sharing = message.sharing, !.said = said]
    BY DEF Merged
  <2> HIDE DEF said
  <2> QED
    BY <2>1, <2>2 DEF Message
<1>4. ASSUME NEW s \in Sockets PROVE ContextWithout(context, s) \in Context
  BY <1>2 DEF ContextWithout
<1> QED
  BY <1>1, <1>2, <1>3, <1>4

\* A suspended handler is of the kind that its `op` says.
LEMMA CallKinds ==
  ASSUME NEW call \in Call
  PROVE  /\ call.op \in {"createRouter", "getRoom"} => call \in JoinCall
         /\ call.op = "createTransport" => call \in TransportCall
         /\ call.op = "produce" => call \in ProduceCall
         /\ call.op \in {"consume", "consumeData"} => call \in ConsumeCall
         /\ call.op = "toggle" => call \in ToggleCall
         /\ call.op = "consumerReady" => call \in ReadyCall
BY DEF Call, Idle, JoinCall, TransportCall, ProduceCall, ConsumeCall, ToggleCall, ReadyCall

\* consumerReady suspends with what it knew, at another of its stages, or ends.
LEMMA ProceedType ==
  ASSUME NEW call \in ReadyCall, NEW stages \in SUBSET {"video", "audio", "consumer"}
  PROVE  /\ Proceed(call, stages) \in Call
         /\ Proceed(call, stages) # Idle =>
              \E a \in stages : /\ Proceed(call, stages) = [call EXCEPT !.stage = a]
                                /\ Pending(call, a) /\ Resumed(call, a) \in open
<1> DEFINE next == {a \in stages : /\ Pending(call, a)
                                   /\ \A b \in stages : Pending(call, b) => Rank[a] <= Rank[b]
                                   /\ Resumed(call, a) \in open}
<1>1. CASE next = {}
  BY <1>1 DEF Proceed, Call
<1>2. CASE next # {}
  <2>1. PICK a \in next : Proceed(call, stages) = [call EXCEPT !.stage = a]
    BY <1>2 DEF Proceed
  <2>2. [call EXCEPT !.stage = a] \in ReadyCall
    BY <2>1 DEF ReadyCall
  <2> QED
    BY <2>1, <2>2 DEF Call
<1> QED
  BY <1>1, <1>2

\* A handler that starts or ends leaves `calls` typed.
LEMMA SlotTypes ==
  ASSUME TypeOK, NEW c \in Calls, NEW call \in Call
  PROVE  /\ [calls EXCEPT ![c] = call] \in [Calls -> Call]
         /\ Finish(c) => calls' \in [Calls -> Call]
BY DEF TypeOK, Finish, Call

LEMMA OvertakeType ==
  ASSUME TypeOK, NEW r \in Rooms, NEW s \in MaybeSocket, NEW own, Overtake(r, s, own)
  PROVE  raced' \subseteq Rooms \X MaybeSocket
BY DEF TypeOK, Overtake

\* The initial state is typed.
LEMMA InitTypes == Init => TypeOK
<1> SUFFICES ASSUME Init PROVE TypeOK
  OBVIOUS
<1>1. EmptyUser \in User /\ EmptyContext \in Context
  BY CallAssumption DEF EmptyUser, User, EmptyContext, Context, MaybeProducer, MaybeSocket
<1> QED
  BY <1>1, CallAssumption DEF Init, TypeOK, Call, MaybeSocket

\* The answers of the worker and the database.
LEMMA AnsweredTypes == ASSUME TypeOK, NEW c \in Calls, Answered(c) PROVE TypeOK'
<1> DEFINE r == calls[c].room
           s == calls[c].user
<1> calls[c] \in Call
  BY DEF TypeOK
<1>1. CASE RouterCreated(c)
  <2>1. calls[c] \in JoinCall /\ r \in Rooms
    BY <1>1, CallKinds DEF RouterCreated, JoinCall
  <2>2. [calls[c] EXCEPT !.op = "getRoom"] \in Call
    BY <2>1 DEF JoinCall, Call
  <2>3. calls' \in [Calls -> Call]
    BY <1>1, <2>2, SlotTypes DEF RouterCreated
  <2>4. raced' \subseteq Rooms \X MaybeSocket
    BY <1>1, <2>1, OvertakeType DEF RouterCreated, MaybeSocket
  <2>5. roomRouters' \in [Rooms -> 0..MaxRouters]
    BY <1>1, <2>1, CallAssumption DEF RouterCreated, TypeOK
  <2> QED
    BY <1>1, <2>3, <2>4, <2>5 DEF RouterCreated, TypeOK, sockets, registry, media
<1>2. CASE RoomFetched(c)
  <2>1. r \in Rooms /\ s \in Sockets
    BY <1>2, CallKinds DEF RoomFetched, JoinCall
  <2>2. [roomsUsers[r][s] EXCEPT !.joined = TRUE, !.isAdmin = s \in OwnerSockets[r],
                                 !.consumers = {}] \in User
    <3>1. roomsUsers[r][s] \in User /\ (s \in OwnerSockets[r]) \in BOOLEAN
      BY <2>1 DEF TypeOK
    <3> QED
      BY <3>1, UserUpdates
  <2>3. calls' \in [Calls -> Call]
    BY <1>2, SlotTypes DEF RoomFetched, Call
  <2>4. roomContexts' \in [Rooms -> Context]
    BY <1>2, <2>1, ContextUpdates DEF RoomFetched, TypeOK
  <2>5. members' \in [Rooms -> SUBSET Sockets]
    BY <1>2, <2>1 DEF RoomFetched, TypeOK
  <2>6. /\ roomsUsers' \in [Rooms -> [Sockets -> User]]
        /\ listed' \in [Rooms -> SUBSET Sockets] /\ openRooms' \subseteq Rooms
    BY <1>2, <2>1, <2>2, UpdateTypes DEF RoomFetched
  <2> QED
    BY <1>2, <2>3, <2>4, <2>5, <2>6 DEF RoomFetched, TypeOK, media
<1>3. CASE TransportCreated(c)
  <2>1. calls[c] \in TransportCall /\ r \in Rooms /\ s \in Sockets
    BY <1>3, CallKinds DEF TransportCreated, TransportCall
  <2> DEFINE new == IF calls[c].isProducer
                    THEN [roomsUsers[r][s] EXCEPT !.producerTransport = calls[c].router]
                    ELSE [roomsUsers[r][s] EXCEPT !.consumerTransport = calls[c].router]
  <2>2. new \in User
    <3>1. roomsUsers[r][s] \in User /\ calls[c].router \in 0..MaxRouters
      BY <2>1, CallAssumption DEF TypeOK, TransportCall
    <3> QED
      BY <3>1, UserUpdates
  <2>3. /\ roomsUsers' \in [Rooms -> [Sockets -> User]]
        /\ listed' \in [Rooms -> SUBSET Sockets] /\ openRooms' \subseteq Rooms
    BY <1>3, <2>1, <2>2, UpdateTypes DEF TransportCreated
  <2>4. calls' \in [Calls -> Call]
    BY <1>3, SlotTypes DEF TransportCreated, Call
  <2> QED
    BY <1>3, <2>3, <2>4 DEF TransportCreated, TypeOK, media, sockets
<1>4. CASE Produced(c)
  <2>1. PICK n \in 1..MaxProducers : \/ ScreenProduced(c, Product(calls[c], n))
                                    \/ UserProduced(c, Product(calls[c], n))
                                    \/ UntaggedProduced(c, Product(calls[c], n))
    BY <1>4 DEF Produced
  <2> DEFINE p == Product(calls[c], n)
  <2>2. /\ calls[c] \in ProduceCall /\ p \in Producer
        /\ p.room = r /\ p.by = s /\ p.kind = calls[c].kind
    <3>1. calls[c] \in ProduceCall
      BY <1>4, CallKinds DEF Produced
    <3> QED
      BY <3>1 DEF ProduceCall, Product, Producer
  <2> HIDE DEF p
  <2>3. calls' \in [Calls -> Call]
    BY <2>1, SlotTypes DEF ScreenProduced, UserProduced, UntaggedProduced, Call
  <2>4. created' \subseteq Producer /\ paused' \subseteq Producer /\ created \subseteq created'
    BY <2>1, <2>2 DEF ScreenProduced, UserProduced, UntaggedProduced, Create, TypeOK, p
  <2>5. CASE ScreenProduced(c, p)
    <3>1. roomContexts' \in [Rooms -> Context]
      BY <2>5, <2>2, ContextUpdates DEF ScreenProduced, TypeOK, Producer
    <3>2. closed' \subseteq created'
      BY <2>5, <2>4 DEF ScreenProduced, TypeOK, open
    <3> QED
      BY <2>5, <2>3, <2>4, <3>1, <3>2 DEF ScreenProduced, TypeOK, sockets, registry
  <2>6. CASE UserProduced(c, p)
    <3> DEFINE old == roomsUsers[p.room][p.by]
               new == [old EXCEPT !.producer[p.kind] = p,
                                  !.turnedOff = [k \in SwitchKinds |->
                                    IF k = p.kind THEN calls[c].off ELSE @[k]]]
    <3>1. p.room \in Rooms /\ p.by \in Sockets /\ p.kind \in UserKinds
      BY <2>2, <2>6 DEF Producer, Kinds, UserProduced
    <3>2. old \in User
      BY <3>1 DEF TypeOK
    <3>3. [k \in SwitchKinds |-> IF k = p.kind THEN calls[c].off ELSE old.turnedOff[k]]
            \in [SwitchKinds -> BOOLEAN]
      BY <2>2, <3>2 DEF ProduceCall, User
    <3>4. new \in User
      BY <2>2, <3>1, <3>2, <3>3 DEF User, MaybeProducer
    <3>5. /\ roomsUsers' \in [Rooms -> [Sockets -> User]]
          /\ listed' \in [Rooms -> SUBSET Sockets] /\ openRooms' \subseteq Rooms
      BY <2>6, <3>1, <3>4, UpdateTypes DEF UserProduced
    <3>6. raced' \subseteq Rooms \X MaybeSocket
      <4>1. p.by \in MaybeSocket
        BY <3>1 DEF MaybeSocket
      <4> QED
        BY <2>6, <3>1, <4>1, OvertakeType DEF UserProduced, TypeOK
    <3> QED
      BY <2>6, <2>3, <2>4, <3>5, <3>6 DEF UserProduced, TypeOK, sockets
  <2>7. CASE UntaggedProduced(c, p)
    BY <2>3, <2>4, <2>7 DEF UntaggedProduced, TypeOK, sockets, registry
  <2> QED
    BY <2>1, <2>5, <2>6, <2>7 DEF p
<1>5. CASE Consumed(c)
  <2>1. calls[c] \in ConsumeCall /\ r \in Rooms /\ s \in Sockets
    BY <1>5, CallKinds DEF Consumed, ConsumeCall
  <2> DEFINE new == [roomsUsers[r][s] EXCEPT !.consumers = @ \cup {calls[c].producer}]
  <2>2. new \in User
    <3>1. roomsUsers[r][s] \in User /\ calls[c].producer \in Producer
      BY <2>1 DEF TypeOK, ConsumeCall
    <3> QED
      BY <3>1, UserUpdates
  <2>3. /\ roomsUsers' \in [Rooms -> [Sockets -> User]]
        /\ listed' \in [Rooms -> SUBSET Sockets] /\ openRooms' \subseteq Rooms
    <3>1. CASE s \in listed[r]
      BY <1>5, <2>1, <2>2, <3>1, UpdateTypes DEF Consumed
    <3>2. CASE s \notin listed[r]
      BY <1>5, <3>2 DEF Consumed, TypeOK, registry
    <3> QED
      BY <3>1, <3>2
  <2>4. calls' \in [Calls -> Call]
    BY <1>5, SlotTypes DEF Consumed, Call
  <2> QED
    BY <1>5, <2>3, <2>4 DEF Consumed, TypeOK, media, sockets
<1>6. CASE DataConsumed(c)
  <2>1. r \in Rooms /\ s \in Sockets
    BY <1>6, CallKinds DEF DataConsumed, ConsumeCall
  <2>2. roomsUsers[r][s] \in User
    BY <2>1 DEF TypeOK
  <2>3. /\ roomsUsers' \in [Rooms -> [Sockets -> User]]
        /\ listed' \in [Rooms -> SUBSET Sockets] /\ openRooms' \subseteq Rooms
    BY <1>6, <2>1, <2>2, UpdateTypes DEF DataConsumed
  <2>4. calls' \in [Calls -> Call]
    BY <1>6, SlotTypes DEF DataConsumed, Call
  <2> QED
    BY <1>6, <2>3, <2>4 DEF DataConsumed, TypeOK, media, sockets
<1>7. CASE TrackResumed(c)
  <2> DEFINE stages == {a \in DOMAIN Rank : Rank[calls[c].stage] < Rank[a]}
  <2>1. calls[c] \in ReadyCall
    BY <1>7, CallKinds DEF TrackResumed
  <2>2. stages \in SUBSET {"video", "audio", "consumer"}
    BY DEF Rank
  <2>3. Proceed(calls[c], stages) \in Call
    BY <2>1, <2>2, ProceedType
  <2>4. calls' \in [Calls -> Call]
    BY <1>7, <2>3, SlotTypes DEF TrackResumed
  <2> QED
    BY <1>7, <2>4 DEF TrackResumed, TypeOK, sockets, registry
<1>8. CASE ConsumerResumed(c)
  <2>1. calls[c] \in ReadyCall
    BY <1>8, CallKinds DEF ConsumerResumed
  <2>2. playing' \subseteq Sockets \X Producer
    BY <1>8, <2>1 DEF ConsumerResumed, ReadyCall, TypeOK
  <2>3. calls' \in [Calls -> Call]
    BY <1>8, SlotTypes DEF ConsumerResumed, Call
  <2> QED
    BY <1>8, <2>2, <2>3 DEF ConsumerResumed, TypeOK, sockets, registry
<1>9. CASE Toggled(c)
  <2>1. calls[c] \in ToggleCall /\ r \in Rooms /\ s \in Sockets
    BY <1>9, CallKinds DEF Toggled, ToggleCall
  <2>2. SwitchTo(roomsUsers[r][s], calls[c].flags, calls[c].kind, calls[c].off) \in User
    <3>1. /\ roomsUsers[r][s] \in User /\ calls[c].flags \in [SwitchKinds -> BOOLEAN]
          /\ calls[c].kind \in SwitchKinds /\ calls[c].off \in BOOLEAN
      BY <2>1 DEF TypeOK, ToggleCall
    <3> QED
      BY <3>1, UserUpdates
  <2>3. /\ roomsUsers' \in [Rooms -> [Sockets -> User]]
        /\ listed' \in [Rooms -> SUBSET Sockets] /\ openRooms' \subseteq Rooms
    BY <1>9, <2>1, <2>2, UpdateTypes DEF Toggled
  <2>4. calls' \in [Calls -> Call]
    BY <1>9, SlotTypes DEF Toggled, Call
  <2>5. raced' \subseteq Rooms \X MaybeSocket
    <3>1. s \in MaybeSocket
      BY <2>1 DEF MaybeSocket
    <3> QED
      BY <1>9, <2>1, <3>1, OvertakeType DEF Toggled
  <2> QED
    <3>1. paused' \subseteq Producer
      BY <1>9, <2>1 DEF Toggled, TypeOK, ToggleCall
    <3> QED
      BY <1>9, <2>3, <2>4, <2>5, <3>1 DEF Toggled, TypeOK, sockets
<1> QED
  BY <1>1, <1>2, <1>3, <1>4, <1>5, <1>6, <1>7, <1>8, <1>9 DEF Answered

\* The requests that wait for something.
LEMMA RequestedTypes ==
  ASSUME TypeOK, NEW c \in Calls, NEW s \in Sockets, NEW r \in Rooms, Requested(c, s, r)
  PROVE  TypeOK'
<1> SUFFICES ASSUME NEW call \in Call, Start(c, call),
                    UNCHANGED <<sockets, roomRouters, registry, roomContexts, media, asked, raced>>
             PROVE  TypeOK'
  <2>1. CASE JoinRoom(c, s, r)
    <3> DEFINE call == [op |-> IF roomRouters[r] = 0 THEN "createRouter" ELSE "getRoom",
                        room |-> r, user |-> s]
    <3>1. call \in Call
      BY DEF Call, JoinCall
    <3> QED
      BY <2>1, <3>1 DEF JoinRoom
  <2>2. ASSUME NEW isProducer \in BOOLEAN, CreateTransport(c, s, r, isProducer) PROVE TypeOK'
    <3> DEFINE call == [op |-> "createTransport", room |-> r, user |-> s,
                        isProducer |-> isProducer, router |-> roomRouters[r]]
    <3>1. call \in Call
      BY <2>2, CallAssumption DEF CreateTransport, Call, TransportCall, TypeOK
    <3> QED
      BY <2>2, <3>1 DEF CreateTransport
  <2>3. ASSUME NEW k \in Kinds, NEW off \in BOOLEAN, Produce(c, s, r, k, off) PROVE TypeOK'
    <3> DEFINE call == [op |-> "produce", room |-> r, user |-> s, kind |-> k, off |-> off,
                        router |-> roomsUsers[r][s].producerTransport]
    <3>1. roomsUsers[r][s].producerTransport \in 1..MaxRouters
      BY <2>3, CallAssumption DEF Produce, TypeOK, User
    <3>2. call \in Call
      BY <3>1 DEF Call, ProduceCall
    <3> QED
      BY <2>3, <3>2 DEF Produce
  <2>4. ASSUME NEW p \in open, Consume(c, s, r, p) \/ ConsumeData(c, s, r, p) PROVE TypeOK'
    <3> DEFINE call(op) == [op |-> op, room |-> r, user |-> s, producer |-> p]
    <3>1. call("consume") \in Call /\ call("consumeData") \in Call
      BY DEF Call, ConsumeCall, open, TypeOK
    <3>2. CASE Consume(c, s, r, p)
      BY <3>1, <3>2 DEF Consume
    <3>3. CASE ConsumeData(c, s, r, p)
      BY <3>1, <3>3 DEF ConsumeData
    <3> QED
      BY <2>4, <3>2, <3>3
  <2>5. ASSUME NEW t \in Sockets, NEW p \in created, ConsumerReady(c, s, r, t, p) PROVE TypeOK'
    <3> DEFINE from == Producers(r, p)
               user == IF from = {} THEN NoSocket ELSE CHOOSE u \in from : TRUE
               call == [op |-> "consumerReady", room |-> r, user |-> user, stage |-> "video",
                        tracks |-> IF from = {} THEN NoTracks ELSE roomsUsers[r][user].producer,
                        flags |-> IF from = {} THEN EmptyUser.turnedOff
                                  ELSE roomsUsers[r][user].turnedOff,
                        producer |-> p, consumer |-> t]
    <3>1. from # {} => user \in Sockets /\ roomsUsers[r][user] \in User
      BY DEF Producers, TypeOK
    <3>2. /\ call.tracks \in [UserKinds -> MaybeProducer]
          /\ call.flags \in [SwitchKinds -> BOOLEAN]
          /\ user \in MaybeSocket
      BY <3>1 DEF User, NoTracks, EmptyUser, MaybeProducer, MaybeSocket
    <3>3. call \in ReadyCall
      BY <3>2 DEF ReadyCall, TypeOK
    <3>4. Proceed(call, {"video", "audio", "consumer"}) \in Call
      BY <3>3, ProceedType
    <3> QED
      BY <2>5, <3>4 DEF ConsumerReady
  <2>6. ASSUME NEW t \in Sockets, NEW k \in SwitchKinds, NEW off \in BOOLEAN,
               Toggle(c, s, r, t, k, off)
        PROVE  TypeOK'
    <3> DEFINE call == [op |-> "toggle", room |-> r, user |-> t, kind |-> k, off |-> off,
                        producer |-> roomsUsers[r][t].producer[k],
                        flags |-> roomsUsers[r][t].turnedOff]
    <3>1. roomsUsers[r][t].turnedOff \in [SwitchKinds -> BOOLEAN]
      BY DEF TypeOK, User
    <3>2. roomsUsers[r][t].producer[k] \in Producer
      BY <2>6 DEF Toggle, open, TypeOK
    <3>3. call \in Call
      BY <3>1, <3>2 DEF Call, ToggleCall
    <3> QED
      BY <2>6, <3>3 DEF Toggle
  <2> QED
    BY <2>1, <2>2, <2>3, <2>4, <2>5, <2>6 DEF Requested
<1> QED
  BY SlotTypes DEF Start, TypeOK, sockets, registry, media

\* The requests that are done at once.
LEMMA DoneTypes ==
  ASSUME TypeOK, NEW s \in Sockets, NEW r \in Rooms, Done(s, r)
  PROVE  TypeOK'
<1>1. CASE RequestToJoin(s, r)
  BY <1>1 DEF RequestToJoin, TypeOK, MaybeSocket, sockets, registry, media
<1>2. ASSUME NEW message \in Message, RoomContextModification(s, r, message)
      PROVE  TypeOK'
  <2>1. roomContexts' \in [Rooms -> Context]
    BY <1>2, ContextUpdates DEF RoomContextModification, TypeOK
  <2> QED
    BY <1>2, <2>1 DEF RoomContextModification, TypeOK, sockets, registry, media
<1>3. ASSUME NEW t \in Sockets,
             SetUserReaction(s, r, t) \/ AccessibilityPreferenceAcceptance(s, r, t)
      PROVE  TypeOK'
  <2>1. UpdateRoomSocketUser(r, t, roomsUsers[r][t]) /\ roomsUsers[r][t] \in User
    BY <1>3 DEF SetUserReaction, AccessibilityPreferenceAcceptance, TypeOK
  <2>2. /\ roomsUsers' \in [Rooms -> [Sockets -> User]]
        /\ listed' \in [Rooms -> SUBSET Sockets] /\ openRooms' \subseteq Rooms
    BY <2>1, UpdateTypes
  <2> QED
    BY <1>3, <2>2 DEF SetUserReaction, AccessibilityPreferenceAcceptance, TypeOK, sockets, media
<1>4. ASSUME NEW t \in Sockets, ScreenSharingStopped(s, r, t) PROVE TypeOK'
  <2>1. roomContexts' \in [Rooms -> Context]
    BY <1>4, ContextUpdates DEF ScreenSharingStopped, TypeOK
  <2>2. closed' \subseteq created
    BY <1>4 DEF ScreenSharingStopped, TypeOK, open
  <2> QED
    BY <1>4, <2>1, <2>2 DEF ScreenSharingStopped, TypeOK, sockets, registry
<1>5. ASSUME NEW t \in Sockets, NEW k \in SwitchKinds, NEW off \in BOOLEAN,
             ProducerClosed(s, r, t, k) \/ ToggleNothing(s, r, t, k, off)
      PROVE  TypeOK'
  <2> DEFINE user == roomsUsers[r][t]
  <2>1. user \in User /\ user.turnedOff \in [SwitchKinds -> BOOLEAN] /\ t \in MaybeSocket
    BY DEF TypeOK, User, MaybeSocket
  <2>2. PICK v \in BOOLEAN : /\ UpdateRoomSocketUser(r, t, SwitchTo(user, user.turnedOff, k, v))
                             /\ Overtake(r, t, {})
    BY <1>5 DEF ProducerClosed, ToggleNothing
  <2>3. /\ roomsUsers' \in [Rooms -> [Sockets -> User]]
        /\ listed' \in [Rooms -> SUBSET Sockets] /\ openRooms' \subseteq Rooms
        /\ raced' \subseteq Rooms \X MaybeSocket
    BY <2>1, <2>2, UpdateTypes, UserUpdates, OvertakeType
  <2>4. CASE ProducerClosed(s, r, t, k)
    <3>1. closed' \subseteq created
      BY <2>4 DEF ProducerClosed, TypeOK, open
    <3> QED
      BY <2>3, <2>4, <3>1 DEF ProducerClosed, TypeOK, sockets
  <2>5. CASE ToggleNothing(s, r, t, k, off)
    BY <2>3, <2>5 DEF ToggleNothing, TypeOK, sockets, media
  <2> QED
    BY <1>5, <2>4, <2>5
<1> QED
  BY <1>1, <1>2, <1>3, <1>4, <1>5 DEF Done

\* A client that goes.
LEMMA DisconnectTypes == ASSUME TypeOK, NEW s \in Sockets, Disconnect(s) PROVE TypeOK'
<1>1. Leave(s) => connected' \subseteq Sockets /\ members' \in [Rooms -> SUBSET Sockets]
  BY DEF Leave, TypeOK
<1>2. CASE DisconnectUnlisted(s)
  BY <1>1, <1>2 DEF DisconnectUnlisted, TypeOK, registry, media
<1>3. ASSUME NEW r \in Rooms, DisconnectMember(s, r) PROVE TypeOK'
  <2>1. roomContexts' \in [Rooms -> Context]
    BY <1>3, ContextUpdates DEF DisconnectMember, TypeOK
  <2>2. closed' \subseteq created
    BY <1>3 DEF DisconnectMember, TypeOK, open, TrackedMedia, SharedBy
  <2>3. EmptyUser \in User
    BY CallAssumption DEF EmptyUser, User, MaybeProducer
  <2>4. roomsUsers' \in [Rooms -> [Sockets -> User]] /\ listed' \in [Rooms -> SUBSET Sockets]
    BY <1>3, <2>3 DEF DisconnectMember, TypeOK
  <2>5. raced' \subseteq Rooms \X MaybeSocket
    <3>1. s \in MaybeSocket
      BY DEF MaybeSocket
    <3> QED
      BY <1>3, <3>1, OvertakeType DEF DisconnectMember
  <2> QED
    BY <1>1, <1>3, <2>1, <2>2, <2>4, <2>5 DEF DisconnectMember, TypeOK
<1>4. ASSUME NEW r \in Rooms, DisconnectStranger(s, r) PROVE TypeOK'
  <2>1. closed' \subseteq created
    BY <1>4 DEF DisconnectStranger, TypeOK, open, TrackedMedia
  <2> QED
    BY <1>1, <1>4, <2>1 DEF DisconnectStranger, TypeOK, registry
<1> QED
  BY <1>2, <1>3, <1>4 DEF Disconnect

LEMMA NextTypes == TypeOK /\ [Next]_vars => TypeOK'
<1> SUFFICES ASSUME TypeOK, [Next]_vars PROVE TypeOK'
  OBVIOUS
<1>1. ASSUME NEW c \in Calls, Rejected(c) PROVE TypeOK'
  BY <1>1, SlotTypes DEF Rejected, TypeOK, sockets, registry, media, Call
<1>2. CASE UNCHANGED vars
  BY <1>2 DEF vars, sockets, registry, media, TypeOK
<1> QED
  BY <1>1, <1>2, AnsweredTypes, RequestedTypes, DoneTypes, DisconnectTypes DEF Next

\* The gateway keeps in every variable what the code keeps in it.
THEOREM TypeCorrect == Spec => []TypeOK
BY InitTypes, NextTypes, PTL DEF Spec

=============================================================================
