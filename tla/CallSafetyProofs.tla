-------------------------- MODULE CallSafetyProofs --------------------------
(***************************************************************************)
(* The safety properties of the call gateway hold for any sockets, rooms,  *)
(* slots and bounds.                                                       *)
(***************************************************************************)
EXTENDS CallTypeProofs

-----------------------------------------------------------------------------
(* What a step can do                                                        *)

\* A request that waits changes nothing but its slot.
LEMMA RequestedChange ==
  ASSUME NEW c \in Calls, NEW s \in Sockets, NEW r \in Rooms, Requested(c, s, r)
  PROVE  /\ UNCHANGED <<sockets, roomRouters, registry, roomContexts, media, asked, raced>>
         /\ calls[c] = Idle
         /\ \A d \in Calls \ {c} : TypeOK => calls'[d] = calls[d]
BY DEF Requested, JoinRoom, CreateTransport, Produce, Consume, ConsumeData, ConsumerReady,
       Toggle, Start, TypeOK

\* updateRoomSocketUser changes one entry.
LEMMA UpdateEffect ==
  ASSUME TypeOK, NEW r \in Rooms, NEW s \in Sockets, NEW user,
         UpdateRoomSocketUser(r, s, user), NEW q \in Rooms, NEW t \in Sockets
  PROVE  /\ roomsUsers'[q][t] = IF q = r /\ t = s THEN user ELSE roomsUsers[q][t]
         /\ (t \in listed'[q]) <=> (t \in listed[q] \/ (q = r /\ t = s))
BY DEF TypeOK, UpdateRoomSocketUser

\* What the worker made is for the user who asked for it.
LEMMA ProductType ==
  ASSUME TypeOK, NEW c \in Calls, calls[c].op = "produce", NEW n \in 1..MaxProducers
  PROVE  LET p == Product(calls[c], n) IN
         /\ p \in Producer
         /\ p.by = calls[c].user /\ p.room = calls[c].room /\ p.kind = calls[c].kind
<1>1. calls[c] \in ProduceCall
  BY CallKinds DEF TypeOK
<1> QED
  BY <1>1 DEF ProduceCall, Product, Producer

\* What the worker made was not there before.
LEMMA CreateIsNew ==
  ASSUME NEW p \in Producer, Create(p)
  PROVE  p \notin created /\ created' = created \cup {p}
<1>1. p.nr \in Nat
  BY CallAssumption DEF Producer
<1>2. p \notin created
  BY <1>1 DEF Create, SameSource
<1> QED
  BY <1>2 DEF Create

\* Of the producers and switches in an entry, most steps change none.
Kept(r, s) ==
  /\ roomsUsers'[r][s].producer = roomsUsers[r][s].producer
  /\ roomsUsers'[r][s].turnedOff = roomsUsers[r][s].turnedOff

\* Steps that write the switches say whom they overtake; only a produce and the
\* client's leaving change the producers.
LEMMA EntryChange ==
  ASSUME TypeOK, Next, NEW r \in Rooms, NEW s \in Sockets
  PROVE  \/ Kept(r, s)
         \/ DisconnectMember(s, r)
         \/ \E c \in Calls, n \in 1..MaxProducers :
              /\ UserProduced(c, Product(calls[c], n))
              /\ calls[c].room = r /\ calls[c].user = s
         \/ /\ roomsUsers'[r][s].producer = roomsUsers[r][s].producer
            /\ \/ \E c \in Calls : Toggled(c) /\ calls[c].room = r /\ calls[c].user = s
               \/ \E k \in SwitchKinds, u \in Sockets :
                    \/ ProducerClosed(u, r, s, k)
                    \/ \E off \in BOOLEAN : ToggleNothing(u, r, s, k, off)
<1> USE DEF Kept
<1> DEFINE old == roomsUsers[r][s]
<1>1. CASE UNCHANGED registry
  BY <1>1 DEF registry
<1>2. ASSUME NEW q \in Rooms, NEW t \in Sockets, NEW user,
             UpdateRoomSocketUser(q, t, user),
             user.producer = roomsUsers[q][t].producer,
             user.turnedOff = roomsUsers[q][t].turnedOff
      PROVE  Kept(r, s)
  BY <1>2, UpdateEffect
<1>3. ASSUME NEW c \in Calls, Answered(c) \/ Rejected(c)
      PROVE  \/ Kept(r, s)
             \/ Toggled(c)
             \/ \E n \in 1..MaxProducers : UserProduced(c, Product(calls[c], n))
  <2> DEFINE q == calls[c].room
             t == calls[c].user
  <2> calls[c] \in Call
    BY DEF TypeOK
  <2>1. CASE RouterCreated(c) \/ TrackResumed(c) \/ ConsumerResumed(c) \/ Rejected(c)
    BY <1>1, <2>1 DEF RouterCreated, TrackResumed, ConsumerResumed, Rejected, registry
  <2>2. CASE RoomFetched(c)
    <3> DEFINE new == [roomsUsers[q][t] EXCEPT !.joined = TRUE,
                         !.isAdmin = t \in OwnerSockets[q], !.consumers = {}]
    <3>1. q \in Rooms /\ t \in Sockets
      BY <2>2, CallKinds DEF RoomFetched, JoinCall
    <3>2. roomsUsers[q][t] \in User
      BY <3>1 DEF TypeOK
    <3>3. new.producer = roomsUsers[q][t].producer /\ new.turnedOff = roomsUsers[q][t].turnedOff
      BY <3>2 DEF User
    <3> QED
      BY <1>2, <2>2, <3>1, <3>3 DEF RoomFetched
  <2>3. CASE TransportCreated(c)
    <3> DEFINE new == IF calls[c].isProducer
                      THEN [roomsUsers[q][t] EXCEPT !.producerTransport = calls[c].router]
                      ELSE [roomsUsers[q][t] EXCEPT !.consumerTransport = calls[c].router]
    <3>1. q \in Rooms /\ t \in Sockets
      BY <2>3, CallKinds DEF TransportCreated, TransportCall
    <3>2. roomsUsers[q][t] \in User
      BY <3>1 DEF TypeOK
    <3>3. new.producer = roomsUsers[q][t].producer /\ new.turnedOff = roomsUsers[q][t].turnedOff
      BY <3>2 DEF User
    <3> QED
      BY <1>2, <2>3, <3>1, <3>3 DEF TransportCreated
  <2>4. CASE Produced(c)
    BY <1>1, <2>4 DEF Produced, ScreenProduced, UntaggedProduced, registry
  <2>5. CASE Consumed(c)
    <3> DEFINE new == [roomsUsers[q][t] EXCEPT !.consumers = @ \cup {calls[c].producer}]
    <3>1. q \in Rooms /\ t \in Sockets
      BY <2>5, CallKinds DEF Consumed, ConsumeCall
    <3>2. roomsUsers[q][t] \in User
      BY <3>1 DEF TypeOK
    <3>3. new.producer = roomsUsers[q][t].producer /\ new.turnedOff = roomsUsers[q][t].turnedOff
      BY <3>2 DEF User
    <3> QED
      BY <1>1, <1>2, <2>5, <3>1, <3>3 DEF Consumed, registry
  <2>6. CASE DataConsumed(c)
    <3>1. q \in Rooms /\ t \in Sockets
      BY <2>6, CallKinds DEF DataConsumed, ConsumeCall
    <3> QED
      BY <1>2, <2>6, <3>1 DEF DataConsumed
  <2> QED
    BY <1>3, <2>1, <2>2, <2>3, <2>4, <2>5, <2>6 DEF Answered
<1>4. ASSUME NEW c \in Calls, Toggled(c)
      PROVE  \/ Kept(r, s)
             \/ /\ roomsUsers'[r][s].producer = old.producer
                /\ calls[c].room = r /\ calls[c].user = s
  <2> DEFINE q == calls[c].room
             t == calls[c].user
             new == SwitchTo(roomsUsers[q][t], calls[c].flags, calls[c].kind, calls[c].off)
  <2>1. q \in Rooms /\ t \in Sockets
    BY <1>4, CallKinds DEF Toggled, ToggleCall, TypeOK
  <2>2. new.producer = roomsUsers[q][t].producer
    BY <2>1 DEF SwitchTo, TypeOK, User
  <2>3. UpdateRoomSocketUser(q, t, new)
    BY <1>4 DEF Toggled
  <2> HIDE DEF new
  <2> QED
    BY <2>1, <2>2, <2>3, UpdateEffect
<1>5. ASSUME NEW c \in Calls, NEW n \in 1..MaxProducers, UserProduced(c, Product(calls[c], n))
      PROVE  Kept(r, s) \/ (calls[c].room = r /\ calls[c].user = s)
  <2> DEFINE p == Product(calls[c], n)
  <2>1. p.room = calls[c].room /\ p.by = calls[c].user /\ p \in Producer
    BY <1>5, ProductType DEF UserProduced
  <2>2. PICK user : UpdateRoomSocketUser(p.room, p.by, user)
    BY <1>5 DEF UserProduced
  <2> HIDE DEF p
  <2> QED
    BY <2>1, <2>2, UpdateEffect DEF Producer
<1>6. ASSUME NEW u \in Sockets, NEW q \in Rooms, NEW t \in Sockets, NEW k \in SwitchKinds,
             NEW off \in BOOLEAN, ProducerClosed(u, q, t, k) \/ ToggleNothing(u, q, t, k, off)
      PROVE  \/ Kept(r, s)
             \/ roomsUsers'[r][s].producer = old.producer /\ q = r /\ t = s
  <2>1. PICK v \in BOOLEAN :
          UpdateRoomSocketUser(q, t, SwitchTo(roomsUsers[q][t], roomsUsers[q][t].turnedOff, k, v))
    BY <1>6 DEF ProducerClosed, ToggleNothing
  <2>2. SwitchTo(roomsUsers[q][t], roomsUsers[q][t].turnedOff, k, v).producer
          = roomsUsers[q][t].producer
    BY DEF SwitchTo, TypeOK, User
  <2> QED
    BY <2>1, <2>2, UpdateEffect
<1>7. ASSUME NEW u \in Sockets, NEW q \in Rooms, NEW t \in Sockets,
             \/ SetUserReaction(u, q, t) \/ AccessibilityPreferenceAcceptance(u, q, t)
             \/ ScreenSharingStopped(u, q, t)
      PROVE  Kept(r, s)
  BY <1>1, <1>2, <1>7 DEF SetUserReaction, AccessibilityPreferenceAcceptance, ScreenSharingStopped, registry
<1>8. ASSUME NEW u \in Sockets, NEW q \in Rooms,
             RequestToJoin(u, q) \/ \E message \in Message : RoomContextModification(u, q, message)
      PROVE  Kept(r, s)
  BY <1>1, <1>8 DEF RequestToJoin, RoomContextModification, registry
<1>9. ASSUME NEW u \in Sockets, Disconnect(u)
      PROVE  Kept(r, s) \/ DisconnectMember(s, r)
  <2>1. CASE DisconnectUnlisted(u) \/ \E q \in Rooms : DisconnectStranger(u, q)
    BY <1>1, <2>1 DEF DisconnectUnlisted, DisconnectStranger, registry
  <2>2. ASSUME NEW q \in Rooms, DisconnectMember(u, q)
        PROVE  Kept(r, s) \/ DisconnectMember(s, r)
    <3>1. CASE u = s /\ q = r
      BY <2>2, <3>1
    <3>2. CASE ~(u = s /\ q = r)
      BY <2>2, <3>2 DEF DisconnectMember, TypeOK
    <3> QED
      BY <3>1, <3>2
  <2> QED
    BY <1>9, <2>1, <2>2 DEF Disconnect
<1>10. ASSUME NEW c \in Calls, NEW u \in Sockets, NEW q \in Rooms, Requested(c, u, q)
       PROVE  Kept(r, s)
  BY <1>1, <1>10, RequestedChange DEF registry
<1>11. CASE \E c \in Calls : Answered(c) \/ Rejected(c)
  BY <1>11, <1>3, <1>4, <1>5
<1>12. CASE \E u \in Sockets, q \in Rooms : Done(u, q)
  BY <1>12, <1>6, <1>7, <1>8 DEF Done
<1> QED
  BY <1>9, <1>10, <1>11, <1>12 DEF Next

\* The steps that touch a context or a producer's life.
MediaStep ==
  \/ \E c \in Calls : RoomFetched(c)
  \/ \E c \in Calls, n \in 1..MaxProducers : ScreenProduced(c, Product(calls[c], n))
  \/ \E c \in Calls, n \in 1..MaxProducers : UserProduced(c, Product(calls[c], n))
  \/ \E c \in Calls, n \in 1..MaxProducers : UntaggedProduced(c, Product(calls[c], n))
  \/ \E s \in Sockets, r \in Rooms :
       \/ \E message \in Message : RoomContextModification(s, r, message)
       \/ \E t \in Sockets : ScreenSharingStopped(s, r, t)
       \/ \E t \in Sockets, k \in SwitchKinds : ProducerClosed(s, r, t, k)
       \/ DisconnectMember(s, r)
       \/ DisconnectStranger(s, r)

LEMMA MediaChange ==
  ASSUME Next
  PROVE  MediaStep \/ UNCHANGED <<roomContexts, created, closed>>
<1> USE DEF MediaStep, media
<1>1. ASSUME NEW c \in Calls, Answered(c) \/ Rejected(c)
      PROVE  MediaStep \/ UNCHANGED <<roomContexts, created, closed>>
  BY <1>1 DEF Answered, Rejected, RouterCreated, TransportCreated, Produced, Consumed,
     DataConsumed, TrackResumed, ConsumerResumed, Toggled
<1>2. ASSUME NEW s \in Sockets, NEW r \in Rooms, Done(s, r)
      PROVE  MediaStep \/ UNCHANGED <<roomContexts, created, closed>>
  BY <1>2 DEF Done, RequestToJoin, SetUserReaction, AccessibilityPreferenceAcceptance,
     ToggleNothing
<1>3. ASSUME NEW s \in Sockets, Disconnect(s)
      PROVE  MediaStep \/ UNCHANGED <<roomContexts, created, closed>>
  BY <1>3 DEF Disconnect, DisconnectUnlisted
<1>4. ASSUME NEW c \in Calls, NEW s \in Sockets, NEW r \in Rooms, Requested(c, s, r)
      PROVE  UNCHANGED <<roomContexts, created, closed>>
  BY <1>4, RequestedChange
<1> QED
  BY <1>1, <1>2, <1>3, <1>4 DEF Next

\* Nothing is taken back: what was made stays made, what is closed stays closed.
LEMMA MediaGrows ==
  ASSUME TypeOK, Next
  PROVE  created \subseteq created' /\ closed \subseteq closed'
<1>1. CASE UNCHANGED <<roomContexts, created, closed>>
  BY <1>1
<1>2. ASSUME NEW c \in Calls, RoomFetched(c)
      PROVE  created \subseteq created' /\ closed \subseteq closed'
  BY <1>2 DEF RoomFetched, media
<1>3. ASSUME NEW c \in Calls, NEW p,
             ScreenProduced(c, p) \/ UserProduced(c, p) \/ UntaggedProduced(c, p)
      PROVE  created \subseteq created' /\ closed \subseteq closed'
  BY <1>3 DEF ScreenProduced, UserProduced, UntaggedProduced, Create
<1>4. ASSUME NEW s \in Sockets, NEW r \in Rooms, NEW t \in MaybeSocket, NEW k \in SwitchKinds,
             \/ \E message \in Message : RoomContextModification(s, r, message)
             \/ ScreenSharingStopped(s, r, t)
             \/ ProducerClosed(s, r, t, k)
             \/ DisconnectMember(s, r) \/ DisconnectStranger(s, r)
      PROVE  created \subseteq created' /\ closed \subseteq closed'
  BY <1>4 DEF RoomContextModification, ScreenSharingStopped, ProducerClosed, DisconnectMember,
     DisconnectStranger, media
<1>5. CASE MediaStep
  BY <1>2, <1>3, <1>4, <1>5 DEF MediaStep, MaybeSocket, SwitchKinds
<1> QED
  BY <1>1, <1>5, MediaChange

-----------------------------------------------------------------------------
(* Entries and contexts track what is theirs                                 *)

\* The entry that a user has once its producer is made.
LEMMA ProducedEntry ==
  ASSUME TypeOK, NEW c \in Calls, NEW n \in 1..MaxProducers,
         UserProduced(c, Product(calls[c], n))
  PROVE  LET p == Product(calls[c], n)
             old == roomsUsers[p.room][p.by]
             new == roomsUsers'[p.room][p.by] IN
         /\ p \in Producer /\ p.kind \in UserKinds
         /\ p.room = calls[c].room /\ p.by = calls[c].user /\ p.kind = calls[c].kind
         /\ p \notin created /\ created' = created \cup {p} /\ UNCHANGED closed
         /\ paused' = IF p.kind = "data" THEN paused ELSE paused \cup {p}
         /\ p.by \in listed'[p.room]
         /\ \A k \in UserKinds : new.producer[k] = IF k = p.kind THEN p ELSE old.producer[k]
         /\ new.turnedOff = [k \in SwitchKinds |->
                               IF k = p.kind THEN calls[c].off ELSE old.turnedOff[k]]
<1> DEFINE p == Product(calls[c], n)
           old == roomsUsers[p.room][p.by]
           flags == [k \in SwitchKinds |-> IF k = p.kind THEN calls[c].off ELSE old.turnedOff[k]]
           new == [old EXCEPT !.producer[p.kind] = p, !.turnedOff = flags]
<1>1. /\ p \in Producer
      /\ p.room = calls[c].room /\ p.by = calls[c].user /\ p.kind = calls[c].kind
  BY ProductType DEF UserProduced
<1>2. p.kind \in UserKinds /\ p.room \in Rooms /\ p.by \in Sockets
  BY <1>1 DEF UserProduced, Producer
<1>3. old \in User
  BY <1>2 DEF TypeOK
<1>4. UpdateRoomSocketUser(p.room, p.by, new)
  BY DEF UserProduced
<1>5. roomsUsers'[p.room][p.by] = new /\ p.by \in listed'[p.room]
  <2> HIDE DEF p, new
  <2> QED
    BY <1>2, <1>4, UpdateEffect
<1>6. /\ \A k \in UserKinds : new.producer[k] = IF k = p.kind THEN p ELSE old.producer[k]
      /\ new.turnedOff = flags
  BY <1>2, <1>3 DEF User
<1>7. /\ p \notin created /\ created' = created \cup {p} /\ UNCHANGED closed
      /\ paused' = IF p.kind = "data" THEN paused ELSE paused \cup {p}
  BY <1>1, CreateIsNew DEF UserProduced, Create
<1> QED
  BY <1>1, <1>2, <1>5, <1>6, <1>7

LEMMA TracksInit == Init => TracksAreOwn
BY DEF Init, TracksAreOwn, EmptyUser, EmptyContext

LEMMA TracksNext == TypeOK /\ TracksAreOwn /\ [Next]_vars => TracksAreOwn'
<1> SUFFICES ASSUME TypeOK, TracksAreOwn, Next PROVE TracksAreOwn'
  BY DEF TracksAreOwn, vars, registry, media
<1> SUFFICES ASSUME NEW r \in Rooms
             PROVE  /\ roomContexts'[r].screen # NoProducer =>
                         /\ roomContexts'[r].screen.kind = "screen"
                         /\ roomContexts'[r].screen.room = r
                    /\ \A s \in Sockets, k \in UserKinds :
                         LET p == roomsUsers'[r][s].producer[k] IN
                         p # NoProducer => p \in created' /\ p.kind = k /\ p.room = r /\ p.by = s
  BY DEF TracksAreOwn
<1>1. ASSUME NEW s \in Sockets, NEW k \in UserKinds, roomsUsers'[r][s].producer[k] # NoProducer
      PROVE  LET p == roomsUsers'[r][s].producer[k] IN
             p \in created' /\ p.kind = k /\ p.room = r /\ p.by = s
  <2>1. CASE roomsUsers'[r][s].producer = roomsUsers[r][s].producer
    BY <1>1, <2>1, MediaGrows DEF TracksAreOwn
  <2>2. CASE DisconnectMember(s, r)
    BY <1>1, <2>2 DEF DisconnectMember, EmptyUser, TypeOK
  <2>3. ASSUME NEW c \in Calls, NEW n \in 1..MaxProducers,
               UserProduced(c, Product(calls[c], n)), calls[c].room = r, calls[c].user = s
        PROVE  LET p == roomsUsers'[r][s].producer[k] IN
               p \in created' /\ p.kind = k /\ p.room = r /\ p.by = s
    <3> DEFINE p == Product(calls[c], n)
    <3>1. /\ p.room = r /\ p.by = s /\ created' = created \cup {p}
          /\ roomsUsers'[p.room][p.by].producer[k]
               = IF k = p.kind THEN p ELSE roomsUsers[p.room][p.by].producer[k]
      BY <2>3, ProducedEntry
    <3> HIDE DEF p
    <3> QED
      BY <1>1, <3>1 DEF TracksAreOwn
  <2> QED
    BY <2>1, <2>2, <2>3, EntryChange DEF Kept
<1>2. ASSUME roomContexts'[r].screen # NoProducer
      PROVE  roomContexts'[r].screen.kind = "screen" /\ roomContexts'[r].screen.room = r
  <2>1. CASE roomContexts'[r].screen = roomContexts[r].screen
    BY <1>2, <2>1 DEF TracksAreOwn
  <2>2. ASSUME NEW c \in Calls, NEW n \in 1..MaxProducers, ScreenProduced(c, Product(calls[c], n))
        PROVE  roomContexts'[r].screen.kind = "screen" /\ roomContexts'[r].screen.room = r
    <3> DEFINE p == Product(calls[c], n)
    <3>1. p \in Producer /\ p.kind = "screen"
      BY <2>2, ProductType DEF ScreenProduced
    <3>2. CASE r = p.room
      BY <2>2, <3>1, <3>2 DEF ScreenProduced, ShareBegun, TypeOK, Context
    <3>3. CASE r # p.room
      BY <1>2, <2>2, <3>3 DEF ScreenProduced, TypeOK, TracksAreOwn
    <3> QED
      BY <3>2, <3>3
  <2>3. ASSUME MediaStep,
               ~\E c \in Calls, n \in 1..MaxProducers : ScreenProduced(c, Product(calls[c], n))
        PROVE  roomContexts'[r].screen \in {roomContexts[r].screen, NoProducer}
    <3> roomContexts \in [Rooms -> Context]
      BY DEF TypeOK
    <3>1. ASSUME NEW c \in Calls, RoomFetched(c)
          PROVE  roomContexts'[r].screen = roomContexts[r].screen
      BY <3>1 DEF RoomFetched, Context
    <3>2. ASSUME NEW c \in Calls, NEW p, UserProduced(c, p)
          PROVE  roomContexts'[r].screen = roomContexts[r].screen
      BY <3>2 DEF UserProduced
    <3>3. ASSUME NEW s \in Sockets, NEW q \in Rooms, NEW message \in Message,
                 RoomContextModification(s, q, message)
          PROVE  roomContexts'[r].screen = roomContexts[r].screen
      BY <3>3 DEF RoomContextModification, Merged, Context
    <3>4. ASSUME NEW s \in Sockets, NEW q \in Rooms, NEW t \in Sockets,
                 ScreenSharingStopped(s, q, t)
          PROVE  roomContexts'[r].screen \in {roomContexts[r].screen, NoProducer}
      BY <3>4 DEF ScreenSharingStopped, ShareEnded, Context
    <3>5. ASSUME NEW s \in Sockets, NEW q \in Rooms, NEW t \in Sockets, NEW k \in SwitchKinds,
                 ProducerClosed(s, q, t, k)
          PROVE  roomContexts'[r].screen = roomContexts[r].screen
      BY <3>5 DEF ProducerClosed
    <3>6. ASSUME NEW s \in Sockets, NEW q \in Rooms, DisconnectMember(s, q)
          PROVE  roomContexts'[r].screen \in {roomContexts[r].screen, NoProducer}
      <4>1. \A context \in Context :
              ContextWithout(context, s).screen \in {context.screen, NoProducer}
        BY DEF Context, ContextWithout, ShareEnded
      <4> QED
        BY <3>6, <4>1 DEF DisconnectMember
    <3>7. ASSUME NEW s \in Sockets, NEW q \in Rooms, DisconnectStranger(s, q)
          PROVE  roomContexts'[r].screen = roomContexts[r].screen
      BY <3>7 DEF DisconnectStranger
    <3>8. ASSUME NEW c \in Calls, NEW p, UntaggedProduced(c, p)
          PROVE  roomContexts'[r].screen = roomContexts[r].screen
      BY <3>8 DEF UntaggedProduced
    <3> QED
      BY <2>3, <3>1, <3>2, <3>3, <3>4, <3>5, <3>6, <3>7, <3>8 DEF MediaStep
  <2> QED
    BY <1>2, <2>1, <2>2, <2>3, MediaChange
<1> QED
  BY <1>1, <1>2

-----------------------------------------------------------------------------
(* Screen sharing                                                            *)

\* What a step does to the shares: nothing but to unname a sharer, or to say of a context
\* what a message says, or it ends the share of one room, or it begins one.
SharesKept ==
  /\ \A p : p.kind = "screen" => (p \in open' <=> p \in open) /\ (p \in closed' <=> p \in closed)
  /\ \A r \in Rooms : roomContexts'[r].screen = roomContexts[r].screen
  /\ \A r \in Rooms : ~roomContexts'[r].said =>
       /\ ~roomContexts[r].said
       /\ roomContexts'[r].sharing = roomContexts[r].sharing
       /\ roomContexts'[r].sharer \in {roomContexts[r].sharer, NoSocket}

ShareEnds(r) ==
  /\ \A p : p.kind = "screen" =>
       /\ p \in open' <=> p \in open /\ p # roomContexts[r].screen
       /\ p \in closed' <=> p \in closed \/ (p \in open /\ p = roomContexts[r].screen)
  /\ roomContexts'[r].screen = NoProducer
  /\ roomContexts'[r].sharing = FALSE
  /\ roomContexts'[r].sharer = NoSocket
  /\ \A q \in Rooms \ {r} : roomContexts'[q] = roomContexts[q]

ShareBegins(r, n) ==
  /\ n \in Producer /\ n \notin created /\ n.kind = "screen" /\ n.room = r
  /\ \A p : p.kind = "screen" =>
       /\ p \in open' <=> (p \in open /\ p # roomContexts[r].screen) \/ p = n
       /\ p \in closed' <=> p \in closed \/ (p \in open /\ p = roomContexts[r].screen)
  /\ roomContexts'[r].screen = n
  /\ roomContexts'[r].sharing = TRUE
  /\ roomContexts'[r].sharer = n.by
  /\ \A q \in Rooms \ {r} : roomContexts'[q] = roomContexts[q]

LEMMA ShareSteps ==
  ASSUME TypeOK, TracksAreOwn, Next
  PROVE  SharesKept \/ \E r \in Rooms : ShareEnds(r) \/ \E p \in Producer : ShareBegins(r, p)
<1> /\ roomContexts \in [Rooms -> Context] /\ closed \subseteq created
  BY DEF TypeOK
<1>1. CASE UNCHANGED <<roomContexts, created, closed>>
  BY <1>1 DEF SharesKept, open
<1>2. ASSUME NEW c \in Calls, RoomFetched(c) PROVE SharesKept
  BY <1>2 DEF SharesKept, RoomFetched, open, media, Context
<1>3. ASSUME NEW c \in Calls, NEW n \in 1..MaxProducers, ScreenProduced(c, Product(calls[c], n))
      PROVE  \E r \in Rooms, p \in Producer : ShareBegins(r, p)
  <2> DEFINE p == Product(calls[c], n)
  <2>1. p \in Producer /\ p.kind = "screen" /\ p.room \in Rooms
    BY <1>3, ProductType DEF ScreenProduced, Producer
  <2>2. p \notin created /\ created' = created \cup {p}
    BY <1>3, <2>1, CreateIsNew DEF ScreenProduced
  <2>3. closed' = closed \cup ({roomContexts[p.room].screen} \cap open)
    BY <1>3 DEF ScreenProduced
  <2>4. roomContexts' = [roomContexts EXCEPT ![p.room] = ShareBegun(@, p)]
    BY <1>3 DEF ScreenProduced
  <2> HIDE DEF p
  <2>5. /\ roomContexts'[p.room].screen = p /\ roomContexts'[p.room].sharing = TRUE
        /\ roomContexts'[p.room].sharer = p.by
        /\ \A q \in Rooms \ {p.room} : roomContexts'[q] = roomContexts[q]
    BY <2>1, <2>4 DEF Context, ShareBegun
  <2>6. ShareBegins(p.room, p)
    BY <2>1, <2>2, <2>3, <2>5 DEF ShareBegins, open
  <2> QED
    BY <2>1, <2>6
<1>4. ASSUME NEW c \in Calls, NEW n \in 1..MaxProducers, UserProduced(c, Product(calls[c], n))
      PROVE  SharesKept
  <2> DEFINE p == Product(calls[c], n)
  <2>1. p.kind # "screen" /\ created' = created \cup {p} /\ UNCHANGED closed
    BY <1>4, ProducedEntry DEF UserKinds, SwitchKinds
  <2>2. UNCHANGED roomContexts
    BY <1>4 DEF UserProduced
  <2> QED
    BY <2>1, <2>2 DEF SharesKept, open
<1>5. ASSUME NEW s \in Sockets, NEW r \in Rooms, NEW message \in Message,
             RoomContextModification(s, r, message)
      PROVE  SharesKept
  <2>1. UNCHANGED <<created, closed>>
        /\ roomContexts' = [roomContexts EXCEPT ![r] = Merged(@, message)]
    BY <1>5 DEF RoomContextModification, media
  <2>2. ASSUME NEW context \in Context
        PROVE  /\ Merged(context, message).screen = context.screen
               /\ Merged(context, message).sharing = message.sharing
               /\ Merged(context, message).sharer = message.sharer
               /\ Merged(context, message).said
                    = (context.said \/ context.sharer # message.sharer
                                    \/ context.sharing # message.sharing)
    BY DEF Merged, Context
  <2>3. roomContexts[r] \in Context /\ roomContexts'[r] = Merged(roomContexts[r], message)
        /\ \A q \in Rooms \ {r} : roomContexts'[q] = roomContexts[q]
    BY <2>1
  <2> QED
    BY <2>1, <2>2, <2>3 DEF SharesKept, open
<1>6. ASSUME NEW s \in Sockets, NEW r \in Rooms, NEW t \in Sockets, ScreenSharingStopped(s, r, t)
      PROVE  ShareEnds(r)
  BY <1>6 DEF ShareEnds, ScreenSharingStopped, ShareEnded, open, Context
<1>7. \A r \in Rooms, s \in Sockets : \A p \in TrackedMedia(r, s) : p.kind # "screen"
  <2> SUFFICES ASSUME NEW r \in Rooms, NEW s \in Sockets, NEW k \in SwitchKinds,
                      roomsUsers[r][s].producer[k] \in open
               PROVE  roomsUsers[r][s].producer[k].kind # "screen"
    BY DEF TrackedMedia
  <2>1. roomsUsers[r][s].producer[k] # NoProducer /\ k \in UserKinds
    BY CallAssumption DEF open, TypeOK, UserKinds
  <2> QED
    BY <2>1 DEF TracksAreOwn, SwitchKinds
<1>8. ASSUME NEW s \in Sockets, NEW r \in Rooms, NEW t \in Sockets, NEW k \in SwitchKinds,
             ProducerClosed(s, r, t, k)
      PROVE  SharesKept
  <2>1. \A p \in {roomsUsers[r][t].producer[k]} \cap open : p.kind # "screen"
    BY <1>7 DEF TrackedMedia
  <2> QED
    BY <1>8, <2>1 DEF SharesKept, ProducerClosed, open
<1>9. ASSUME NEW s \in Sockets, NEW r \in Rooms, DisconnectStranger(s, r)
      PROVE  SharesKept
  BY <1>7, <1>9 DEF SharesKept, DisconnectStranger, open
<1>10. ASSUME NEW s \in Sockets, NEW r \in Rooms, DisconnectMember(s, r)
       PROVE  SharesKept \/ ShareEnds(r)
  <2> DEFINE context == roomContexts[r]
  <2>1. /\ closed' = closed \cup TrackedMedia(r, s) \cup SharedBy(context, s)
        /\ UNCHANGED created
        /\ roomContexts' = [roomContexts EXCEPT ![r] = ContextWithout(context, s)]
    BY <1>10 DEF DisconnectMember
  <2>2. CASE context.sharer = s
    <3>1. /\ ContextWithout(context, s).screen = NoProducer
          /\ ContextWithout(context, s).sharing = FALSE
          /\ ContextWithout(context, s).sharer = NoSocket
      BY <2>2 DEF ContextWithout, ShareEnded, Context
    <3>2. SharedBy(context, s) = {context.screen} \cap open
      BY <2>2 DEF SharedBy
    <3> QED
      BY <1>7, <2>1, <3>1, <3>2 DEF ShareEnds, open
  <2>3. CASE context.sharer # s
    <3>1. /\ ContextWithout(context, s).screen = context.screen
          /\ ContextWithout(context, s).sharing = context.sharing
          /\ ContextWithout(context, s).sharer = context.sharer
          /\ ContextWithout(context, s).said = context.said
      BY <2>3 DEF ContextWithout, Context
    <3>2. SharedBy(context, s) = {}
      BY <2>3 DEF SharedBy
    <3> QED
      BY <1>7, <2>1, <3>1, <3>2 DEF SharesKept, open
  <2> QED
    BY <2>2, <2>3
<1>11. ASSUME NEW c \in Calls, NEW n \in 1..MaxProducers, UntaggedProduced(c, Product(calls[c], n))
       PROVE  SharesKept
  <2> DEFINE p == Product(calls[c], n)
  <2>1. p \in Producer /\ p.kind # "screen"
    BY <1>11, ProductType DEF UntaggedProduced
  <2>2. created' = created \cup {p} /\ UNCHANGED <<closed, roomContexts>>
    BY <1>11, <2>1, CreateIsNew DEF UntaggedProduced
  <2> QED
    BY <2>1, <2>2 DEF SharesKept, open
<1> QED
  BY <1>1, <1>2, <1>3, <1>4, <1>5, <1>6, <1>8, <1>9, <1>10, <1>11, MediaChange DEF MediaStep

ScreenInv == NoOrphanScreenShare /\ ContextTellsTheTruth

\* ContextTellsTheTruth for one room.
ContextTrue(r) ==
  LET context == roomContexts[r] IN
  /\ context.screen # NoProducer => context.screen \in open
  /\ ~context.said =>
       /\ context.sharing <=> context.screen # NoProducer
       /\ context.sharer # NoSocket =>
            /\ context.screen # NoProducer
            /\ context.screen.by = context.sharer

LEMMA ScreenInit == Init => ScreenInv
BY DEF Init, ScreenInv, NoOrphanScreenShare, ContextTellsTheTruth, EmptyContext, open

LEMMA ScreenNext == TypeOK /\ TracksAreOwn /\ ScreenInv /\ [Next]_vars => ScreenInv'
<1> SUFFICES ASSUME TypeOK, TracksAreOwn, ScreenInv, [Next]_vars PROVE ScreenInv'
  OBVIOUS
<1> USE CallAssumption DEF ScreenInv, NoOrphanScreenShare, ContextTellsTheTruth
<1>1. /\ roomContexts \in [Rooms -> Context] /\ open \subseteq Producer
      /\ open' \subseteq Producer /\ \A p \in Producer : p.room \in Rooms
  BY NextTypes DEF TypeOK, open, Producer
<1>2. CASE UNCHANGED vars
  BY <1>2 DEF vars, media, open
<1>3. CASE SharesKept
  <2>1. NoOrphanScreenShare'
    BY <1>1, <1>3 DEF SharesKept
  <2>2. ContextTellsTheTruth'
    <3> SUFFICES ASSUME NEW r \in Rooms PROVE ContextTrue(r)'
      BY DEF ContextTrue
    <3>1. ContextTrue(r) /\ roomContexts'[r].screen = roomContexts[r].screen
      BY <1>3 DEF ContextTrue, SharesKept
    <3>2. roomContexts'[r].screen # NoProducer => roomContexts'[r].screen \in open'
      BY <1>3, <3>1 DEF ContextTrue, SharesKept, TracksAreOwn
    <3>3. ~roomContexts'[r].said =>
            /\ ~roomContexts[r].said
            /\ roomContexts'[r].sharing = roomContexts[r].sharing
            /\ roomContexts'[r].sharer \in {roomContexts[r].sharer, NoSocket}
      BY <1>3 DEF SharesKept
    <3> QED
      BY <3>1, <3>2, <3>3 DEF ContextTrue
  <2> QED
    BY <2>1, <2>2
<1>4. ASSUME NEW r \in Rooms, ShareEnds(r) PROVE ScreenInv'
  <2>1. NoOrphanScreenShare'
    BY <1>1, <1>4 DEF ShareEnds
  <2>2. ContextTellsTheTruth'
    BY <1>1, <1>4 DEF ShareEnds, TracksAreOwn
  <2> QED
    BY <2>1, <2>2
<1>5. ASSUME NEW r \in Rooms, NEW p \in Producer, ShareBegins(r, p) PROVE ScreenInv'
  <2>1. NoOrphanScreenShare'
    BY <1>1, <1>5 DEF ShareBegins
  <2>2. ContextTellsTheTruth'
    BY <1>1, <1>5 DEF ShareBegins, TracksAreOwn
  <2> QED
    BY <2>1, <2>2
<1> QED
  BY <1>2, <1>3, <1>4, <1>5, ShareSteps

\* No screen share outlives its place in the room's context.
THEOREM ScreenSharesTracked == Spec => []NoOrphanScreenShare
<1>1. Init => TypeOK /\ TracksAreOwn /\ ScreenInv
  BY InitTypes, TracksInit, ScreenInit
<1>2. TypeOK /\ TracksAreOwn /\ ScreenInv /\ [Next]_vars
        => (TypeOK /\ TracksAreOwn /\ ScreenInv)'
  BY NextTypes, TracksNext, ScreenNext
<1>3. ScreenInv => NoOrphanScreenShare
  BY DEF ScreenInv
<1> QED
  BY <1>1, <1>2, <1>3, PTL DEF Spec

\* What the context says of a share is true.
THEOREM ContextTruthful == Spec => []ContextTellsTheTruth
<1>1. Init => TypeOK /\ TracksAreOwn /\ ScreenInv
  BY InitTypes, TracksInit, ScreenInit
<1>2. TypeOK /\ TracksAreOwn /\ ScreenInv /\ [Next]_vars
        => (TypeOK /\ TracksAreOwn /\ ScreenInv)'
  BY NextTypes, TracksNext, ScreenNext
<1>3. ScreenInv => ContextTellsTheTruth
  BY DEF ScreenInv
<1> QED
  BY <1>1, <1>2, <1>3, PTL DEF Spec

-----------------------------------------------------------------------------
(* Screen sharing implements ScreenSlot                                      *)

LEMMA SlotStep ==
  TypeOK /\ TracksAreOwn /\ ScreenInv /\ [Next]_vars => [Slot!SlotNext]_(Slot!slotVars)
<1> SUFFICES ASSUME TypeOK, TracksAreOwn, ScreenInv, [Next]_vars
             PROVE  [Slot!SlotNext]_(Slot!slotVars)
  OBVIOUS
<1> DEFINE live == [r \in Rooms |-> roomContexts[r].screen]
           ended == {p \in closed : p.kind = "screen"}
<1>1. CASE UNCHANGED vars
  BY <1>1 DEF vars, media, Slot!slotVars
<1>2. CASE SharesKept
  <2>1. \A r \in Rooms : roomContexts'[r].screen = roomContexts[r].screen
    BY <1>2 DEF SharesKept
  <2>2. \A p : p.kind = "screen" => (p \in closed' <=> p \in closed)
    BY <1>2 DEF SharesKept
  <2>3. live' = live /\ ended' = ended
    BY <2>1, <2>2
  <2> QED
    BY <2>3 DEF Slot!slotVars
<1>3. ASSUME NEW r \in Rooms, ShareEnds(r) PROVE Slot!Stop(r)
  <2>1. live' = [live EXCEPT ![r] = NoProducer]
    BY <1>3 DEF ShareEnds
  <2>2. live[r] # NoProducer => live[r] \in open /\ live[r].kind = "screen"
    BY DEF ScreenInv, ContextTellsTheTruth, TracksAreOwn
  <2>3. live[r] = NoProducer => live[r] \notin open
    BY CallAssumption DEF open, TypeOK
  <2>4. ended' = ended \cup ({live[r]} \ {NoProducer})
    BY <1>3, <2>2, <2>3 DEF ShareEnds
  <2> QED
    BY <2>1, <2>4 DEF Slot!Stop, Slot!EndLive
<1>4. ASSUME NEW r \in Rooms, NEW p \in Producer, ShareBegins(r, p) PROVE Slot!Begin(r, p)
  <2>1. live' = [live EXCEPT ![r] = p]
    BY <1>4 DEF ShareBegins
  <2>2. \A q \in Rooms : live[q] # NoProducer => live[q] \in open /\ live[q].kind = "screen"
    BY DEF ScreenInv, ContextTellsTheTruth, TracksAreOwn
  <2>3. live[r] = NoProducer => live[r] \notin open
    BY CallAssumption DEF open, TypeOK
  <2>4. ended' = ended \cup ({live[r]} \ {NoProducer})
    BY <1>4, <2>2, <2>3 DEF ShareBegins
  <2>5. p \notin ended /\ \A q \in Rooms : live[q] # p
    BY <1>4, <2>2, CallAssumption DEF ShareBegins, open, TypeOK
  <2> QED
    BY <2>1, <2>4, <2>5 DEF Slot!Begin, Slot!EndLive
<1>5. \A p \in Producer : (\E r \in Rooms : ShareBegins(r, p)) => p \in ScreenShares
  BY DEF ShareBegins, ScreenShares
<1> QED
  BY <1>1, <1>2, <1>3, <1>4, <1>5, ShareSteps DEF Slot!SlotNext

\* Sharing keeps the promise of ScreenSlot: one share per room, and none comes back.
THEOREM SharingImplementsSlot == Spec => OneShareAtATime
<1>1. Init => TypeOK /\ TracksAreOwn /\ ScreenInv
  BY InitTypes, TracksInit, ScreenInit
<1>2. TypeOK /\ TracksAreOwn /\ ScreenInv /\ [Next]_vars
        => (TypeOK /\ TracksAreOwn /\ ScreenInv)'
  BY NextTypes, TracksNext, ScreenNext
<1>3. Init => Slot!SlotInit
  BY DEF Init, Slot!SlotInit, EmptyContext
<1> QED
  BY <1>1, <1>2, <1>3, SlotStep, PTL DEF Spec, OneShareAtATime, Slot!SlotSpec

=============================================================================
