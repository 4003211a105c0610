---------------------------- MODULE CallRoomProofs ----------------------------
(***************************************************************************)
(* Who is in a room and on which router, which media of theirs the gateway *)
(* still tracks and who of them is silent, for any sockets, rooms, slots   *)
(* and bounds.                                                             *)
(***************************************************************************)
EXTENDS CallSafetyProofs, FiniteSetTheorems

\* A socket that a room does not list has not joined it either: the entry that it
\* gets when it is next written about is not a member's.
UnlistedHaveNotJoined ==
  \A r \in Rooms, s \in Sockets : s \notin listed[r] => ~roomsUsers[r][s].joined

MembershipInv == MembersAreListed /\ UnlistedHaveNotJoined

-----------------------------------------------------------------------------
(* What a step does to membership *)

\* Entries may come, but none of a member.
NobodyJoinsOrLeaves ==
  /\ connected' = connected /\ members' = members
  /\ \A r \in Rooms, s \in Sockets :
       /\ roomsUsers'[r][s].joined = roomsUsers[r][s].joined
       /\ s \in listed[r] => s \in listed'[r]

LEMMA QuietKeeps ==
  ASSUME MembershipInv, NobodyJoinsOrLeaves, TypeOK, TypeOK'
  PROVE  MembershipInv'
<1>1. UnlistedHaveNotJoined'
  BY DEF MembershipInv, UnlistedHaveNotJoined, NobodyJoinsOrLeaves
<1>2. ASSUME NEW r \in Rooms, NEW s \in Sockets
      PROVE  /\ s \in members'[r] => s \in listed'[r] /\ roomsUsers'[r][s].joined
             /\ s \in connected' /\ s \in listed'[r] /\ roomsUsers'[r][s].joined
                  => s \in members'[r]
  BY DEF MembershipInv, MembersAreListed, UnlistedHaveNotJoined, NobodyJoinsOrLeaves
<1> QED
  BY <1>1, <1>2 DEF MembershipInv, MembersAreListed

\* updateRoomSocketUser with an entry that joined exactly if the old one had.
LEMMA UpdateIsQuiet ==
  ASSUME TypeOK, NEW r \in Rooms, NEW s \in Sockets, NEW user,
         UpdateRoomSocketUser(r, s, user), user.joined = roomsUsers[r][s].joined,
         connected' = connected, members' = members
  PROVE  NobodyJoinsOrLeaves
BY UpdateEffect DEF NobodyJoinsOrLeaves

\* What the handlers other than joinRoom do to an entry.
LEMMA UpdatesDoNotJoin ==
  ASSUME NEW user \in User
  PROVE  /\ \A t \in 0..MaxRouters : /\ [user EXCEPT !.producerTransport = t].joined = user.joined
                                    /\ [user EXCEPT !.consumerTransport = t].joined = user.joined
         /\ \A p \in Producer : [user EXCEPT !.consumers = @ \cup {p}].joined = user.joined
         /\ \A flags, k, off : SwitchTo(user, flags, k, off).joined = user.joined
BY DEF User, SwitchTo

LEMMA AnswersAreQuiet ==
  ASSUME TypeOK, NEW c \in Calls, Answered(c), ~RoomFetched(c)
  PROVE  NobodyJoinsOrLeaves
<1> DEFINE call == calls[c]
           old  == roomsUsers[call.room][call.user]
<1> USE DEF sockets
<1>1. CASE UNCHANGED <<sockets, registry>>
  BY <1>1 DEF NobodyJoinsOrLeaves, registry
<1>2. CASE TransportCreated(c)
  <2>1. call \in TransportCall
    BY <1>2, CallKinds DEF TransportCreated, TypeOK
  <2>2. call.room \in Rooms /\ call.user \in Sockets /\ call.router \in 0..MaxRouters
    BY <2>1 DEF TransportCall
  <2>3. old \in User
    BY <2>2 DEF TypeOK
  <2> QED BY <1>2, <2>2, <2>3, UpdateIsQuiet, UpdatesDoNotJoin DEF TransportCreated
<1>3. CASE Consumed(c)
  <2>1. call \in ConsumeCall
    BY <1>3, CallKinds DEF Consumed, TypeOK
  <2>2. call.room \in Rooms /\ call.user \in Sockets /\ call.producer \in Producer
    BY <2>1 DEF ConsumeCall
  <2>3. old \in User
    BY <2>2 DEF TypeOK
  <2>4. [old EXCEPT !.consumers = @ \cup {call.producer}].joined = old.joined
    BY <2>2, <2>3, UpdatesDoNotJoin
  <2>5. CASE call.user \in listed[call.room]
    BY <1>3, <2>2, <2>4, <2>5, UpdateIsQuiet DEF Consumed
  <2>6. CASE call.user \notin listed[call.room]
    BY <1>1, <1>3, <2>6 DEF Consumed
  <2> QED BY <2>5, <2>6
<1>4. CASE DataConsumed(c)
  <2>1. call \in ConsumeCall
    BY <1>4, CallKinds DEF DataConsumed, TypeOK
  <2> QED BY <1>4, <2>1, UpdateIsQuiet DEF ConsumeCall, DataConsumed
<1>5. CASE Toggled(c)
  <2>1. call \in ToggleCall
    BY <1>5, CallKinds DEF Toggled, TypeOK
  <2>2. call.room \in Rooms /\ call.user \in Sockets
    BY <2>1 DEF ToggleCall
  <2>3. old \in User
    BY <2>2 DEF TypeOK
  <2> QED BY <1>5, <2>2, <2>3, UpdateIsQuiet, UpdatesDoNotJoin DEF Toggled
<1>6. CASE Produced(c)
  <2>1. PICK n \in 1..MaxProducers : \/ ScreenProduced(c, Product(call, n))
                                     \/ UserProduced(c, Product(call, n))
                                     \/ UntaggedProduced(c, Product(call, n))
    BY <1>6 DEF Produced
  <2> DEFINE p == Product(call, n)
  <2>2. p \in Producer
    BY <1>6, ProductType DEF Produced
  <2> HIDE DEF p
  <2>3. p.room \in Rooms /\ p.by \in Sockets
    BY <2>2 DEF Producer
  <2>4. CASE ScreenProduced(c, p)
    BY <1>1, <2>4 DEF ScreenProduced
  <2>6. CASE UntaggedProduced(c, p)
    BY <1>1, <2>6 DEF UntaggedProduced
  <2>5. CASE UserProduced(c, p)
    <3> DEFINE was == roomsUsers[p.room][p.by]
               is  == [was EXCEPT !.producer[p.kind] = p,
                                  !.turnedOff = [k \in SwitchKinds |->
                                    IF k = p.kind THEN calls[c].off ELSE @[k]]]
    <3>1. was \in User
      BY <2>3 DEF TypeOK
    <3>2. is.joined = was.joined
      BY <3>1 DEF User
    <3>3. UpdateRoomSocketUser(p.room, p.by, is) /\ connected' = connected /\ members' = members
      BY <2>5 DEF UserProduced
    <3> HIDE DEF is
    <3> QED BY <2>3, <3>2, <3>3, UpdateIsQuiet
  <2> QED BY <2>1, <2>4, <2>5, <2>6 DEF p
<1>7. CASE RouterCreated(c) \/ TrackResumed(c) \/ ConsumerResumed(c)
  BY <1>1, <1>7 DEF RouterCreated, TrackResumed, ConsumerResumed
<1> QED
  BY <1>2, <1>3, <1>4, <1>5, <1>6, <1>7 DEF Answered

LEMMA DoneIsQuiet ==
  ASSUME TypeOK, NEW s \in Sockets, NEW r \in Rooms, Done(s, r)
  PROVE  NobodyJoinsOrLeaves
<1> USE DEF sockets
<1>1. CASE UNCHANGED <<sockets, registry>>
  BY <1>1 DEF NobodyJoinsOrLeaves, registry
<1>2. CASE RequestToJoin(s, r) \/ \E message \in Message : RoomContextModification(s, r, message)
  BY <1>1, <1>2 DEF RequestToJoin, RoomContextModification
<1>3. ASSUME NEW t \in Sockets, ScreenSharingStopped(s, r, t)
      PROVE  NobodyJoinsOrLeaves
  BY <1>1, <1>3 DEF ScreenSharingStopped
<1>4. ASSUME NEW t \in Sockets,
             SetUserReaction(s, r, t) \/ AccessibilityPreferenceAcceptance(s, r, t)
      PROVE  NobodyJoinsOrLeaves
  BY <1>4, UpdateIsQuiet DEF SetUserReaction, AccessibilityPreferenceAcceptance
<1>5. ASSUME NEW t \in Sockets, NEW k \in SwitchKinds, NEW off \in BOOLEAN,
             ProducerClosed(s, r, t, k) \/ ToggleNothing(s, r, t, k, off)
      PROVE  NobodyJoinsOrLeaves
  <2> DEFINE user == roomsUsers[r][t]
  <2>1. user \in User
    BY DEF TypeOK
  <2>2. \A b \in BOOLEAN : SwitchTo(user, user.turnedOff, k, b).joined = user.joined
    BY <2>1, UpdatesDoNotJoin
  <2> QED BY <1>5, <2>2, UpdateIsQuiet DEF ProducerClosed, ToggleNothing
<1> QED
  BY <1>2, <1>3, <1>4, <1>5 DEF Done

-----------------------------------------------------------------------------
(* Joining and leaving *)

LEMMA JoinKeeps ==
  ASSUME TypeOK, MembershipInv, NEW c \in Calls, RoomFetched(c)
  PROVE  MembershipInv'
<1> DEFINE r == calls[c].room
           s == calls[c].user
           user == [roomsUsers[r][s] EXCEPT !.joined = TRUE,
                      !.isAdmin = s \in OwnerSockets[r], !.consumers = {}]
<1>1. r \in Rooms /\ s \in Sockets
  <2>1. calls[c] \in JoinCall
    BY CallKinds DEF RoomFetched, TypeOK
  <2> QED BY <2>1 DEF JoinCall
<1>2. user.joined = TRUE
  BY <1>1 DEF TypeOK, User
<1>3. /\ UpdateRoomSocketUser(r, s, user) /\ connected' = connected
      /\ members' = [members EXCEPT ![r] = @ \cup ({s} \cap connected)]
  BY DEF RoomFetched
<1> HIDE DEF r, s, user
<1>4. ASSUME NEW q \in Rooms, NEW t \in Sockets
      PROVE  /\ (t \in members'[q]) <=> (t \in members[q] \/ (q = r /\ t = s /\ s \in connected))
             /\ (t \in listed'[q]) <=> (t \in listed[q] \/ (q = r /\ t = s))
             /\ roomsUsers'[q][t] = IF q = r /\ t = s THEN user ELSE roomsUsers[q][t]
  BY <1>1, <1>3, UpdateEffect DEF TypeOK
<1> QED
  BY <1>2, <1>3, <1>4 DEF MembershipInv, MembersAreListed, UnlistedHaveNotJoined

LEMMA LeaveKeeps ==
  ASSUME TypeOK, MembershipInv, NEW s \in Sockets, Disconnect(s)
  PROVE  MembershipInv'
<1>1. connected' = connected \ {s} /\ members' = [r \in Rooms |-> members[r] \ {s}]
  BY DEF Disconnect, DisconnectUnlisted, DisconnectMember, DisconnectStranger, Leave
<1>2. CASE UNCHANGED registry
  BY <1>1, <1>2 DEF registry, MembershipInv, MembersAreListed, UnlistedHaveNotJoined
<1>3. ASSUME NEW r \in Rooms, DisconnectMember(s, r)
      PROVE  MembershipInv'
  <2>1. ~EmptyUser.joined
    BY DEF EmptyUser
  <2>2. ASSUME NEW q \in Rooms, NEW t \in Sockets
        PROVE  /\ (t \in listed'[q]) <=> (t \in listed[q] /\ ~(q = r /\ t = s))
               /\ roomsUsers'[q][t] = IF q = r /\ t = s THEN EmptyUser ELSE roomsUsers[q][t]
    BY <1>3 DEF DisconnectMember, TypeOK
  <2> QED
    BY <1>1, <2>1, <2>2 DEF MembershipInv, MembersAreListed, UnlistedHaveNotJoined
<1> QED
  BY <1>2, <1>3 DEF Disconnect, DisconnectUnlisted, DisconnectStranger

-----------------------------------------------------------------------------
LEMMA MembershipInit == Init => MembershipInv
BY DEF Init, MembershipInv, MembersAreListed, UnlistedHaveNotJoined, EmptyUser

LEMMA MembershipNext == TypeOK /\ MembershipInv /\ [Next]_vars => MembershipInv'
<1> SUFFICES ASSUME TypeOK, MembershipInv, [Next]_vars PROVE MembershipInv'
  OBVIOUS
<1>1. TypeOK'
  BY NextTypes
<1>2. CASE UNCHANGED <<sockets, registry>>
  BY <1>2 DEF sockets, registry, MembershipInv, MembersAreListed, UnlistedHaveNotJoined
<1>3. ASSUME NEW c \in Calls, Answered(c) PROVE MembershipInv'
  BY <1>1, <1>3, JoinKeeps, AnswersAreQuiet, QuietKeeps
<1>4. ASSUME NEW s \in Sockets, NEW r \in Rooms, Done(s, r) PROVE MembershipInv'
  BY <1>1, <1>4, DoneIsQuiet, QuietKeeps
<1>5. ASSUME NEW c \in Calls, NEW s \in Sockets, NEW r \in Rooms, Requested(c, s, r)
      PROVE  MembershipInv'
  BY <1>2, <1>5, RequestedChange
<1>6. ASSUME NEW c \in Calls, Rejected(c) PROVE MembershipInv'
  BY <1>2, <1>6 DEF Rejected
<1>7. CASE UNCHANGED vars
  BY <1>2, <1>7 DEF vars
<1> QED
  BY <1>3, <1>4, <1>5, <1>6, <1>7, LeaveKeeps DEF Next

\* Whoever is a member of a room is listed as joined, and whoever is up and listed
\* as joined is a member, in whatever order messages, answers and losses come.
THEOREM MembersAreTheListed == Spec => []MembersAreListed
<1>1. MembershipInv => MembersAreListed
  BY DEF MembershipInv
<1> QED
  BY <1>1, InitTypes, NextTypes, MembershipInit, MembershipNext, PTL DEF Spec

-----------------------------------------------------------------------------
(* Routers *)

RouterInv == RoomNotSplit /\ RoutersInTheMaking

\* Nothing is made of routers: they stay, nobody gets a transport, a producer is on the
\* router of the handler that asked for it, and who waits for any of them waited before.
Transports(user) == <<user.producerTransport, user.consumerTransport>>

RouterOps == {"createRouter", "createTransport", "produce"}

NoRouterWork ==
  /\ roomRouters' = roomRouters /\ raced \subseteq raced'
  /\ \A r \in Rooms, s \in Sockets :
       Transports(roomsUsers'[r][s]) \in {Transports(roomsUsers[r][s]), <<0, 0>>}
  /\ \A p \in created' \ created : \E c \in Calls :
       calls[c].op = "produce" /\ calls[c].room = p.room /\ calls[c].router = p.router
  /\ \A c \in Calls : calls'[c].op \in RouterOps => calls'[c] = calls[c]

LEMMA NoRouterWorkKeeps ==
  ASSUME RouterInv, NoRouterWork
  PROVE  RouterInv'
<1>1. RoutersInTheMaking'
  BY DEF RouterInv, RoutersInTheMaking, NoRouterWork, RouterOps, Raced
<1>2. RoomNotSplit'
  <2> SUFFICES ASSUME NEW r \in Rooms, <<r, NoSocket>> \notin raced'
      PROVE  /\ \A s \in Sockets :
                  /\ roomsUsers'[r][s].producerTransport \in {0, roomRouters'[r]}
                  /\ roomsUsers'[r][s].consumerTransport \in {0, roomRouters'[r]}
             /\ \A p \in created' : p.room = r => p.router = roomRouters'[r]
    BY DEF RoomNotSplit
  <2>1. ASSUME NEW s \in Sockets
        PROVE  /\ roomsUsers'[r][s].producerTransport \in {0, roomRouters'[r]}
               /\ roomsUsers'[r][s].consumerTransport \in {0, roomRouters'[r]}
    BY DEF RouterInv, RoomNotSplit, NoRouterWork, Transports
  <2>2. ASSUME NEW p \in created', p.room = r PROVE p.router = roomRouters'[r]
    BY <2>2 DEF RouterInv, RoomNotSplit, RoutersInTheMaking, NoRouterWork, Raced
  <2> QED BY <2>1, <2>2
<1> QED
  BY <1>1, <1>2 DEF RouterInv

\* updateRoomSocketUser with an entry that has the transports of the old one.
LEMMA UpdateKeepsTransports ==
  ASSUME TypeOK, NEW r \in Rooms, NEW s \in Sockets, NEW user,
         UpdateRoomSocketUser(r, s, user),
         Transports(user) = Transports(roomsUsers[r][s])
  PROVE  \A q \in Rooms, t \in Sockets :
           Transports(roomsUsers'[q][t]) = Transports(roomsUsers[q][t])
BY UpdateEffect

LEMMA UpdatesOfTransports ==
  ASSUME NEW user \in User
  PROVE  /\ \A b : Transports([user EXCEPT !.joined = TRUE, !.isAdmin = b, !.consumers = {}])
                     = Transports(user)
         /\ \A p : Transports([user EXCEPT !.consumers = @ \cup {p}]) = Transports(user)
         /\ \A flags, k, off : Transports(SwitchTo(user, flags, k, off)) = Transports(user)
         /\ \A p, flags : Transports([user EXCEPT !.producer[p.kind] = p, !.turnedOff = flags])
                     = Transports(user)
BY DEF User, SwitchTo, Transports

\* A handler that goes on or ends is not waiting for a router or a transport then.
LEMMA EndsOfHandlers ==
  ASSUME TypeOK, NEW c \in Calls, NEW call, calls' = [calls EXCEPT ![c] = call],
         call.op \notin RouterOps
  PROVE  \A d \in Calls : calls'[d].op \in RouterOps => calls'[d] = calls[d]
BY DEF TypeOK

LEMMA AnswersDoNoRouterWork ==
  ASSUME TypeOK, NEW c \in Calls, Answered(c), ~RouterCreated(c), ~TransportCreated(c)
  PROVE  NoRouterWork
<1> DEFINE call == calls[c]
           old  == roomsUsers[call.room][call.user]
           Same  == \A r \in Rooms, s \in Sockets :
                      Transports(roomsUsers'[r][s]) = Transports(roomsUsers[r][s])
           Ends  == \A d \in Calls : calls'[d].op \in RouterOps => calls'[d] = calls[d]
           Made  == \A p \in created' \ created : \E d \in Calls :
                      /\ calls[d].op = "produce"
                      /\ calls[d].room = p.room /\ calls[d].router = p.router
<1>1. SUFFICES roomRouters' = roomRouters /\ raced \subseteq raced' /\ Same /\ Made /\ Ends
  BY DEF NoRouterWork
<1>2. Finish(c) => Ends
  <2>1. Idle.op \notin RouterOps
    BY DEF Idle, RouterOps
  <2> QED BY <2>1, EndsOfHandlers DEF Finish
<1>11. created' = created => Made
  OBVIOUS
<1> HIDE DEF Ends, Made
<1>3. UNCHANGED registry => Same
  BY DEF registry
<1>4. CASE RoomFetched(c)
  <2>1. call.room \in Rooms /\ call.user \in Sockets
    BY <1>4, CallKinds DEF RoomFetched, TypeOK, JoinCall
  <2>2. old \in User
    BY <2>1 DEF TypeOK
  <2>3. Same
    BY <1>4, <2>1, <2>2, UpdateKeepsTransports, UpdatesOfTransports DEF RoomFetched
  <2> QED BY <1>2, <1>4, <1>11, <2>3 DEF RoomFetched, media
<1>5. CASE Produced(c)
  <2>1. PICK n \in 1..MaxProducers : \/ ScreenProduced(c, Product(call, n))
                                     \/ UserProduced(c, Product(call, n))
                                     \/ UntaggedProduced(c, Product(call, n))
    BY <1>5 DEF Produced
  <2> DEFINE p == Product(call, n)
  <2>2. p \in Producer
    BY <1>5, ProductType DEF Produced
  <2>5. call.op = "produce" /\ call.room = p.room /\ call.router = p.router
    BY <1>5 DEF Produced, Product
  <2> HIDE DEF p
  <2>6. Made
    <3>1. created' = created \cup {p}
      BY <2>1 DEF ScreenProduced, UserProduced, UntaggedProduced, Create, p
    <3> QED BY <2>5, <3>1 DEF Made
  <2>3. CASE ScreenProduced(c, p)
    BY <1>2, <1>3, <2>3, <2>6 DEF ScreenProduced
  <2>7. CASE UntaggedProduced(c, p)
    BY <1>2, <1>3, <2>7, <2>6 DEF UntaggedProduced
  <2>4. CASE UserProduced(c, p)
    <3>1. p.room \in Rooms /\ p.by \in Sockets
      BY <2>2 DEF Producer
    <3>2. roomsUsers[p.room][p.by] \in User
      BY <3>1 DEF TypeOK
    <3> DEFINE was   == roomsUsers[p.room][p.by]
               flags == [k \in SwitchKinds |-> IF k = p.kind THEN call.off ELSE was.turnedOff[k]]
               is    == [was EXCEPT !.producer[p.kind] = p, !.turnedOff = flags]
    <3>4. UpdateRoomSocketUser(p.room, p.by, is)
      BY <2>4 DEF UserProduced
    <3>5. Transports(is) = Transports(was)
      BY <3>2 DEF User, Transports
    <3> HIDE DEF is, was
    <3>3. Same
      BY <3>1, <3>4, <3>5, UpdateKeepsTransports DEF was
    <3> QED BY <1>2, <2>4, <2>6, <3>3 DEF UserProduced, Overtake
  <2> QED BY <2>1, <2>3, <2>4, <2>7 DEF p
<1>6. CASE Consumed(c)
  <2>1. call.room \in Rooms /\ call.user \in Sockets
    BY <1>6, CallKinds DEF Consumed, TypeOK, ConsumeCall
  <2>2. old \in User
    BY <2>1 DEF TypeOK
  <2>3. Same
    BY <1>3, <1>6, <2>1, <2>2, UpdateKeepsTransports, UpdatesOfTransports DEF Consumed
  <2> QED BY <1>2, <1>6, <1>11, <2>3 DEF Consumed, media
<1>7. CASE DataConsumed(c)
  <2>1. call.room \in Rooms /\ call.user \in Sockets
    BY <1>7, CallKinds DEF DataConsumed, TypeOK, ConsumeCall
  <2>2. Same
    BY <1>7, <2>1, UpdateKeepsTransports DEF DataConsumed
  <2> QED BY <1>2, <1>7, <1>11, <2>2 DEF DataConsumed, media
<1>8. CASE Toggled(c)
  <2>1. call.room \in Rooms /\ call.user \in Sockets
    BY <1>8, CallKinds DEF Toggled, TypeOK, ToggleCall
  <2>2. old \in User
    BY <2>1 DEF TypeOK
  <2>3. /\ UpdateRoomSocketUser(call.room, call.user, SwitchTo(old, call.flags, call.kind, call.off))
        /\ Transports(SwitchTo(old, call.flags, call.kind, call.off)) = Transports(old)
    BY <1>8, <2>2 DEF Toggled, User, SwitchTo, Transports
  <2>4. Same
    BY <2>1, <2>3, UpdateKeepsTransports
  <2> QED BY <1>2, <1>8, <1>11, <2>4 DEF Toggled, Overtake
<1>9. CASE TrackResumed(c)
  <2> DEFINE stages == {a \in DOMAIN Rank : Rank[call.stage] < Rank[a]}
  <2>1. call \in ReadyCall
    BY <1>9, CallKinds DEF TrackResumed, TypeOK
  <2>2. stages \in SUBSET {"video", "audio", "consumer"}
    BY DEF Rank
  <2> HIDE DEF stages
  <2>3. Proceed(call, stages).op \notin RouterOps
    <3>1. CASE Proceed(call, stages) = Idle
      BY <3>1 DEF Idle, RouterOps
    <3>2. CASE Proceed(call, stages) # Idle
      BY <2>1, <2>2, <3>2, ProceedType DEF ReadyCall, RouterOps
    <3> QED BY <3>1, <3>2
  <2>4. calls' = [calls EXCEPT ![c] = Proceed(call, stages)]
    BY <1>9 DEF TrackResumed, stages
  <2>5. Ends
    BY <2>3, <2>4, EndsOfHandlers DEF Ends
  <2> QED BY <1>3, <1>9, <1>11, <2>5 DEF TrackResumed
<1>10. CASE ConsumerResumed(c)
  BY <1>2, <1>3, <1>10, <1>11 DEF ConsumerResumed
<1> QED
  BY <1>4, <1>5, <1>6, <1>7, <1>8, <1>9, <1>10 DEF Answered

LEMMA DoneIsNoRouterWork ==
  ASSUME TypeOK, NEW s \in Sockets, NEW r \in Rooms, Done(s, r)
  PROVE  NoRouterWork
<1> DEFINE Same == \A q \in Rooms, t \in Sockets :
                     Transports(roomsUsers'[q][t]) = Transports(roomsUsers[q][t])
<1>1. SUFFICES roomRouters' = roomRouters /\ raced \subseteq raced' /\ Same /\ calls' = calls
  <2>1. created' = created
    BY DEF Done, RequestToJoin, RoomContextModification, ScreenSharingStopped,
           SetUserReaction, AccessibilityPreferenceAcceptance, ProducerClosed, ToggleNothing,
           media
  <2> QED BY <2>1 DEF NoRouterWork
<1>2. UNCHANGED registry => Same
  BY DEF registry
<1>3. CASE \/ RequestToJoin(s, r)
           \/ \E message \in Message : RoomContextModification(s, r, message)
           \/ \E t \in Sockets : ScreenSharingStopped(s, r, t)
  BY <1>2, <1>3 DEF RequestToJoin, RoomContextModification, ScreenSharingStopped
<1>4. ASSUME NEW t \in Sockets,
             SetUserReaction(s, r, t) \/ AccessibilityPreferenceAcceptance(s, r, t)
      PROVE  roomRouters' = roomRouters /\ raced \subseteq raced' /\ Same /\ calls' = calls
  BY <1>4, UpdateKeepsTransports DEF SetUserReaction, AccessibilityPreferenceAcceptance
<1>5. ASSUME NEW t \in Sockets, NEW k \in SwitchKinds, NEW off \in BOOLEAN,
             ProducerClosed(s, r, t, k) \/ ToggleNothing(s, r, t, k, off)
      PROVE  roomRouters' = roomRouters /\ raced \subseteq raced' /\ Same /\ calls' = calls
  <2>1. roomsUsers[r][t] \in User
    BY DEF TypeOK
  <2> DEFINE is(b) == SwitchTo(roomsUsers[r][t], roomsUsers[r][t].turnedOff, k, b)
  <2>3. \E b \in BOOLEAN : UpdateRoomSocketUser(r, t, is(b))
    BY <1>5 DEF ProducerClosed, ToggleNothing
  <2>4. \A b \in BOOLEAN : Transports(is(b)) = Transports(roomsUsers[r][t])
    BY <2>1 DEF User, SwitchTo, Transports
  <2> HIDE DEF is
  <2>2. Same
    BY <2>3, <2>4, UpdateKeepsTransports
  <2> QED BY <1>5, <2>2 DEF ProducerClosed, ToggleNothing, Overtake
<1> QED
  BY <1>3, <1>4, <1>5 DEF Done

LEMMA DisconnectIsNoRouterWork ==
  ASSUME TypeOK, NEW s \in Sockets, Disconnect(s)
  PROVE  NoRouterWork
<1>1. CASE DisconnectUnlisted(s) \/ \E r \in Rooms : DisconnectStranger(s, r)
  BY <1>1 DEF DisconnectUnlisted, DisconnectStranger, NoRouterWork, registry, media
<1>2. ASSUME NEW r \in Rooms, DisconnectMember(s, r)
      PROVE  NoRouterWork
  <2>1. Transports(EmptyUser) = <<0, 0>>
    BY DEF Transports, EmptyUser
  <2>2. \A q \in Rooms, t \in Sockets :
          roomsUsers'[q][t] = IF q = r /\ t = s THEN EmptyUser ELSE roomsUsers[q][t]
    BY <1>2 DEF DisconnectMember, TypeOK
  <2>3. /\ roomRouters' = roomRouters /\ raced \subseteq raced' /\ calls' = calls
        /\ created' = created
    BY <1>2 DEF DisconnectMember, Overtake
  <2> QED BY <2>1, <2>2, <2>3 DEF NoRouterWork
<1> QED
  BY <1>1, <1>2 DEF Disconnect

-----------------------------------------------------------------------------
\* The first router of a room finds no transports there, and a second one was raced
\* by the first.
LEMMA RouterCreatedKeeps ==
  ASSUME TypeOK, RouterInv, NEW c \in Calls, RouterCreated(c)
  PROVE  RouterInv'
<1> DEFINE r == calls[c].room
<1> USE DEF RouterInv, Raced
<1>1. calls[c] \in JoinCall /\ r \in Rooms
  BY CallKinds DEF RouterCreated, TypeOK, JoinCall
<1>2. /\ \A q \in Rooms \ {r} : roomRouters'[q] = roomRouters[q]
      /\ raced \subseteq raced' /\ roomsUsers' = roomsUsers /\ created' = created
      /\ calls' = [calls EXCEPT ![c].op = "getRoom"]
  BY <1>1 DEF RouterCreated, Overtake, TypeOK, registry, media
<1>3. calls'[c].op = "getRoom" /\ \A d \in Calls \ {c} : calls'[d] = calls[d]
  BY <1>1, <1>2 DEF TypeOK, JoinCall
<1>4. roomRouters[r] = 0 \/ <<r, NoSocket>> \in raced
  BY DEF RouterCreated, RoutersInTheMaking
<1>5. ASSUME NEW d \in Calls \ {c}, calls[d].op = "createRouter", calls[d].room = r
      PROVE  <<r, NoSocket>> \in raced'
  BY <1>5 DEF RouterCreated, Overtake, Overtaken
<1>6. ASSUME NEW d \in Calls, calls[d].op \in {"createTransport", "produce"},
             calls[d].room = r
      PROVE  <<r, NoSocket>> \in raced
  <2>1. calls[d] \in TransportCall \cup ProduceCall
    BY <1>6, CallKinds DEF TypeOK
  <2>2. calls[d].router # 0
    BY <2>1, CallAssumption DEF TransportCall, ProduceCall
  <2> QED BY <1>4, <1>6, <2>2 DEF RoutersInTheMaking
<1>7. RoutersInTheMaking'
  <2> SUFFICES ASSUME NEW d \in Calls
               PROVE  /\ calls'[d].op = "createRouter" /\ roomRouters'[calls'[d].room] # 0
                           => <<calls'[d].room, NoSocket>> \in raced'
                      /\ calls'[d].op \in {"createTransport", "produce"} =>
                           \/ <<calls'[d].room, NoSocket>> \in raced'
                           \/ calls'[d].router = roomRouters'[calls'[d].room]
    BY DEF RoutersInTheMaking
  <2>1. CASE d = c
    BY <1>3, <2>1
  <2>2. CASE d # c
    <3>1. calls'[d] = calls[d]
      BY <1>3, <2>2
    <3>2. calls[d].op \in RouterOps => calls[d].room \in Rooms
      BY CallKinds DEF TypeOK, JoinCall, TransportCall, ProduceCall, RouterOps
    <3>3. CASE calls[d].room = r
      BY <1>2, <1>5, <1>6, <2>2, <3>1, <3>3
    <3>4. CASE calls[d].room # r
      BY <1>2, <3>1, <3>2, <3>4 DEF RoutersInTheMaking, RouterOps
    <3> QED BY <3>3, <3>4
  <2> QED BY <2>1, <2>2
<1>8. RoomNotSplit'
  <2> SUFFICES ASSUME NEW q \in Rooms, <<q, NoSocket>> \notin raced'
               PROVE  /\ \A s \in Sockets :
                           /\ roomsUsers'[q][s].producerTransport \in {0, roomRouters'[q]}
                           /\ roomsUsers'[q][s].consumerTransport \in {0, roomRouters'[q]}
                      /\ \A p \in created' : p.room = q => p.router = roomRouters'[q]
    BY DEF RoomNotSplit
  <2>1. ASSUME NEW s \in Sockets
        PROVE  /\ roomsUsers'[q][s].producerTransport \in {0, roomRouters'[q]}
               /\ roomsUsers'[q][s].consumerTransport \in {0, roomRouters'[q]}
    <3>1. /\ roomsUsers[q][s].producerTransport \in {0, roomRouters[q]}
          /\ roomsUsers[q][s].consumerTransport \in {0, roomRouters[q]}
      BY <1>2 DEF RoomNotSplit
    <3> QED BY <1>2, <1>4, <3>1
  <2>2. ASSUME NEW p \in created', p.room = q PROVE p.router = roomRouters'[q]
    <3>1. p.router = roomRouters[q]
      BY <1>2, <2>2 DEF RoomNotSplit
    <3>2. p.router # 0
      BY <1>2, <2>2, CallAssumption DEF TypeOK, Producer
    <3> QED BY <1>2, <1>4, <3>1, <3>2
  <2> QED BY <2>1, <2>2
<1> QED
  BY <1>7, <1>8

\* A transport that a raced router has not overtaken is on the router that the room has.
LEMMA TransportCreatedKeeps ==
  ASSUME TypeOK, RouterInv, NEW c \in Calls, TransportCreated(c)
  PROVE  RouterInv'
<1> DEFINE r   == calls[c].room
           s   == calls[c].user
           old == roomsUsers[r][s]
           new == IF calls[c].isProducer THEN [old EXCEPT !.producerTransport = calls[c].router]
                                         ELSE [old EXCEPT !.consumerTransport = calls[c].router]
           WellPut(user, q) == /\ user.producerTransport \in {0, roomRouters[q]}
                               /\ user.consumerTransport \in {0, roomRouters[q]}
<1>1. calls[c] \in TransportCall
  BY CallKinds DEF TransportCreated, TypeOK
<1>2. r \in Rooms /\ s \in Sockets
  BY <1>1 DEF TransportCall
<1>3. old \in User
  BY <1>2 DEF TypeOK
<1>4. \/ new.producerTransport = calls[c].router /\ new.consumerTransport = old.consumerTransport
      \/ new.producerTransport = old.producerTransport /\ new.consumerTransport = calls[c].router
  BY <1>3 DEF User
<1>5. /\ UpdateRoomSocketUser(r, s, new)
      /\ roomRouters' = roomRouters /\ raced' = raced /\ created' = created
  BY DEF TransportCreated, media
<1>6. Raced(r, NoSocket) \/ calls[c].router = roomRouters[r]
  BY DEF RouterInv, RoutersInTheMaking, TransportCreated
<1>7. Raced(r, NoSocket) \/ WellPut(old, r)
  BY <1>2 DEF RouterInv, RoomNotSplit, Raced
<1>8. Raced(r, NoSocket) \/ WellPut(new, r)
  BY <1>4, <1>6, <1>7
<1> HIDE DEF r, s, new
<1>9. RoomNotSplit'
  <2>1. ASSUME NEW q \in Rooms, <<q, NoSocket>> \notin raced, NEW t \in Sockets
        PROVE  WellPut(roomsUsers'[q][t], q)
    <3>1. roomsUsers'[q][t] = IF q = r /\ t = s THEN new ELSE roomsUsers[q][t]
      BY <1>2, <1>5, UpdateEffect
    <3>2. WellPut(roomsUsers[q][t], q)
      BY <2>1 DEF RouterInv, RoomNotSplit
    <3> QED BY <1>8, <2>1, <3>1, <3>2 DEF Raced
  <2> QED BY <1>5, <2>1 DEF RouterInv, RoomNotSplit
<1>10. RoutersInTheMaking'
  <2>1. \A d \in Calls : calls'[d] = calls[d] \/ calls'[d] = Idle
    BY DEF TransportCreated, Finish, TypeOK
  <2> QED BY <1>5, <2>1 DEF RouterInv, RoutersInTheMaking, Raced, Idle
<1> QED
  BY <1>9, <1>10 DEF RouterInv

\* A handler that starts to make a router found none, one that starts to make a
\* transport makes it on the room's, and one that starts to produce on its user's.
LEMMA RequestsForRouters ==
  ASSUME TypeOK, NEW c \in Calls, NEW s \in Sockets, NEW r \in Rooms, Requested(c, s, r)
  PROVE  /\ calls'[c].op = "createRouter" => calls'[c].room = r /\ roomRouters[r] = 0
         /\ calls'[c].op = "createTransport" =>
              calls'[c].room = r /\ calls'[c].router = roomRouters[r]
         /\ calls'[c].op = "produce" =>
              /\ calls'[c].room = r
              /\ calls'[c].router = roomsUsers[r][s].producerTransport
              /\ calls'[c].router # 0
<1> DEFINE call == calls'[c]
<1>1. CASE JoinRoom(c, s, r)
  BY <1>1 DEF JoinRoom, Start, TypeOK
<1>2. CASE \E isProducer \in BOOLEAN : CreateTransport(c, s, r, isProducer)
  BY <1>2 DEF CreateTransport, Start, TypeOK
<1>3. CASE \E k \in Kinds, off \in BOOLEAN : Produce(c, s, r, k, off)
  BY <1>3 DEF Produce, Start, TypeOK
<1>4. CASE \E p \in open : Consume(c, s, r, p) \/ ConsumeData(c, s, r, p)
  BY <1>4 DEF Consume, ConsumeData, Start, TypeOK
<1>5. ASSUME NEW t \in Sockets, NEW p \in created, ConsumerReady(c, s, r, t, p)
      PROVE  call.op \notin RouterOps
  <2> DEFINE from == Producers(r, p)
             user == IF from = {} THEN NoSocket ELSE CHOOSE u \in from : TRUE
             ready == [op |-> "consumerReady", room |-> r, user |-> user, stage |-> "video",
                       tracks |-> IF from = {} THEN NoTracks ELSE roomsUsers[r][user].producer,
                       flags |-> IF from = {} THEN EmptyUser.turnedOff
                                 ELSE roomsUsers[r][user].turnedOff,
                       producer |-> p, consumer |-> t]
             first == Proceed(ready, {"video", "audio", "consumer"})
  <2>1. call = first
    BY <1>5 DEF ConsumerReady, Start, TypeOK
  <2>2. \A a : [ready EXCEPT !.stage = a].op = "consumerReady"
    OBVIOUS
  <2>3. first = Idle \/ \E a : first = [ready EXCEPT !.stage = a]
    <3> HIDE DEF ready
    <3> QED BY DEF Proceed
  <2> HIDE DEF ready, first
  <2>4. first = Idle \/ first.op = "consumerReady"
    BY <2>2, <2>3, Zenon
  <2> QED BY <2>1, <2>4 DEF Idle, RouterOps
<1>6. CASE \E t \in Sockets, k \in SwitchKinds, off \in BOOLEAN : Toggle(c, s, r, t, k, off)
  BY <1>6 DEF Toggle, Start, TypeOK
<1> QED BY <1>1, <1>2, <1>3, <1>4, <1>5, <1>6 DEF Requested, RouterOps

LEMMA RequestedKeepsRouters ==
  ASSUME TypeOK, RouterInv, NEW c \in Calls, NEW s \in Sockets, NEW r \in Rooms,
         Requested(c, s, r)
  PROVE  RouterInv'
<1>1. /\ roomRouters' = roomRouters /\ roomsUsers' = roomsUsers /\ raced' = raced
      /\ created' = created /\ \A d \in Calls \ {c} : calls'[d] = calls[d]
  BY RequestedChange DEF registry, media
<1>2. Raced(r, NoSocket) \/ roomsUsers[r][s].producerTransport \in {0, roomRouters[r]}
  BY DEF RouterInv, RoomNotSplit, Raced
<1>3. RoomNotSplit'
  BY <1>1 DEF RouterInv, RoomNotSplit
<1>4. RoutersInTheMaking'
  BY <1>1, <1>2, RequestsForRouters DEF RouterInv, RoutersInTheMaking, Raced
<1> QED
  BY <1>3, <1>4 DEF RouterInv

-----------------------------------------------------------------------------
LEMMA RouterInit == Init => RouterInv
BY DEF Init, RouterInv, RoomNotSplit, RoutersInTheMaking, EmptyUser, Idle

LEMMA RouterNext == TypeOK /\ RouterInv /\ [Next]_vars => RouterInv'
<1> SUFFICES ASSUME TypeOK, RouterInv, [Next]_vars PROVE RouterInv'
  OBVIOUS
<1>1. ASSUME NEW c \in Calls, Answered(c) PROVE RouterInv'
  BY <1>1, RouterCreatedKeeps, TransportCreatedKeeps, AnswersDoNoRouterWork, NoRouterWorkKeeps
<1>2. ASSUME NEW c \in Calls, Rejected(c) PROVE RouterInv'
  <2>1. \A d \in Calls : calls'[d] = calls[d] \/ calls'[d] = Idle
    BY <1>2 DEF Rejected, Finish, TypeOK
  <2> QED BY <1>2, <2>1 DEF Rejected, RouterInv, RoomNotSplit, RoutersInTheMaking, Raced,
                            Idle, registry, media
<1>3. ASSUME NEW c \in Calls, NEW s \in Sockets, NEW r \in Rooms, Requested(c, s, r)
      PROVE  RouterInv'
  BY <1>3, RequestedKeepsRouters
<1>4. ASSUME NEW s \in Sockets, NEW r \in Rooms, Done(s, r) PROVE RouterInv'
  BY <1>4, DoneIsNoRouterWork, NoRouterWorkKeeps
<1>5. ASSUME NEW s \in Sockets, Disconnect(s) PROVE RouterInv'
  BY <1>5, DisconnectIsNoRouterWork, NoRouterWorkKeeps
<1>6. CASE UNCHANGED vars
  BY <1>6 DEF vars, registry, media, RouterInv, RoomNotSplit, RoutersInTheMaking, Raced
<1> QED
  BY <1>1, <1>2, <1>3, <1>4, <1>5, <1>6 DEF Next

\* The transports of a room, and what was produced in it, are all on its router, unless
\* two joins made one at once.
THEOREM RoomsHaveOneRouter == Spec => []RoomNotSplit
<1>1. RouterInv => RoomNotSplit
  BY DEF RouterInv
<1> QED
  BY <1>1, InitTypes, NextTypes, RouterInit, RouterNext, PTL DEF Spec

\* The handlers that make a router for room r.
Makers(r) == {c \in Calls : calls[c].op = "createRouter" /\ calls[c].room = r}

LEMMA MakersAreCounted ==
  ASSUME NEW r
  PROVE  /\ IsFiniteSet(Makers(r)) /\ Cardinality(Makers(r)) \in Nat
         /\ Cardinality(Makers(r)) <= Cardinality(Calls) /\ Cardinality(Calls) \in Nat
<1>1. Makers(r) \in SUBSET Calls
  BY DEF Makers
<1> QED BY <1>1, CallAssumption, FS_Subset, FS_CardinalityType

LEMMA NoNewMakers ==
  ASSUME TypeOK, RoutersAreFew, NEW r \in Rooms, roomRouters'[r] = roomRouters[r],
         Makers(r)' \subseteq Makers(r)
  PROVE  roomRouters'[r] + Cardinality(Makers(r)') <= Cardinality(Calls)
<1>1. Cardinality(Makers(r)') <= Cardinality(Makers(r)) /\ Cardinality(Makers(r)') \in Nat
  BY MakersAreCounted, FS_Subset, FS_CardinalityType
<1>2. roomRouters[r] + Cardinality(Makers(r)) <= Cardinality(Calls)
  BY DEF RoutersAreFew, Makers
<1>3. roomRouters[r] \in Nat
  BY CallAssumption DEF TypeOK
<1> QED BY <1>1, <1>2, <1>3, MakersAreCounted

LEMMA FewRoutersNext == TypeOK /\ RoutersAreFew /\ [Next]_vars => RoutersAreFew'
<1> SUFFICES ASSUME TypeOK, RoutersAreFew, [Next]_vars, NEW r \in Rooms
    PROVE  roomRouters'[r] + Cardinality(Makers(r)') <= Cardinality(Calls)
  BY DEF RoutersAreFew, Makers
<1> DEFINE Goal == roomRouters'[r] + Cardinality(Makers(r)') <= Cardinality(Calls)
<1>1. ASSUME roomRouters' = roomRouters,
             \A c \in Calls : calls'[c].op = "createRouter" => calls'[c] = calls[c]
      PROVE  Goal
  BY <1>1, NoNewMakers DEF Makers
<1>2. NoRouterWork => Goal
  BY <1>1 DEF NoRouterWork, RouterOps
<1>3. ASSUME NEW c \in Calls, RouterCreated(c) PROVE Goal
  <2>1. /\ calls[c].op = "createRouter" /\ calls[c].room \in Rooms
        /\ roomRouters' = [roomRouters EXCEPT ![calls[c].room] = @ + 1]
        /\ calls'[c].op = "getRoom" /\ \A d \in Calls \ {c} : calls'[d] = calls[d]
    BY <1>3, CallKinds DEF RouterCreated, TypeOK, JoinCall
  <2>2. CASE calls[c].room # r
    <3>1. roomRouters'[r] = roomRouters[r]
      BY <2>1, <2>2 DEF TypeOK
    <3>2. Makers(r)' \subseteq Makers(r)
      BY <2>1 DEF Makers
    <3> QED BY <3>1, <3>2, NoNewMakers
  <2>3. CASE calls[c].room = r
    <3>1. roomRouters'[r] = roomRouters[r] + 1 /\ roomRouters[r] \in Nat
      BY <2>1, <2>3, CallAssumption DEF TypeOK
    <3>2. Makers(r)' = Makers(r) \ {c} /\ c \in Makers(r)
      BY <2>1, <2>3 DEF Makers
    <3>3. Cardinality(Makers(r)') = Cardinality(Makers(r)) - 1
      BY <3>2, MakersAreCounted, FS_RemoveElement
    <3>4. roomRouters[r] + Cardinality(Makers(r)) <= Cardinality(Calls)
      BY DEF RoutersAreFew, Makers
    <3> QED BY <3>1, <3>3, <3>4, MakersAreCounted
  <2> QED BY <2>2, <2>3
<1>4. ASSUME NEW c \in Calls, TransportCreated(c) \/ Rejected(c) PROVE Goal
  <2>1. roomRouters' = roomRouters /\ \A d \in Calls : calls'[d] = calls[d] \/ calls'[d] = Idle
    BY <1>4 DEF TransportCreated, Rejected, Finish, TypeOK
  <2> QED BY <1>1, <2>1 DEF Idle
<1>5. ASSUME NEW c \in Calls, NEW s \in Sockets, NEW q \in Rooms, Requested(c, s, q) PROVE Goal
  <2>1. roomRouters' = roomRouters /\ \A d \in Calls \ {c} : calls'[d] = calls[d]
    BY <1>5, RequestedChange
  <2>2. CASE calls'[c].op = "createRouter" /\ calls'[c].room = r
    <3>1. roomRouters'[r] = 0
      BY <1>5, <2>1, <2>2, RequestsForRouters
    <3>2. Makers(r)' \in SUBSET Calls
      BY DEF Makers
    <3> QED BY <3>1, <3>2, CallAssumption, FS_Subset, FS_CardinalityType
  <2>3. CASE ~(calls'[c].op = "createRouter" /\ calls'[c].room = r)
    <3>1. Makers(r)' \subseteq Makers(r)
      BY <2>1, <2>3 DEF Makers
    <3> QED BY <2>1, <3>1, NoNewMakers
  <2> QED BY <2>2, <2>3
<1>6. CASE UNCHANGED vars
  BY <1>1, <1>6 DEF vars
<1> HIDE DEF Goal
<1>7. ASSUME NEW c \in Calls, Answered(c) PROVE Goal
  BY <1>2, <1>3, <1>4, <1>7, AnswersDoNoRouterWork
<1>8. ASSUME NEW s \in Sockets, NEW q \in Rooms, Done(s, q) PROVE Goal
  BY <1>2, <1>8, DoneIsNoRouterWork
<1>9. ASSUME NEW s \in Sockets, Disconnect(s) PROVE Goal
  BY <1>2, <1>9, DisconnectIsNoRouterWork
<1>10. ASSUME NEW c \in Calls, Rejected(c) PROVE Goal
  BY <1>4, <1>10
<1>11. ASSUME Next PROVE Goal
  BY <1>5, <1>7, <1>8, <1>9, <1>10, <1>11 DEF Next
<1> QED BY <1>6, <1>11 DEF Goal

\* However many joins meet, and whatever the worker and the database answer, a room
\* gets no more routers than handlers can be under way at once.
THEOREM RoomsHaveFewRouters == Spec => []RoutersAreFew
<1>1. Init => RoutersAreFew
  <2> SUFFICES ASSUME Init, NEW r \in Rooms
      PROVE  roomRouters[r] + Cardinality(Makers(r)) <= Cardinality(Calls)
    BY DEF RoutersAreFew, Makers
  <2> QED BY MakersAreCounted DEF Init
<1> QED
  BY <1>1, InitTypes, NextTypes, FewRoutersNext, PTL DEF Spec

-----------------------------------------------------------------------------
(* Media *)

\* Only its own disconnect takes a user out of the list.
LEMMA ListedStays ==
  ASSUME TypeOK, Next, NEW r \in Rooms, NEW s \in Sockets, s \in listed[r]
  PROVE  s \in listed'[r] \/ DisconnectMember(s, r)
<1>1. CASE UNCHANGED registry
  BY <1>1 DEF registry
<1>2. CASE NobodyJoinsOrLeaves
  BY <1>2 DEF NobodyJoinsOrLeaves
<1>3. ASSUME NEW c \in Calls, RoomFetched(c) PROVE s \in listed'[r]
  BY <1>3 DEF RoomFetched, UpdateRoomSocketUser, TypeOK
<1>4. ASSUME NEW u \in Sockets, Disconnect(u) PROVE s \in listed'[r] \/ DisconnectMember(s, r)
  <2>1. ASSUME NEW q \in Rooms, DisconnectMember(u, q)
        PROVE  s \in listed'[r] \/ DisconnectMember(s, r)
    <3>1. CASE u = s /\ q = r
      BY <2>1, <3>1
    <3>2. CASE ~(u = s /\ q = r)
      BY <2>1, <3>2 DEF DisconnectMember, TypeOK
    <3> QED BY <3>1, <3>2
  <2> QED BY <1>1, <1>4, <2>1 DEF Disconnect, DisconnectUnlisted, DisconnectStranger
<1>5. ASSUME NEW c \in Calls, NEW u \in Sockets, NEW q \in Rooms, Requested(c, u, q)
      PROVE  s \in listed'[r]
  BY <1>5, RequestedChange DEF registry
<1>6. ASSUME NEW c \in Calls, Rejected(c) PROVE s \in listed'[r]
  BY <1>6 DEF Rejected, registry
<1> QED
  BY <1>2, <1>3, <1>4, <1>5, <1>6, AnswersAreQuiet, DoneIsQuiet DEF Next

\* A producer is there only because the worker made it.
LEMMA CreatedChange ==
  ASSUME Next
  PROVE  \/ created' = created
         \/ \E c \in Calls, n \in 1..MaxProducers :
              \/ ScreenProduced(c, Product(calls[c], n))
              \/ UserProduced(c, Product(calls[c], n))
              \/ UntaggedProduced(c, Product(calls[c], n))
BY MediaChange DEF MediaStep, media, RoomFetched, RoomContextModification, ScreenSharingStopped,
   ProducerClosed, DisconnectMember, DisconnectStranger

LEMMA MediaNext == TypeOK /\ NoLostMedia /\ [Next]_vars => NoLostMedia'
<1>1. CASE UNCHANGED vars
  BY <1>1 DEF vars, registry, media, open, NoLostMedia, Replaced, SameSource
<1> SUFFICES ASSUME TypeOK, NoLostMedia, Next, NEW p \in open', p.kind \in SwitchKinds
             PROVE  \/ p.by \in listed'[p.room] /\ roomsUsers'[p.room][p.by].producer[p.kind] = p
                    \/ Replaced(p)'
  BY <1>1 DEF NoLostMedia
<1>2. TypeOK' /\ p \in created' /\ p \in Producer
  BY NextTypes DEF open, TypeOK
<1>3. created \subseteq created' /\ closed \subseteq closed'
  BY MediaGrows
<1> DEFINE r == p.room
           s == p.by
<1>4. r \in Rooms /\ s \in Sockets
  BY <1>2 DEF Producer
<1>5. CASE p \in created
  <2>1. p \in open
    BY <1>3, <1>5 DEF open
  <2>2. CASE Replaced(p)
    BY <1>3, <2>2 DEF Replaced
  <2>3. CASE s \in listed[r] /\ roomsUsers[r][s].producer[p.kind] = p
    <3>1. ~DisconnectMember(s, r)
      <4>1. DisconnectMember(s, r) => p \in closed'
        BY <2>1, <2>3 DEF DisconnectMember, TrackedMedia
      <4> QED BY <4>1 DEF open
    <3>2. s \in listed'[r]
      BY <1>4, <2>3, <3>1, ListedStays
    <3>3. CASE roomsUsers'[r][s].producer = roomsUsers[r][s].producer
      BY <2>3, <3>2, <3>3
    <3>4. ASSUME NEW c \in Calls, NEW n \in 1..MaxProducers,
                 UserProduced(c, Product(calls[c], n)), calls[c].room = r, calls[c].user = s
          PROVE  roomsUsers'[r][s].producer[p.kind] = p \/ Replaced(p)'
      <4> DEFINE q == Product(calls[c], n)
      <4>1. /\ q.room = r /\ q.by = s /\ q \notin created /\ created' = created \cup {q}
            /\ \A k \in UserKinds : roomsUsers'[q.room][q.by].producer[k]
                                     = IF k = q.kind THEN q ELSE roomsUsers[q.room][q.by].producer[k]
        BY <3>4, ProducedEntry
      <4> HIDE DEF q
      <4>2. CASE q.kind = p.kind
        <5>1. SameSource(q, p)
          BY <4>1, <4>2 DEF SameSource
        <5>2. p.nr < q.nr
          BY <1>5, <3>4, <5>1 DEF UserProduced, Create, q
        <5> QED BY <4>1, <5>1, <5>2 DEF Replaced, SameSource
      <4>3. CASE q.kind # p.kind
        BY <2>3, <4>1, <4>3 DEF UserKinds
      <4> QED BY <4>2, <4>3
    <3> QED BY <1>4, <3>1, <3>2, <3>3, <3>4, EntryChange DEF Kept
  <2> QED BY <2>1, <2>2, <2>3 DEF NoLostMedia
<1>6. CASE p \notin created
  <2>1. PICK c \in Calls, n \in 1..MaxProducers :
          \/ ScreenProduced(c, Product(calls[c], n))
          \/ UserProduced(c, Product(calls[c], n))
          \/ UntaggedProduced(c, Product(calls[c], n))
    BY <1>2, <1>6, CreatedChange
  <2>2. p = Product(calls[c], n)
    BY <1>2, <1>6, <2>1 DEF ScreenProduced, UserProduced, UntaggedProduced, Create
  <2>3. UserProduced(c, p)
    <3>1. ScreenProduced(c, Product(calls[c], n)) => p.kind = "screen"
      BY <2>2, ProductType DEF ScreenProduced
    <3>2. UntaggedProduced(c, Product(calls[c], n)) => p.kind = "untagged"
      BY <2>2, ProductType DEF UntaggedProduced
    <3> QED BY <2>1, <2>2, <3>1, <3>2 DEF SwitchKinds
  <2>4. /\ s \in listed'[r]
        /\ \A k \in UserKinds : roomsUsers'[r][s].producer[k]
                                 = IF k = p.kind THEN p ELSE roomsUsers[r][s].producer[k]
    BY <2>2, <2>3, ProducedEntry
  <2> QED BY <2>4 DEF UserKinds
<1> QED
  BY <1>5, <1>6

\* Audio or video that is open is what its user's entry tracks, unless a later one of
\* the same user took its place.
THEOREM MediaIsTracked == Spec => []NoLostMedia
<1>1. Init => NoLostMedia
  BY DEF Init, NoLostMedia, open
<1> QED
  BY <1>1, InitTypes, NextTypes, MediaNext, PTL DEF Spec

-----------------------------------------------------------------------------
(* Who is muted *)

\* SnapshotsAreFresh, of one handler.
Fresh(call) ==
  /\ call.op = "toggle" =>
       /\ call.producer \in created
       /\ call.producer.kind = call.kind
       /\ call.producer.room = call.room /\ call.producer.by = call.user
       /\ ~Raced(call.room, call.user) =>
            /\ call.flags = roomsUsers[call.room][call.user].turnedOff
            /\ call.producer = roomsUsers[call.room][call.user].producer[call.kind]
  /\ call.op = "consumerReady" /\ call.stage \in SwitchKinds =>
       /\ call.user \in Sockets
       /\ ~call.flags[call.stage]
       /\ \A k \in SwitchKinds :
            call.tracks[k] # NoProducer =>
              /\ call.tracks[k] \in created /\ call.tracks[k].kind = k
              /\ call.tracks[k].room = call.room /\ call.tracks[k].by = call.user
       /\ call.tracks[call.stage] # NoProducer
       /\ ~Raced(call.room, call.user) =>
            call.flags = roomsUsers[call.room][call.user].turnedOff

LEMMA FreshIsSnapshots == SnapshotsAreFresh <=> \A c \in Calls : Fresh(calls[c])
BY DEF SnapshotsAreFresh, Fresh

\* That a handler was overtaken is not forgotten.
LEMMA RacedGrows ==
  ASSUME TypeOK, Next
  PROVE  raced \subseteq raced'
<1>1. ASSUME NEW c \in Calls, Answered(c) PROVE raced \subseteq raced'
  BY <1>1, AnswersDoNoRouterWork DEF NoRouterWork, RouterCreated, TransportCreated, Overtake
<1>2. ASSUME NEW c \in Calls, NEW s \in Sockets, NEW r \in Rooms, Requested(c, s, r)
      PROVE  raced' = raced
  BY <1>2, RequestedChange
<1> QED
  BY <1>1, <1>2, DoneIsNoRouterWork, DisconnectIsNoRouterWork DEF NoRouterWork, Next, Rejected

\* A handler that is still suspended where it was, while another one writes what it
\* has read, is remembered as overtaken.
LEMMA OvertakenIsRaced ==
  ASSUME TypeOK, Next, NEW c \in Calls, calls[c].op \in {"toggle", "consumerReady"},
         calls'[c] = calls[c], calls[c].room \in Rooms, calls[c].user \in Sockets
  PROVE  LET r == calls[c].room
             s == calls[c].user IN
         \/ <<r, s>> \in raced'
         \/ /\ roomsUsers'[r][s].turnedOff = roomsUsers[r][s].turnedOff
            /\ \A k \in SwitchKinds :
                 roomsUsers'[r][s].producer[k] = roomsUsers[r][s].producer[k]
<1> DEFINE r == calls[c].room
           s == calls[c].user
<1>1. ASSUME NEW own, c \notin own, Overtake(r, s, own)
      PROVE  <<r, s>> \in raced'
  <2>1. s # NoSocket
    BY CallAssumption
  <2>2. Overtaken(r, s, own)
    BY <1>1, <2>1 DEF Overtaken
  <2> QED BY <1>1, <2>2 DEF Overtake
<1>2. ASSUME NEW d \in Calls, Finish(d)
      PROVE  c \notin {d}
  BY <1>2 DEF Finish, TypeOK, Idle
<1>3. CASE DisconnectMember(s, r)
  BY <1>1, <1>3 DEF DisconnectMember
<1>4. ASSUME NEW d \in Calls, NEW n \in 1..MaxProducers,
             UserProduced(d, Product(calls[d], n)), calls[d].room = r, calls[d].user = s
      PROVE  \/ <<r, s>> \in raced'
             \/ /\ roomsUsers'[r][s].turnedOff = roomsUsers[r][s].turnedOff
                /\ \A k \in SwitchKinds :
                     roomsUsers'[r][s].producer[k] = roomsUsers[r][s].producer[k]
  <2> DEFINE p == Product(calls[d], n)
  <2>1. /\ p.room = r /\ p.by = s /\ p.kind \in UserKinds
        /\ \A k \in UserKinds : roomsUsers'[p.room][p.by].producer[k]
                                 = IF k = p.kind THEN p ELSE roomsUsers[p.room][p.by].producer[k]
        /\ roomsUsers'[p.room][p.by].turnedOff
              = [k \in SwitchKinds |-> IF k = p.kind THEN calls[d].off
                                       ELSE roomsUsers[p.room][p.by].turnedOff[k]]
    BY <1>4, ProducedEntry
  <2>2. c \notin {d} /\ (p.kind # "data" => Overtake(p.room, p.by, {d}))
    BY <1>2, <1>4 DEF UserProduced
  <2> HIDE DEF p
  <2>3. CASE p.kind = "data"
    <3>1. roomsUsers[r][s].turnedOff \in [SwitchKinds -> BOOLEAN]
      BY DEF TypeOK, User
    <3>2. \A k \in SwitchKinds : k # p.kind /\ k \in UserKinds
      BY <2>3 DEF SwitchKinds, UserKinds
    <3> QED BY <2>1, <3>1, <3>2
  <2>4. CASE p.kind # "data"
    BY <1>1, <2>1, <2>2, <2>4
  <2> QED BY <2>3, <2>4
<1>5. ASSUME NEW d \in Calls, Toggled(d), calls[d].room = r, calls[d].user = s
      PROVE  <<r, s>> \in raced'
  BY <1>1, <1>2, <1>5 DEF Toggled
<1>6. ASSUME NEW u \in Sockets, NEW k \in SwitchKinds, NEW off,
             ProducerClosed(u, r, s, k) \/ ToggleNothing(u, r, s, k, off)
      PROVE  <<r, s>> \in raced'
  BY <1>1, <1>6 DEF ProducerClosed, ToggleNothing
<1> HIDE DEF r, s
<1> QED
  BY <1>3, <1>4, <1>5, <1>6, EntryChange DEF Kept, r, s

\* What becomes of a slot, as far as toggles and consumerReadys go.
LEMMA SlotChange ==
  ASSUME TypeOK, Next, NEW c \in Calls
  PROVE  \/ calls'[c] = calls[c]
         \/ calls'[c].op \notin {"toggle", "consumerReady"}
         \/ TrackResumed(c)
         \/ \E s \in Sockets, r \in Rooms, t \in Sockets :
              \/ \E p \in created : ConsumerReady(c, s, r, t, p)
              \/ \E k \in SwitchKinds, off \in BOOLEAN : Toggle(c, s, r, t, k, off)
<1> DEFINE Goal == \/ calls'[c] = calls[c]
                   \/ calls'[c].op \notin {"toggle", "consumerReady"}
                   \/ TrackResumed(c)
                   \/ \E s \in Sockets, r \in Rooms, t \in Sockets :
                        \/ \E p \in created : ConsumerReady(c, s, r, t, p)
                        \/ \E k \in SwitchKinds, off \in BOOLEAN : Toggle(c, s, r, t, k, off)
<1>1. ASSUME NEW d \in Calls, Finish(d) PROVE Goal
  BY <1>1 DEF Finish, TypeOK, Idle
<1>2. ASSUME NEW d \in Calls, Answered(d) \/ Rejected(d) PROVE Goal
  <2>1. CASE RouterCreated(d)
    BY <2>1 DEF RouterCreated, TypeOK
  <2>2. CASE TrackResumed(d)
    BY <2>2 DEF TrackResumed, TypeOK
  <2>3. CASE ~RouterCreated(d) /\ ~TrackResumed(d)
    <3>1. Finish(d)
      BY <1>2, <2>3 DEF Answered, Rejected, RoomFetched, TransportCreated, Produced,
         ScreenProduced, UserProduced, UntaggedProduced, Consumed, DataConsumed, ConsumerResumed,
         Toggled
    <3> HIDE DEF Goal
    <3> QED BY <1>1, <3>1
  <2> QED BY <2>1, <2>2, <2>3
<1>3. ASSUME NEW d \in Calls, NEW s \in Sockets, NEW r \in Rooms, Requested(d, s, r) PROVE Goal
  <2>1. CASE d # c
    BY <1>3, <2>1, RequestedChange
  <2>2. CASE d = c
    <3>1. CASE \/ \E t \in Sockets, p \in created : ConsumerReady(c, s, r, t, p)
               \/ \E t \in Sockets, k \in SwitchKinds, off \in BOOLEAN : Toggle(c, s, r, t, k, off)
      BY <3>1
    <3>2. ASSUME NEW call, Start(c, call), call.op \notin {"toggle", "consumerReady"} PROVE Goal
      BY <3>2 DEF Start, TypeOK
    <3>3. CASE \/ JoinRoom(c, s, r)
               \/ \E isProducer \in BOOLEAN : CreateTransport(c, s, r, isProducer)
               \/ \E k \in Kinds, off \in BOOLEAN : Produce(c, s, r, k, off)
               \/ \E p \in open : Consume(c, s, r, p) \/ ConsumeData(c, s, r, p)
      <4> HIDE DEF Goal
      <4> QED BY <3>2, <3>3 DEF JoinRoom, CreateTransport, Produce, Consume, ConsumeData
    <3> QED BY <1>3, <2>2, <3>1, <3>3 DEF Requested
  <2> QED BY <2>1, <2>2
<1>4. ASSUME NEW s \in Sockets, NEW r \in Rooms, Done(s, r) PROVE calls' = calls
  BY <1>4 DEF Done, RequestToJoin, RoomContextModification, SetUserReaction,
     AccessibilityPreferenceAcceptance, ScreenSharingStopped, ProducerClosed, ToggleNothing
<1>5. ASSUME NEW s \in Sockets, Disconnect(s) PROVE calls' = calls
  BY <1>5 DEF Disconnect, DisconnectUnlisted, DisconnectMember, DisconnectStranger
<1>6. CASE \E s \in Sockets, r \in Rooms : Done(s, r)
  BY <1>4, <1>6
<1>7. CASE \E s \in Sockets : Disconnect(s)
  BY <1>5, <1>7
<1>8. ASSUME \E d \in Calls : Answered(d) \/ Rejected(d) PROVE Goal
  <2> HIDE DEF Goal
  <2> QED BY <1>2, <1>8
<1>9. ASSUME \E d \in Calls, s \in Sockets, r \in Rooms : Requested(d, s, r) PROVE Goal
  <2> HIDE DEF Goal
  <2> QED BY <1>3, <1>9
<1> QED BY <1>6, <1>7, <1>8, <1>9 DEF Next

\* What a handler remembers stays true of it while it is suspended.
LEMMA FreshStays ==
  ASSUME TypeOK, Next, NEW c \in Calls, calls'[c] = calls[c], Fresh(calls[c])
  PROVE  Fresh(calls[c])'
<1>1. calls[c].op = "toggle" => calls[c].room \in Rooms /\ calls[c].user \in Sockets
                                 /\ calls[c].kind \in SwitchKinds
  <2>1. calls[c].op = "toggle" => calls[c] \in ToggleCall
    BY CallKinds DEF TypeOK
  <2> QED BY <2>1 DEF ToggleCall
<1>2. calls[c].op = "consumerReady" => calls[c].room \in Rooms
  <2>1. calls[c].op = "consumerReady" => calls[c] \in ReadyCall
    BY CallKinds DEF TypeOK
  <2> QED BY <2>1 DEF ReadyCall
<1>3. created \subseteq created' /\ raced \subseteq raced'
  BY MediaGrows, RacedGrows
<1>4. CASE calls[c].op = "toggle"
  BY <1>1, <1>3, <1>4, OvertakenIsRaced DEF Fresh, Raced
<1>5. CASE calls[c].op = "consumerReady" /\ calls[c].stage \in SwitchKinds
  BY <1>2, <1>3, <1>5, OvertakenIsRaced DEF Fresh, Raced
<1> QED BY <1>4, <1>5 DEF Fresh

\* What consumerReady proceeds to is worth resuming.
LEMMA ProceedsToResume ==
  ASSUME TypeOK, NEW call \in ReadyCall, NEW stages \in SUBSET {"video", "audio", "consumer"},
         NEW new, new = Proceed(call, stages), new # Idle, new.stage \in SwitchKinds
  PROVE  /\ new.op = call.op /\ new.room = call.room /\ new.user = call.user
         /\ new.tracks = call.tracks /\ new.flags = call.flags
         /\ ~call.flags[new.stage] /\ call.tracks[new.stage] \in created
<1>1. PICK a \in stages : /\ new = [call EXCEPT !.stage = a]
                          /\ Pending(call, a) /\ Resumed(call, a) \in open
  BY ProceedType
<1>2. /\ new.op = call.op /\ new.room = call.room /\ new.user = call.user
      /\ new.tracks = call.tracks /\ new.flags = call.flags /\ new.stage = a
  BY <1>1 DEF ReadyCall
<1>3. a # "consumer"
  BY <1>2 DEF SwitchKinds
<1> QED
  BY <1>1, <1>2, <1>3 DEF Pending, Resumed, open

\* A new toggle, a new consumerReady and one that goes on know what is so.
LEMMA FreshStarts ==
  ASSUME TypeOK, TracksAreOwn, Next, NEW c \in Calls,
         NEW s \in Sockets, NEW r \in Rooms, NEW t \in Sockets, NEW k \in SwitchKinds,
         NEW off \in BOOLEAN, Toggle(c, s, r, t, k, off)
  PROVE  Fresh(calls[c])'
<1> DEFINE user == roomsUsers[r][t]
           call == [op |-> "toggle", room |-> r, user |-> t, kind |-> k, off |-> off,
                    producer |-> user.producer[k], flags |-> user.turnedOff]
<1>1. calls'[c] = call
  BY DEF Toggle, Start, TypeOK
<1>2. UNCHANGED <<roomsUsers, created, raced>> /\ user.producer[k] \in created
  BY DEF Toggle, registry, media, open
<1>3. k \in UserKinds /\ user.producer[k] # NoProducer
  BY <1>2, CallAssumption DEF TypeOK, SwitchKinds, UserKinds
<1>4. user.producer[k].kind = k /\ user.producer[k].room = r /\ user.producer[k].by = t
  BY <1>3 DEF TracksAreOwn
<1> QED
  BY <1>1, <1>2, <1>4 DEF Fresh

LEMMA FreshReady ==
  ASSUME TypeOK, TracksAreOwn, Next, NEW c \in Calls,
         NEW s \in Sockets, NEW r \in Rooms, NEW t \in Sockets,
         NEW p \in created, ConsumerReady(c, s, r, t, p)
  PROVE  Fresh(calls[c])'
<1> DEFINE from == Producers(r, p)
           user == IF from = {} THEN NoSocket ELSE CHOOSE u \in from : TRUE
           tracks == IF from = {} THEN NoTracks ELSE roomsUsers[r][user].producer
           flags == IF from = {} THEN EmptyUser.turnedOff ELSE roomsUsers[r][user].turnedOff
           call == [op |-> "consumerReady", room |-> r, user |-> user, stage |-> "video",
                    tracks |-> tracks, flags |-> flags, producer |-> p, consumer |-> t]
           new == Proceed(call, {"video", "audio", "consumer"})
<1>1. calls'[c] = new /\ new # Idle
  BY DEF ConsumerReady, Start, TypeOK
<1>2. UNCHANGED <<roomsUsers, created, raced>>
  BY DEF ConsumerReady, registry, media
<1>3. from # {} => user \in Sockets
  BY DEF Producers, TypeOK
<1>4. tracks \in [UserKinds -> MaybeProducer] /\ flags \in [SwitchKinds -> BOOLEAN]
  <2>1. CASE from = {}
    BY <2>1 DEF NoTracks, EmptyUser, MaybeProducer
  <2>2. CASE from # {}
    BY <1>3, <2>2 DEF TypeOK, User
  <2> QED BY <2>1, <2>2
<1>5. call \in ReadyCall
  <2>1. user \in MaybeSocket /\ p \in Producer
    BY <1>3 DEF MaybeSocket, TypeOK
  <2> HIDE DEF user, tracks, flags
  <2> QED BY <1>4, <2>1 DEF ReadyCall
<1>6. /\ call.op = "consumerReady" /\ call.room = r /\ call.user = user
      /\ call.tracks = tracks /\ call.flags = flags
  OBVIOUS
<1>7. ASSUME from # {}, NEW j \in SwitchKinds, tracks[j] # NoProducer
      PROVE  tracks[j] \in created /\ tracks[j].kind = j /\ tracks[j].room = r /\ tracks[j].by = user
  BY <1>3, <1>7 DEF TracksAreOwn, SwitchKinds, UserKinds
<1>8. ASSUME from = {}, NEW j \in SwitchKinds PROVE tracks[j] \notin created
  BY <1>8, CallAssumption DEF NoTracks, TypeOK, SwitchKinds, UserKinds
<1>9. flags = roomsUsers[r][user].turnedOff \/ from = {}
  OBVIOUS
<1> HIDE DEF user, tracks, flags, call, new, from
<1>10. SUFFICES ASSUME new.stage \in SwitchKinds PROVE Fresh(calls[c])'
  <2>1. new.op = "consumerReady"
    BY <1>1, <1>5, <1>6, ProceedType DEF ReadyCall, new
  <2> QED BY <1>1, <2>1 DEF Fresh
<1>11. /\ new.op = call.op /\ new.room = call.room /\ new.user = call.user
       /\ new.tracks = call.tracks /\ new.flags = call.flags
       /\ ~call.flags[new.stage] /\ call.tracks[new.stage] \in created
  BY <1>1, <1>5, <1>10, ProceedsToResume DEF new
<1>12. from # {} /\ tracks[new.stage] # NoProducer
  BY <1>6, <1>8, <1>10, <1>11, CallAssumption DEF TypeOK
<1> QED
  BY <1>1, <1>2, <1>3, <1>6, <1>7, <1>9, <1>11, <1>12 DEF Fresh

LEMMA FreshResumed ==
  ASSUME TypeOK, Next, NEW c \in Calls, TrackResumed(c), Fresh(calls[c])
  PROVE  Fresh(calls[c])'
<1> DEFINE call == calls[c]
           stages == {a \in DOMAIN Rank : Rank[call.stage] < Rank[a]}
           new == Proceed(call, stages)
<1>1. calls'[c] = new /\ UNCHANGED <<roomsUsers, created, raced>>
      /\ call.op = "consumerReady" /\ call.stage \in SwitchKinds
  BY DEF TrackResumed, TypeOK, registry
<1>2. call \in ReadyCall
  BY <1>1, CallKinds DEF TypeOK
<1>3. stages \in SUBSET {"video", "audio", "consumer"}
  BY DEF Rank
<1> HIDE DEF call, stages, new
<1>4. CASE new = Idle
  BY <1>1, <1>4 DEF Fresh, Idle
<1>5. CASE new # Idle /\ new.stage \notin SwitchKinds
  <2>1. new.op = "consumerReady"
    BY <1>1, <1>2, <1>3, <1>5, ProceedType DEF ReadyCall, new
  <2> QED BY <1>1, <1>5, <2>1 DEF Fresh
<1>6. CASE new # Idle /\ new.stage \in SwitchKinds
  <2>1. /\ new.op = call.op /\ new.room = call.room /\ new.user = call.user
        /\ new.tracks = call.tracks /\ new.flags = call.flags
        /\ ~call.flags[new.stage] /\ call.tracks[new.stage] \in created
    BY <1>2, <1>3, <1>6, ProceedsToResume DEF new
  <2>2. call.tracks[new.stage] # NoProducer
    BY <2>1, CallAssumption DEF TypeOK
  <2>3. Fresh(call)
    BY DEF call
  <2> QED
    BY <1>1, <2>1, <2>2, <2>3 DEF Fresh, Raced
<1> QED BY <1>4, <1>5, <1>6

LEMMA FreshNext ==
  TypeOK /\ TracksAreOwn /\ SnapshotsAreFresh /\ [Next]_vars => SnapshotsAreFresh'
<1>1. CASE UNCHANGED vars
  BY <1>1 DEF vars, registry, media, SnapshotsAreFresh, Raced
<1> SUFFICES ASSUME TypeOK, TracksAreOwn, SnapshotsAreFresh, Next, NEW c \in Calls
             PROVE  Fresh(calls[c])'
  BY <1>1 DEF SnapshotsAreFresh, Fresh
<1>2. Fresh(calls[c])
  BY FreshIsSnapshots
<1>3. CASE calls'[c] = calls[c]
  BY <1>2, <1>3, FreshStays
<1>4. CASE calls'[c].op \notin {"toggle", "consumerReady"}
  BY <1>4 DEF Fresh
<1>5. CASE TrackResumed(c)
  BY <1>2, <1>5, FreshResumed
<1> QED
  BY <1>3, <1>4, <1>5, SlotChange, FreshStarts, FreshReady

\* A producer is resumed by a consumerReady or by a toggle only.
LEMMA PausedChange ==
  ASSUME TypeOK, Next, NEW p, p \in paused, p \notin paused'
  PROVE  \/ \E c \in Calls : TrackResumed(c) /\ p = calls[c].tracks[calls[c].stage]
         \/ \E c \in Calls : Toggled(c) /\ ~calls[c].off /\ p = calls[c].producer
<1> DEFINE Goal == \/ \E c \in Calls : TrackResumed(c) /\ p = calls[c].tracks[calls[c].stage]
                   \/ \E c \in Calls : Toggled(c) /\ ~calls[c].off /\ p = calls[c].producer
<1>1. ASSUME NEW c \in Calls, Answered(c) \/ Rejected(c) PROVE Goal
  <2>1. CASE TrackResumed(c)
    BY <2>1 DEF TrackResumed
  <2>2. CASE Toggled(c)
    BY <2>2 DEF Toggled
  <2>3. ASSUME NEW q, ScreenProduced(c, q) \/ UserProduced(c, q) \/ UntaggedProduced(c, q)
        PROVE  paused \subseteq paused'
    BY <2>3 DEF ScreenProduced, UserProduced, UntaggedProduced, Create
  <2>4. CASE Produced(c)
    BY <2>3, <2>4 DEF Produced
  <2>5. CASE ~TrackResumed(c) /\ ~Toggled(c) /\ ~Produced(c)
    BY <1>1, <2>5 DEF Answered, Rejected, RouterCreated, RoomFetched, TransportCreated, Consumed,
       DataConsumed, ConsumerResumed, media
  <2> QED BY <2>1, <2>2, <2>4, <2>5
<1>2. ASSUME NEW c \in Calls, NEW s \in Sockets, NEW r \in Rooms, Requested(c, s, r) PROVE FALSE
  BY <1>2, RequestedChange DEF media
<1>3. ASSUME NEW s \in Sockets, NEW r \in Rooms, Done(s, r) PROVE FALSE
  BY <1>3 DEF Done, RequestToJoin, RoomContextModification, SetUserReaction,
     AccessibilityPreferenceAcceptance, ScreenSharingStopped, ProducerClosed, ToggleNothing, media
<1>4. ASSUME NEW s \in Sockets, Disconnect(s) PROVE FALSE
  BY <1>4 DEF Disconnect, DisconnectUnlisted, DisconnectMember, DisconnectStranger, media
<1>5. ASSUME \E c \in Calls : Answered(c) \/ Rejected(c) PROVE Goal
  <2> HIDE DEF Goal
  <2> QED BY <1>1, <1>5
<1> QED BY <1>2, <1>3, <1>4, <1>5 DEF Next

\* What a toggle writes.
LEMMA ToggledEntry ==
  ASSUME TypeOK, NEW c \in Calls, Toggled(c)
  PROVE  LET call == calls[c] IN
         /\ call \in ToggleCall
         /\ roomsUsers'[call.room][call.user].turnedOff = [call.flags EXCEPT ![call.kind] = call.off]
         /\ paused' = IF call.off THEN paused \cup {call.producer} ELSE paused \ {call.producer}
<1>1. calls[c] \in ToggleCall
  BY CallKinds DEF Toggled, TypeOK
<1>2. calls[c].room \in Rooms /\ calls[c].user \in Sockets
  BY <1>1 DEF ToggleCall
<1>3. roomsUsers[calls[c].room][calls[c].user] \in User
  BY <1>2 DEF TypeOK
<1> QED
  BY <1>1, <1>2, <1>3, UpdateEffect DEF Toggled, SwitchTo, User

LEMMA MutedNext ==
  TypeOK /\ TracksAreOwn /\ SnapshotsAreFresh /\ MutedStaysSilent /\ [Next]_vars
    => MutedStaysSilent'
<1>1. CASE UNCHANGED vars
  BY <1>1 DEF vars, registry, media, open, MutedStaysSilent, Raced
<1> SUFFICES ASSUME TypeOK, TracksAreOwn, SnapshotsAreFresh, MutedStaysSilent, Next,
                    NEW r \in Rooms, NEW s \in Sockets, NEW k \in SwitchKinds,
                    roomsUsers'[r][s].turnedOff[k], roomsUsers'[r][s].producer[k] \in open',
                    <<r, s>> \notin raced'
             PROVE  roomsUsers'[r][s].producer[k] \in paused'
  BY <1>1 DEF MutedStaysSilent, Raced
<1> DEFINE old == roomsUsers[r][s]
           new == roomsUsers'[r][s]
           p == new.producer[k]
<1>2. <<r, s>> \notin raced /\ created \subseteq created' /\ closed \subseteq closed'
  BY RacedGrows, MediaGrows
<1>3. p # NoProducer /\ k \in UserKinds
  <2>1. created' \subseteq Producer
    BY NextTypes DEF TypeOK
  <2> QED BY <2>1, CallAssumption DEF open, SwitchKinds, UserKinds
<1>4. old \in User /\ old.turnedOff \in [SwitchKinds -> BOOLEAN]
  BY DEF TypeOK, User
<1>5. ASSUME old.turnedOff[k], old.producer[k] = p
      PROVE  p \in paused /\ p.kind = k /\ p.room = r /\ p.by = s
  <2>1. p \in created /\ p.kind = k /\ p.room = r /\ p.by = s
    BY <1>3, <1>5 DEF TracksAreOwn
  <2>2. p \in open
    BY <1>2, <2>1 DEF open
  <2> QED BY <1>2, <1>5, <2>1, <2>2 DEF MutedStaysSilent, Raced
<1>6. ASSUME old.turnedOff[k], old.producer[k] = p
      PROVE  p \in paused'
  <2> SUFFICES ASSUME p \notin paused' PROVE FALSE
    OBVIOUS
  <2> HIDE DEF p
  <2>1. p \in paused /\ p.kind = k /\ p.room = r /\ p.by = s
    BY <1>5, <1>6
  <2>2. ASSUME NEW c \in Calls, TrackResumed(c), p = calls[c].tracks[calls[c].stage] PROVE FALSE
    <3>1. calls[c].op = "consumerReady" /\ calls[c].stage \in SwitchKinds
      BY <2>2 DEF TrackResumed
    <3>2. Fresh(calls[c])
      BY FreshIsSnapshots
    <3>3. calls[c].room = r /\ calls[c].user = s /\ calls[c].stage = k /\ ~calls[c].flags[k]
      BY <1>3, <2>1, <2>2, <3>1, <3>2 DEF Fresh
    <3>4. calls[c].flags = roomsUsers[r][s].turnedOff
      BY <1>2, <3>1, <3>2, <3>3 DEF Fresh, Raced
    <3> QED BY <1>6, <3>3, <3>4
  <2>3. ASSUME NEW c \in Calls, Toggled(c), ~calls[c].off, p = calls[c].producer PROVE FALSE
    <3>1. /\ calls[c] \in ToggleCall
          /\ roomsUsers'[calls[c].room][calls[c].user].turnedOff
               = [calls[c].flags EXCEPT ![calls[c].kind] = calls[c].off]
      BY <2>3, ToggledEntry
    <3>2. Fresh(calls[c]) /\ calls[c].op = "toggle"
      BY <2>3, FreshIsSnapshots DEF Toggled
    <3>3. calls[c].room = r /\ calls[c].user = s /\ calls[c].kind = k
      BY <2>1, <2>3, <3>2 DEF Fresh
    <3>4. ~roomsUsers'[r][s].turnedOff[k]
      BY <2>3, <3>1, <3>3 DEF ToggleCall
    <3> QED BY <3>4
  <2> QED BY <2>1, <2>2, <2>3, PausedChange
<1>7. CASE Kept(r, s)
  BY <1>6, <1>7 DEF Kept
<1>8. CASE DisconnectMember(s, r)
  BY <1>8 DEF DisconnectMember, EmptyUser, TypeOK
<1>9. ASSUME NEW c \in Calls, NEW n \in 1..MaxProducers,
             UserProduced(c, Product(calls[c], n)), calls[c].room = r, calls[c].user = s
      PROVE  p \in paused'
  <2> DEFINE q == Product(calls[c], n)
  <2>1. /\ q.room = r /\ q.by = s
        /\ paused' = IF q.kind = "data" THEN paused ELSE paused \cup {q}
        /\ \A j \in UserKinds : roomsUsers'[q.room][q.by].producer[j]
                                 = IF j = q.kind THEN q ELSE roomsUsers[q.room][q.by].producer[j]
        /\ roomsUsers'[q.room][q.by].turnedOff
              = [j \in SwitchKinds |-> IF j = q.kind THEN calls[c].off
                                       ELSE roomsUsers[q.room][q.by].turnedOff[j]]
    BY <1>9, ProducedEntry
  <2> HIDE DEF q
  <2>2. CASE q.kind = k
    BY <1>3, <2>1, <2>2 DEF SwitchKinds
  <2>3. CASE q.kind # k
    BY <1>3, <1>6, <2>1, <2>3
  <2> QED BY <2>2, <2>3
<1>10. ASSUME NEW c \in Calls, Toggled(c), calls[c].room = r, calls[c].user = s,
              new.producer = old.producer
       PROVE  p \in paused'
  <2>1. /\ calls[c] \in ToggleCall
        /\ new.turnedOff = [calls[c].flags EXCEPT ![calls[c].kind] = calls[c].off]
        /\ paused' = IF calls[c].off THEN paused \cup {calls[c].producer}
                                     ELSE paused \ {calls[c].producer}
    BY <1>10, ToggledEntry
  <2>2. calls[c].flags = old.turnedOff /\ calls[c].producer = old.producer[calls[c].kind]
    <3>1. Fresh(calls[c]) /\ calls[c].op = "toggle"
      BY <1>10, FreshIsSnapshots DEF Toggled
    <3> QED BY <1>2, <1>10, <3>1 DEF Fresh, Raced
  <2>3. CASE calls[c].kind = k
    BY <1>4, <1>10, <2>1, <2>2, <2>3
  <2>4. CASE calls[c].kind # k
    BY <1>4, <1>6, <1>10, <2>1, <2>2, <2>4
  <2> QED BY <2>3, <2>4
<1>11. ASSUME NEW j \in SwitchKinds, NEW u \in Sockets, ProducerClosed(u, r, s, j),
              new.producer = old.producer
       PROVE  p \in paused'
  <2>1. new = SwitchTo(old, old.turnedOff, j, FALSE)
    <3> DEFINE user == SwitchTo(old, old.turnedOff, j, FALSE)
    <3>1. UpdateRoomSocketUser(r, s, user)
      BY <1>11 DEF ProducerClosed
    <3> HIDE DEF user
    <3>2. new = user
      BY <3>1, UpdateEffect
    <3> QED BY <3>2 DEF user
  <2>2. new.turnedOff = [old.turnedOff EXCEPT ![j] = FALSE]
    BY <1>4, <2>1 DEF SwitchTo, User
  <2> QED BY <1>4, <1>6, <1>11, <2>2
<1>12. ASSUME NEW j \in SwitchKinds, NEW u \in Sockets, NEW off \in BOOLEAN,
              ToggleNothing(u, r, s, j, off), new.producer = old.producer
       PROVE  p \in paused'
  <2>1. new = SwitchTo(old, old.turnedOff, j, off) /\ old.producer[j] = NoProducer
    BY <1>12, UpdateEffect DEF ToggleNothing
  <2>2. new.turnedOff = [old.turnedOff EXCEPT ![j] = off]
    BY <1>4, <2>1 DEF SwitchTo, User
  <2>3. j # k
    BY <1>3, <1>12, <2>1
  <2> QED BY <1>4, <1>6, <1>12, <2>2, <2>3
<1> HIDE DEF old, new
<1> QED
  BY <1>7, <1>8, <1>9, <1>10, <1>11, <1>12, EntryChange DEF old, new

\* Who has turned the microphone or the camera off sends nothing, unless a handler
\* about the same user was overtaken.
THEOREM MutedAreSilent == Spec => []MutedStaysSilent
<1>1. Init => TracksAreOwn /\ SnapshotsAreFresh /\ MutedStaysSilent
  <2>1. Init => SnapshotsAreFresh
    BY DEF Init, SnapshotsAreFresh, Idle
  <2>2. Init => MutedStaysSilent
    BY DEF Init, MutedStaysSilent, open
  <2> QED BY <2>1, <2>2, TracksInit
<1> QED
  BY <1>1, InitTypes, NextTypes, TracksNext, FreshNext, MutedNext, PTL DEF Spec

-----------------------------------------------------------------------------
(* What a step never does *)

\* Only its own disconnect takes a client down.
LEMMA WhoGoes ==
  ASSUME TypeOK, Next, NEW s \in Sockets, s \in connected, s \notin connected'
  PROVE  Disconnect(s)
<1>1. ASSUME NEW c \in Calls, Answered(c) \/ Rejected(c) PROVE FALSE
  <2>1. CASE RoomFetched(c)
    BY <2>1 DEF RoomFetched
  <2>2. CASE Rejected(c)
    BY <2>2 DEF Rejected, sockets
  <2> QED BY <1>1, <2>1, <2>2, AnswersAreQuiet DEF NobodyJoinsOrLeaves
<1>2. ASSUME NEW c \in Calls, NEW u \in Sockets, NEW r \in Rooms, Requested(c, u, r) PROVE FALSE
  BY <1>2, RequestedChange DEF sockets
<1>3. ASSUME NEW u \in Sockets, NEW r \in Rooms, Done(u, r) PROVE FALSE
  BY <1>3, DoneIsQuiet DEF NobodyJoinsOrLeaves
<1>4. ASSUME NEW u \in Sockets, Disconnect(u) PROVE u = s
  BY <1>4 DEF Disconnect, DisconnectUnlisted, DisconnectMember, DisconnectStranger, Leave
<1> QED BY <1>1, <1>2, <1>3, <1>4 DEF Next

\* The context that a leaving client leaves does not name it.
LEMMA ContextForgets ==
  ASSUME NEW context \in Context, NEW s \in Sockets
  PROVE  s \notin {ContextWithout(context, s).sharer, ContextWithout(context, s).presenter}
<1>1. s # NoSocket
  BY CallAssumption
<1>2. CASE context.sharer = s
  BY <1>1, <1>2 DEF ContextWithout, ShareEnded, Context
<1>3. CASE context.sharer # s
  BY <1>1, <1>3 DEF ContextWithout, ShareEnded, Context
<1> QED BY <1>2, <1>3

LEMMA DepartureStep ==
  TypeOK /\ TracksAreOwn /\ ScreenInv /\ [Next]_vars => [Departures]_vars
<1> SUFFICES ASSUME TypeOK, TracksAreOwn, ScreenInv, Next, NEW s \in Sockets, NEW r \in Rooms,
                    s \in connected, s \notin connected',
                    s \in listed[r], roomsUsers[r][s].joined,
                    \A q \in Rooms \ {r} : s \notin listed[q]
             PROVE  /\ s \notin listed'[r]
                    /\ s \notin {roomContexts'[r].sharer, roomContexts'[r].presenter}
                    /\ roomContexts[r].sharer = s => roomContexts[r].screen \in closed' \cup {NoProducer}
                    /\ \A k \in SwitchKinds :
                         roomsUsers[r][s].producer[k] \in closed' \cup {NoProducer}
  BY DEF Departures, LeavesNothingBehind
<1>1. DisconnectMember(s, r)
  BY WhoGoes DEF Disconnect, DisconnectUnlisted, DisconnectMember, DisconnectStranger
<1>2. s \notin listed'[r]
  BY <1>1 DEF DisconnectMember, TypeOK
<1>3. s \notin {roomContexts'[r].sharer, roomContexts'[r].presenter}
  <2>1. roomContexts'[r] = ContextWithout(roomContexts[r], s) /\ roomContexts[r] \in Context
    BY <1>1 DEF DisconnectMember, TypeOK
  <2> QED BY <2>1, ContextForgets
<1>4. roomContexts[r].sharer = s => roomContexts[r].screen \in closed' \cup {NoProducer}
  BY <1>1, CallAssumption DEF DisconnectMember, SharedBy, ScreenInv, ContextTellsTheTruth
<1>5. ASSUME NEW k \in SwitchKinds
      PROVE  roomsUsers[r][s].producer[k] \in closed' \cup {NoProducer}
  <2>1. roomsUsers[r][s].producer[k] \in created \cup {NoProducer}
    BY DEF TracksAreOwn, SwitchKinds, UserKinds
  <2> QED BY <1>1, <2>1 DEF DisconnectMember, TrackedMedia, open
<1> QED BY <1>2, <1>3, <1>4, <1>5

\* A member of one room that leaves leaves nothing of itself in it.
THEOREM DeparturesAreComplete == Spec => DepartureIsComplete
<1>1. Init => TypeOK /\ TracksAreOwn /\ ScreenInv
  BY InitTypes, TracksInit, ScreenInit
<1> QED
  BY <1>1, NextTypes, TracksNext, ScreenNext, DepartureStep, PTL DEF Spec, DepartureIsComplete

LEMMA SwitchStep ==
  TypeOK /\ TracksAreOwn /\ SnapshotsAreFresh /\ [Next]_vars => [SwitchChanges]_vars
<1> SUFFICES ASSUME TypeOK, TracksAreOwn, SnapshotsAreFresh, Next,
                    NEW r \in Rooms, NEW s \in Sockets, ~Raced(r, s),
                    NEW i \in SwitchKinds,
                    roomsUsers'[r][s].turnedOff[i] # roomsUsers[r][s].turnedOff[i]
             PROVE  \E k \in SwitchKinds :
                      /\ \A j \in SwitchKinds \ {k} :
                           \/ roomsUsers'[r][s].turnedOff[j] = roomsUsers[r][s].turnedOff[j]
                           \/ s \notin listed'[r]
                      /\ \/ \E c \in Calls : Settling(c, r, s, k)
                         \/ roomsUsers[r][s].producer[k] \notin open
                         \/ roomsUsers[r][s].producer[k] \in closed'
  BY DEF SwitchChanges, ChangesForOneReason
<1> DEFINE old == roomsUsers[r][s]
           new == roomsUsers'[r][s]
           Goal == \E k \in SwitchKinds :
                      /\ \A j \in SwitchKinds \ {k} :
                           new.turnedOff[j] = old.turnedOff[j] \/ s \notin listed'[r]
                      /\ \/ \E c \in Calls : Settling(c, r, s, k)
                         \/ old.producer[k] \notin open \/ old.producer[k] \in closed'
<1>1. old \in User /\ old.turnedOff \in [SwitchKinds -> BOOLEAN]
  BY DEF TypeOK, User
<1>2. ASSUME Kept(r, s) PROVE Goal
  BY <1>2 DEF Kept
<1>3. ASSUME DisconnectMember(s, r) PROVE Goal
  BY <1>3 DEF DisconnectMember, TrackedMedia, TypeOK
<1>4. ASSUME NEW c \in Calls, Finish(c) PROVE calls'[c] = Idle
  BY <1>4 DEF Finish, TypeOK
<1>5. ASSUME NEW c \in Calls, NEW n \in 1..MaxProducers,
             UserProduced(c, Product(calls[c], n)), calls[c].room = r, calls[c].user = s
      PROVE  Goal
  <2> DEFINE q == Product(calls[c], n)
  <2>1. /\ q.room = r /\ q.by = s /\ q.kind = calls[c].kind
        /\ roomsUsers'[q.room][q.by].turnedOff
              = [j \in SwitchKinds |-> IF j = q.kind THEN calls[c].off
                                       ELSE roomsUsers[q.room][q.by].turnedOff[j]]
    BY <1>5, ProducedEntry
  <2> HIDE DEF q
  <2>2. i = q.kind /\ \A j \in SwitchKinds \ {i} : new.turnedOff[j] = old.turnedOff[j]
    BY <2>1
  <2>3. Settling(c, r, s, i)
    BY <1>4, <1>5, <2>1, <2>2 DEF Settling, UserProduced
  <2> QED BY <2>2, <2>3
<1>6. ASSUME NEW c \in Calls, Toggled(c), calls[c].room = r, calls[c].user = s
      PROVE  Goal
  <2>1. /\ calls[c] \in ToggleCall
        /\ new.turnedOff = [calls[c].flags EXCEPT ![calls[c].kind] = calls[c].off]
    BY <1>6, ToggledEntry
  <2>2. calls[c].flags = old.turnedOff
    <3>1. Fresh(calls[c]) /\ calls[c].op = "toggle"
      BY <1>6, FreshIsSnapshots DEF Toggled
    <3> QED BY <1>6, <3>1 DEF Fresh
  <2>3. i = calls[c].kind /\ \A j \in SwitchKinds \ {i} : new.turnedOff[j] = old.turnedOff[j]
    BY <1>1, <2>1, <2>2
  <2>4. Settling(c, r, s, i)
    BY <1>4, <1>6, <2>3 DEF Settling, Toggled
  <2> QED BY <2>3, <2>4
<1>7. ASSUME NEW k \in SwitchKinds, NEW off \in BOOLEAN,
             UpdateRoomSocketUser(r, s, SwitchTo(old, old.turnedOff, k, off)),
             old.producer[k] \notin open \/ old.producer[k] \in closed'
      PROVE  Goal
  <2> DEFINE user == SwitchTo(old, old.turnedOff, k, off)
  <2>1. user.turnedOff = [old.turnedOff EXCEPT ![k] = off]
    BY <1>1 DEF SwitchTo, User
  <2> HIDE DEF user
  <2>2. new = user
    BY <1>7, UpdateEffect DEF user
  <2> QED BY <1>1, <1>7, <2>1, <2>2
<1>8. ASSUME NEW k \in SwitchKinds, NEW u \in Sockets, ProducerClosed(u, r, s, k)
      PROVE  Goal
  <2>1. /\ UpdateRoomSocketUser(r, s, SwitchTo(old, old.turnedOff, k, FALSE))
        /\ old.producer[k] \notin open \/ old.producer[k] \in closed'
    BY <1>8 DEF ProducerClosed
  <2> HIDE DEF Goal, old
  <2> QED BY <1>7, <2>1
<1>9. ASSUME NEW k \in SwitchKinds, NEW u \in Sockets, NEW off \in BOOLEAN,
             ToggleNothing(u, r, s, k, off)
      PROVE  Goal
  <2>1. old.producer[k] \notin open
    BY <1>9, CallAssumption DEF ToggleNothing, TypeOK, open
  <2>2. UpdateRoomSocketUser(r, s, SwitchTo(old, old.turnedOff, k, off))
    BY <1>9 DEF ToggleNothing
  <2> HIDE DEF Goal, old
  <2> QED BY <1>7, <2>1, <2>2
<1>10. Goal
  <2> HIDE DEF Goal
  <2> QED BY <1>2, <1>3, <1>5, <1>6, <1>8, <1>9, EntryChange
<1> QED BY <1>10

\* A switch changes only for its own reason.
THEOREM SwitchesChangeAlone == Spec => SwitchesAreIndependent
<1>1. Init => TypeOK /\ TracksAreOwn /\ SnapshotsAreFresh
  <2>1. Init => SnapshotsAreFresh
    BY DEF Init, SnapshotsAreFresh, Idle
  <2> QED BY <2>1, InitTypes, TracksInit
<1> QED
  BY <1>1, NextTypes, TracksNext, FreshNext, SwitchStep, PTL DEF Spec, SwitchesAreIndependent

-----------------------------------------------------------------------------
(* Why a consumerReady ends *)

\* ReadyIsAboutOne, of one handler.
About(call) ==
  call.op = "consumerReady" =>
    /\ call.producer \in created /\ call.producer.room = call.room
    /\ \A k \in SwitchKinds :
         call.tracks[k] # NoProducer =>
           /\ call.tracks[k] \in created
           /\ call.tracks[k].room = call.room /\ call.tracks[k].by = call.producer.by

LEMMA AboutIsReady == ReadyIsAboutOne <=> \A c \in Calls : About(calls[c])
BY DEF ReadyIsAboutOne, About

\* The handler goes on with what it knew.
LEMMA ProceedsWithTheSame ==
  ASSUME TypeOK, NEW call \in ReadyCall, NEW stages \in SUBSET {"video", "audio", "consumer"},
         NEW new, new = Proceed(call, stages), new # Idle
  PROVE  /\ new.op = call.op /\ new.room = call.room
         /\ new.tracks = call.tracks /\ new.producer = call.producer
<1>1. PICK a \in stages : new = [call EXCEPT !.stage = a]
  BY ProceedType
<1> QED BY <1>1 DEF ReadyCall

LEMMA AboutStarts ==
  ASSUME TypeOK, TracksAreOwn, NEW c \in Calls,
         NEW s \in Sockets, NEW r \in Rooms, NEW t \in Sockets,
         NEW p \in created, ConsumerReady(c, s, r, t, p)
  PROVE  About(calls[c])'
<1> DEFINE from == Producers(r, p)
           user == IF from = {} THEN NoSocket ELSE CHOOSE u \in from : TRUE
           tracks == IF from = {} THEN NoTracks ELSE roomsUsers[r][user].producer
           flags == IF from = {} THEN EmptyUser.turnedOff ELSE roomsUsers[r][user].turnedOff
           call == [op |-> "consumerReady", room |-> r, user |-> user, stage |-> "video",
                    tracks |-> tracks, flags |-> flags, producer |-> p, consumer |-> t]
           new == Proceed(call, {"video", "audio", "consumer"})
<1>1. calls'[c] = new /\ new # Idle /\ p.room = r /\ created' = created
  BY DEF ConsumerReady, Start, TypeOK, media
<1>2. from # {} => user \in Sockets /\ user = p.by
  <2> SUFFICES ASSUME from # {} PROVE user \in Sockets /\ user = p.by
    OBVIOUS
  <2>1. user \in from
    OBVIOUS
  <2>2. PICK k \in SwitchKinds : roomsUsers[r][user].producer[k] = p
    BY <2>1 DEF Producers
  <2>3. user \in Sockets /\ p # NoProducer /\ k \in UserKinds
    BY <2>1, CallAssumption DEF Producers, TypeOK, UserKinds
  <2> QED BY <2>2, <2>3 DEF TracksAreOwn
<1>3. tracks \in [UserKinds -> MaybeProducer] /\ flags \in [SwitchKinds -> BOOLEAN]
  <2>1. CASE from = {}
    BY <2>1 DEF NoTracks, EmptyUser, MaybeProducer
  <2>2. CASE from # {}
    BY <1>2, <2>2 DEF TypeOK, User
  <2> QED BY <2>1, <2>2
<1>4. call \in ReadyCall
  <2>1. user \in MaybeSocket /\ p \in Producer
    BY <1>2 DEF MaybeSocket, TypeOK
  <2> HIDE DEF user, tracks, flags
  <2> QED BY <1>3, <2>1 DEF ReadyCall
<1>5. /\ call.op = "consumerReady" /\ call.room = r /\ call.tracks = tracks
      /\ call.producer = p
  OBVIOUS
<1>6. ASSUME NEW k \in SwitchKinds, tracks[k] # NoProducer
      PROVE  tracks[k] \in created /\ tracks[k].room = r /\ tracks[k].by = p.by
  <2>1. CASE from = {}
    BY <1>6, <2>1 DEF NoTracks, SwitchKinds, UserKinds
  <2>2. CASE from # {}
    BY <1>2, <1>6, <2>2 DEF TracksAreOwn, SwitchKinds, UserKinds
  <2> QED BY <2>1, <2>2
<1> HIDE DEF tracks, flags, call, new
<1>7. new.op = call.op /\ new.room = call.room /\ new.tracks = call.tracks
      /\ new.producer = call.producer
  BY <1>1, <1>4, ProceedsWithTheSame DEF new
<1> QED BY <1>1, <1>5, <1>6, <1>7 DEF About

LEMMA AboutNext ==
  TypeOK /\ TracksAreOwn /\ ReadyIsAboutOne /\ [Next]_vars => ReadyIsAboutOne'
<1>1. CASE UNCHANGED vars
  BY <1>1 DEF vars, media, ReadyIsAboutOne
<1> SUFFICES ASSUME TypeOK, TracksAreOwn, ReadyIsAboutOne, Next, NEW c \in Calls
             PROVE  About(calls[c])'
  BY <1>1 DEF ReadyIsAboutOne, About
<1>2. About(calls[c]) /\ created \subseteq created'
  BY AboutIsReady, MediaGrows
<1>3. CASE calls'[c] = calls[c]
  BY <1>2, <1>3 DEF About
<1>4. CASE calls'[c].op \notin {"toggle", "consumerReady"}
  BY <1>4 DEF About
<1>5. CASE TrackResumed(c)
  <2> DEFINE call == calls[c]
             stages == {a \in DOMAIN Rank : Rank[call.stage] < Rank[a]}
             new == Proceed(call, stages)
  <2>1. calls'[c] = new /\ call \in ReadyCall /\ call.op = "consumerReady"
    BY <1>5, CallKinds DEF TrackResumed, TypeOK
  <2>2. stages \in SUBSET {"video", "audio", "consumer"}
    BY DEF Rank
  <2>3. About(call)
    BY <1>2
  <2> HIDE DEF call, stages, new
  <2>4. CASE new = Idle
    BY <2>1, <2>4 DEF About, Idle
  <2>5. CASE new # Idle
    BY <1>2, <2>1, <2>2, <2>3, <2>5, ProceedsWithTheSame DEF About, new
  <2> QED BY <2>4, <2>5
<1>6. ASSUME NEW s \in Sockets, NEW r \in Rooms, NEW t \in Sockets, NEW k \in SwitchKinds,
             NEW off \in BOOLEAN, Toggle(c, s, r, t, k, off)
      PROVE  About(calls[c])'
  BY <1>6 DEF Toggle, Start, TypeOK, About
<1> QED
  BY <1>3, <1>4, <1>5, <1>6, SlotChange, AboutStarts

\* What ends a suspended consumerReady.
LEMMA WhatEndsReady ==
  ASSUME TypeOK, Next, ~Faults, NEW c \in Calls,
         calls[c].op = "consumerReady", calls'[c] = Idle
  PROVE  TrackResumed(c) \/ ConsumerResumed(c)
<1>1. calls'[c] # calls[c]
  BY DEF Idle
<1>2. ASSUME NEW d \in Calls, Answered(d) PROVE d = c
  <2>1. \E call : calls' = [calls EXCEPT ![d] = call]
    BY <1>2 DEF Answered, RouterCreated, RoomFetched, TransportCreated, Produced, ScreenProduced,
       UserProduced, UntaggedProduced, Consumed, DataConsumed, TrackResumed, ConsumerResumed,
       Toggled, Finish
  <2> QED BY <1>1, <2>1 DEF TypeOK
<1>3. Answered(c) => TrackResumed(c) \/ ConsumerResumed(c)
  BY DEF Answered, RouterCreated, RoomFetched, TransportCreated, Produced, Consumed, DataConsumed,
     Toggled
<1>4. ASSUME NEW d \in Calls, NEW s \in Sockets, NEW r \in Rooms, Requested(d, s, r)
      PROVE  FALSE
  <2>1. \A e \in Calls \ {d} : calls'[e] = calls[e]
    BY <1>4, RequestedChange
  <2>2. calls[d] = Idle
    BY <1>4 DEF Requested, JoinRoom, CreateTransport, Produce, Consume, ConsumeData, ConsumerReady,
       Toggle, Start
  <2>3. c # d
    BY <2>2 DEF Idle
  <2> QED BY <1>1, <2>1, <2>3
<1>5. ASSUME NEW s \in Sockets, NEW r \in Rooms, Done(s, r) PROVE calls' = calls
  BY <1>5 DEF Done, RequestToJoin, RoomContextModification, SetUserReaction,
     AccessibilityPreferenceAcceptance, ScreenSharingStopped, ProducerClosed, ToggleNothing
<1>6. ASSUME NEW s \in Sockets, Disconnect(s) PROVE calls' = calls
  BY <1>6 DEF Disconnect, DisconnectUnlisted, DisconnectMember, DisconnectStranger
<1> QED BY <1>1, <1>2, <1>3, <1>4, <1>5, <1>6 DEF Next, Rejected

LEMMA ReadyStep ==
  ASSUME TypeOK, ReadyIsAboutOne, Next, ~Faults, NEW c \in Calls,
         calls[c].op = "consumerReady", calls'[c] = Idle
  PROVE  ReadyEnds(calls[c])
<1> DEFINE call == calls[c]
<1>1. CASE ConsumerResumed(c)
  BY <1>1 DEF ConsumerResumed, ReadyEnds
<1>2. CASE TrackResumed(c) /\ call.producer \in roomsUsers[call.room][call.consumer].consumers
  <2> DEFINE stages == {a \in DOMAIN Rank : Rank[call.stage] < Rank[a]}
             next == {a \in stages : /\ Pending(call, a)
                                     /\ \A b \in stages : Pending(call, b) => Rank[a] <= Rank[b]
                                     /\ Resumed(call, a) \in open}
  <2>1. call.stage \in SwitchKinds /\ Proceed(call, stages) = Idle /\ call \in ReadyCall
    BY <1>2, CallKinds DEF TrackResumed, TypeOK
  <2>2. next = {}
    <3>1. \A a : [call EXCEPT !.stage = a] # Idle
      <4>1. \A a : [call EXCEPT !.stage = a].op = "consumerReady"
        BY <2>1 DEF ReadyCall
      <4> QED BY <4>1 DEF Idle
    <3> QED BY <2>1, <3>1 DEF Proceed
  <2>3. /\ "consumer" \in stages /\ \A b \in stages : b = "audio" \/ b = "consumer"
        /\ Rank["audio"] <= Rank["consumer"] /\ Rank["consumer"] <= Rank["consumer"]
        /\ Rank["audio"] <= Rank["audio"]
    BY <2>1 DEF Rank, SwitchKinds
  <2>4. Pending(call, "consumer") /\ Resumed(call, "consumer") = call.producer
    BY <1>2 DEF Pending, Resumed
  <2>5. call.producer \in created /\ call.producer.room = call.room
    BY DEF ReadyIsAboutOne
  <2>6. \A a \in stages :
          Pending(call, a) /\ (\A b \in stages : Pending(call, b) => Rank[a] <= Rank[b])
            => Resumed(call, a) \notin open
    BY <2>2
  <2> HIDE DEF stages, next
  <2>7. CASE "audio" \in stages /\ Pending(call, "audio")
    <3>1. call.tracks["audio"] \notin open
      <4>1. \A b \in stages : Rank["audio"] <= Rank[b]
        BY <2>3, Zenon
      <4>2. Resumed(call, "audio") \notin open
        BY <2>6, <2>7, <4>1, Zenon
      <4> QED BY <4>2 DEF Resumed
    <3>2. call.tracks["audio"] # NoProducer /\ "audio" \in SwitchKinds
      BY <2>7, CallAssumption DEF Pending, TypeOK, SwitchKinds
    <3>3. /\ call.tracks["audio"] \in closed
          /\ call.tracks["audio"].room = call.room
          /\ call.tracks["audio"].by = call.producer.by
      BY <3>1, <3>2 DEF ReadyIsAboutOne, open
    <3> QED BY <2>5, <3>3 DEF ReadyEnds
  <2>8. CASE ~("audio" \in stages /\ Pending(call, "audio"))
    <3>1. \A b \in stages : Pending(call, b) => Rank["consumer"] <= Rank[b]
      BY <2>3, <2>8, Zenon
    <3>2. call.producer \notin open
      BY <2>3, <2>4, <2>6, <3>1, Zenon
    <3> QED BY <2>5, <3>2 DEF ReadyEnds, open
  <2> QED BY <2>7, <2>8
<1> QED BY <1>1, <1>2, WhatEndsReady DEF ReadyEnds

\* A consumerReady gives up only if its consumer is forgotten or its producing user
\* closed something, for any number of sockets, producers and handlers under way.
THEOREM ReadyEndsWell == Spec => ReadyEndsForAReason
<1>1. Init => ReadyIsAboutOne
  BY DEF Init, ReadyIsAboutOne, Idle
<1>2. TypeOK /\ ReadyIsAboutOne /\ [Next]_vars => [~Faults => ReadyHandlersEnd]_vars
  BY ReadyStep DEF ReadyHandlersEnd
<1> QED
  BY <1>1, <1>2, InitTypes, NextTypes, TracksInit, TracksNext, AboutNext, PTL
     DEF Spec, ReadyEndsForAReason

=============================================================================
