------------------------------ MODULE CallMedia ------------------------------
(***************************************************************************)
(* Audio, video, data and the shared screen: producing, consuming, turning *)
(* on and off, and the two ways a client ends what it produces.            *)
(***************************************************************************)
EXTENDS CallState

-----------------------------------------------------------------------------
(* produce and produceData: the worker makes the producer, then it is noted. *)

Produce(c, s, r, k, off) ==
  /\ Asks(s, CASE k = "screen" -> "screenShare"
               [] k = "untagged" -> "produceUntagged"
               [] k = "data" -> "produceData"
               [] OTHER -> "produce")
  /\ roomsUsers[r][s].producerTransport # 0
  /\ Start(c, [op |-> "produce", room |-> r, user |-> s, kind |-> k, off |-> off,
               router |-> roomsUsers[r][s].producerTransport])
  /\ UNCHANGED <<sockets, roomRouters, registry, roomContexts, media, asked, raced>>

SameSource(p, q) == q.by = p.by /\ q.room = p.room /\ q.kind = p.kind

\* The next producer of its source, paused unless it carries data.
Create(p) ==
  /\ \A q \in created : SameSource(p, q) => q.nr < p.nr
  /\ \A n \in 1..(p.nr - 1) : \E q \in created : SameSource(p, q) /\ q.nr = n
  /\ created' = created \cup {p}
  /\ paused' = IF p.kind = "data" THEN paused ELSE paused \cup {p}

Product(call, n) ==
  [by |-> call.user, room |-> call.room, kind |-> call.kind, router |-> call.router, nr |-> n]

\* Mistake: the clean-up of the previous share is gone.
ScreenProducedBeside(c, p) ==
  /\ calls[c].op = "produce" /\ calls[c].kind = "screen"
  /\ Create(p)
  /\ roomContexts' = [roomContexts EXCEPT ![p.room] = ShareBegun(@, p)]
  /\ Finish(c)
  /\ UNCHANGED <<sockets, roomRouters, registry, closed, playing, asked, raced>>

\* A new share ends the one the room has when the producer is there.
ScreenProduced(c, p) ==
  /\ calls[c].op = "produce" /\ calls[c].kind = "screen"
  /\ Create(p)
  /\ closed' = closed \cup ({roomContexts[p.room].screen} \cap open)
  /\ roomContexts' = [roomContexts EXCEPT ![p.room] = ShareBegun(@, p)]
  /\ Finish(c)
  /\ UNCHANGED <<sockets, roomRouters, registry, playing, asked, raced>>

\* The entry takes the new producer; the one it had is not closed.
UserProduced(c, p) ==
  LET old == roomsUsers[p.room][p.by] IN
  /\ calls[c].op = "produce" /\ calls[c].kind \in UserKinds
  /\ Create(p)
  /\ UpdateRoomSocketUser(p.room, p.by,
       [old EXCEPT !.producer[p.kind] = p,
                   !.turnedOff = [k \in SwitchKinds |->
                                    IF k = p.kind THEN calls[c].off ELSE @[k]]])
  /\ Finish(c)
  /\ IF p.kind = "data" THEN UNCHANGED raced ELSE Overtake(p.room, p.by, {c})
  /\ UNCHANGED <<sockets, roomRouters, roomContexts, closed, playing, asked>>

\* With another mediaKind, or none, produce notes the new producer nowhere.
UntaggedProduced(c, p) ==
  /\ calls[c].op = "produce" /\ calls[c].kind = "untagged"
  /\ Create(p)
  /\ Finish(c)
  /\ UNCHANGED <<sockets, roomRouters, registry, roomContexts, closed, playing, asked, raced>>

Produced(c) ==
  /\ calls[c].op = "produce"
  /\ \E n \in 1..MaxProducers :
       \/ ScreenProduced(c, Product(calls[c], n))
       \/ UserProduced(c, Product(calls[c], n))
       \/ UntaggedProduced(c, Product(calls[c], n))

-----------------------------------------------------------------------------
(* consome and consomeData.  A producer can be consumed over a transport of  *)
(* its own router only, and media only if that is the room's router.         *)

\* Bound: a client consumes a producer once, unless a join made it forget.
Consume(c, s, r, p) ==
  /\ Asks(s, "consume")
  /\ p.kind # "data" /\ p \in open /\ p.router = roomRouters[r] /\ p.room = r
  /\ roomsUsers[r][s].consumerTransport = p.router
  /\ p \notin roomsUsers[r][s].consumers /\ <<s, p>> \notin playing
  /\ Start(c, [op |-> "consume", room |-> r, user |-> s, producer |-> p])
  /\ UNCHANGED <<sockets, roomRouters, registry, roomContexts, media, asked, raced>>

\* Without an entry the look-up of its consumers throws.
Consumed(c) ==
  LET call == calls[c]
      old == roomsUsers[call.room][call.user] IN
  /\ call.op = "consume"
  /\ IF call.user \in listed[call.room]
     THEN UpdateRoomSocketUser(call.room, call.user,
            [old EXCEPT !.consumers = @ \cup {call.producer}])
     ELSE UNCHANGED registry
  /\ Finish(c)
  /\ UNCHANGED <<sockets, roomRouters, roomContexts, media, asked, raced>>

ConsumeData(c, s, r, p) ==
  /\ Asks(s, "consumeData")
  /\ p.kind = "data" /\ p \in open /\ p.room = r
  /\ roomsUsers[r][s].consumerTransport = p.router
  /\ Start(c, [op |-> "consumeData", room |-> r, user |-> s, producer |-> p])
  /\ UNCHANGED <<sockets, roomRouters, registry, roomContexts, media, asked, raced>>

\* The data consumer's fields decide nothing here.
DataConsumed(c) ==
  LET call == calls[c] IN
  /\ call.op = "consumeData"
  /\ UpdateRoomSocketUser(call.room, call.user, roomsUsers[call.room][call.user])
  /\ Finish(c)
  /\ UNCHANGED <<sockets, roomRouters, roomContexts, media, asked, raced>>

-----------------------------------------------------------------------------
(* consumerReady: resume what the producing user has not turned off, video   *)
(* before audio, then the consumer.  The user's entry is read once.          *)

Rank == [video |-> 1, audio |-> 2, consumer |-> 3]

\* What a stage resumes, and whether there is anything to resume.
Resumed(call, stage) == IF stage = "consumer" THEN call.producer ELSE call.tracks[stage]

\* Mistake: the switches are not looked at.
PendingAnyway(call, stage) ==
  IF stage = "consumer"
  THEN call.producer \in roomsUsers[call.room][call.consumer].consumers
  ELSE call.tracks[stage] \in paused

Pending(call, stage) ==
  IF stage = "consumer"
  THEN call.producer \in roomsUsers[call.room][call.consumer].consumers
  ELSE ~call.flags[stage] /\ call.tracks[stage] \in paused

\* The handler up to its next await, of one of `stages`.  To resume what is closed
\* throws, and that ends the handler.
Proceed(call, stages) ==
  LET next == {a \in stages : /\ Pending(call, a)
                              /\ \A b \in stages : Pending(call, b) => Rank[a] <= Rank[b]
                              /\ Resumed(call, a) \in open}
  IN IF next = {} THEN Idle ELSE [call EXCEPT !.stage = CHOOSE a \in next : TRUE]

\* A user of the room that has p as its audio or video, NoSocket when none has.
Producers(r, p) == {u \in listed[r] : \E k \in SwitchKinds : roomsUsers[r][u].producer[k] = p}

NoTracks == [k \in UserKinds |-> NoProducer]

ConsumerReady(c, s, r, t, p) ==
  LET from == Producers(r, p)
      user == IF from = {} THEN NoSocket ELSE CHOOSE u \in from : TRUE
      call == [op |-> "consumerReady", room |-> r, user |-> user, stage |-> "video",
               tracks |-> IF from = {} THEN NoTracks ELSE roomsUsers[r][user].producer,
               flags |-> IF from = {} THEN EmptyUser.turnedOff ELSE roomsUsers[r][user].turnedOff,
               producer |-> p, consumer |-> t]
      first == Proceed(call, {"video", "audio", "consumer"})
  IN /\ Asks(s, "consumerReady")
     /\ r \in openRooms /\ p.room = r
     /\ first # Idle
     /\ Start(c, first)
     /\ UNCHANGED <<sockets, roomRouters, registry, roomContexts, media, asked, raced>>

\* Mistake: resuming a track is all that the handler does.
TrackResumedAndDone(c) ==
  LET call == calls[c] IN
  /\ call.op = "consumerReady" /\ call.stage \in SwitchKinds
  /\ paused' = paused \ {call.tracks[call.stage]}
  /\ Finish(c)
  /\ UNCHANGED <<sockets, roomRouters, registry, roomContexts, created, closed,
                 playing, asked, raced>>

TrackResumed(c) ==
  LET call == calls[c] IN
  /\ call.op = "consumerReady" /\ call.stage \in SwitchKinds
  /\ paused' = paused \ {call.tracks[call.stage]}
  /\ calls' = [calls EXCEPT ![c] =
                 Proceed(call, {a \in DOMAIN Rank : Rank[call.stage] < Rank[a]})]
  /\ UNCHANGED <<sockets, roomRouters, registry, roomContexts, created, closed,
                 playing, asked, raced>>

ConsumerResumed(c) ==
  LET call == calls[c] IN
  /\ call.op = "consumerReady" /\ call.stage = "consumer"
  /\ playing' = playing \cup {<<call.consumer, call.producer>>}
  /\ Finish(c)
  /\ UNCHANGED <<sockets, roomRouters, registry, roomContexts, created, closed,
                 paused, asked, raced>>

-----------------------------------------------------------------------------
(* toggleProducerState: pause or resume, then write both switches, the other *)
(* one as it was before the await.                                           *)

\* Mistake: both switches are written.
SwitchBoth(user, flags, k, off) == [user EXCEPT !.turnedOff = [j \in SwitchKinds |-> off]]

SwitchTo(user, flags, k, off) == [user EXCEPT !.turnedOff = [flags EXCEPT ![k] = off]]

\* To pause or resume what is closed throws, and nothing changes.
Toggle(c, s, r, t, k, off) ==
  LET user == roomsUsers[r][t] IN
  /\ Asks(s, "toggle")
  /\ r \in openRooms
  /\ user.producer[k] \in open
  /\ Start(c, [op |-> "toggle", room |-> r, user |-> t, kind |-> k, off |-> off,
               producer |-> user.producer[k], flags |-> user.turnedOff])
  /\ UNCHANGED <<sockets, roomRouters, registry, roomContexts, media, asked, raced>>

Toggled(c) ==
  LET call == calls[c]
      old == roomsUsers[call.room][call.user] IN
  /\ call.op = "toggle"
  /\ paused' = IF call.off THEN paused \cup {call.producer} ELSE paused \ {call.producer}
  /\ UpdateRoomSocketUser(call.room, call.user,
                          SwitchTo(old, call.flags, call.kind, call.off))
  /\ Finish(c)
  /\ Overtake(call.room, call.user, {c})
  /\ UNCHANGED <<sockets, roomRouters, roomContexts, created, closed, playing, asked>>

\* Nothing to await when there is no producer.
ToggleNothing(s, r, t, k, off) ==
  LET user == roomsUsers[r][t] IN
  /\ Asks(s, "toggle")
  /\ r \in openRooms
  /\ user.producer[k] = NoProducer
  /\ UpdateRoomSocketUser(r, t, SwitchTo(user, user.turnedOff, k, off))
  /\ Overtake(r, t, {})
  /\ UNCHANGED <<sockets, roomRouters, roomContexts, media, asked, calls>>

-----------------------------------------------------------------------------
(* The client says that it stopped.                                          *)

\* producerClosed: close what the user has of kind k and clear the switch.
ProducerClosed(s, r, t, k) ==
  LET user == roomsUsers[r][t] IN
  /\ Asks(s, "closeProducer")
  /\ closed' = closed \cup ({user.producer[k]} \cap open)
  /\ UpdateRoomSocketUser(r, t, SwitchTo(user, user.turnedOff, k, FALSE))
  /\ Overtake(r, t, {})
  /\ UNCHANGED <<sockets, roomRouters, roomContexts, created, paused, playing,
                 asked, calls>>

\* Mistake: the closed producer stays in the context.
ScreenSharingStoppedKept(s, r, t) ==
  /\ Asks(s, "stopSharing")
  /\ roomContexts[r].sharer = t
  /\ closed' = closed \cup ({roomContexts[r].screen} \cap open)
  /\ roomContexts' = [roomContexts EXCEPT ![r] = [ShareEnded(@) EXCEPT !.screen = roomContexts[r].screen]]
  /\ UNCHANGED <<sockets, roomRouters, registry, created, paused, playing, asked,
                 calls, raced>>

\* screenSharingStopped: only for the user that the room's context names.
ScreenSharingStopped(s, r, t) ==
  /\ Asks(s, "stopSharing")
  /\ roomContexts[r].sharer = t
  /\ closed' = closed \cup ({roomContexts[r].screen} \cap open)
  /\ roomContexts' = [roomContexts EXCEPT ![r] = ShareEnded(@)]
  /\ UNCHANGED <<sockets, roomRouters, registry, created, paused, playing, asked,
                 calls, raced>>

=============================================================================
