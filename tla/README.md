# A verification project for the DBC API

The DBC API (`src/`) is a NestJS server for video conferences with accessibility
services: a Socket.IO gateway that drives a mediasoup worker, and a handful of HTTP
services over a PostgreSQL database. This directory holds TLA+ models of it, the TLC
configurations that check them and proofs that TLAPS checks.

Contents: [inventory](#the-system) · [modules](#the-modules) · [runs](#the-runs) ·
[proofs](#the-proofs) · [what the models showed](#what-the-models-showed) ·
[not modelled](#what-is-not-modelled) · [plan](#plan)

## The system

| Component | State it keeps | Operations | Talks to |
|---|---|---|---|
| **Call gateway** (`call/call.gateway.ts`) | `roomRouters`, `roomsUsers` (room → socket → entry: transports, producers, consumers, switches), `roomContexts` (who shares, who presents), all in the process | some thirty Socket.IO messages, and the disconnect | the mediasoup worker (asynchronous), Socket.IO rooms, the room service |
| **Room service** (`call/room.service.ts`) | rows `Room`, their invitees (a join table) | createRoom, addParticipantsToRoom, look-ups | the database through the pool; the gateway's `joinRoom` asks it for a room's owner |
| **Accounts** (`auth/`) | rows `Auth`, `Profile` | createAccount, login, verifyAccount, resendOtp, requestResetPassword, resetPassword | the database through the pool, bcrypt, mail |
| **Aid services** (`aid-service/`) | rows `AidService`, who offers them (a join table of `Auth`), a room's providers (a JSON column of `Room`) | createAidService, updateAidService, updateUserAidService, requestAidService | the database through the pool, mail |
| **Users** (`user/`) | `Auth` and `Profile` again | updateUser | the database through the pool |
| **Talkable gateway** (`talkable/`) | `activeChats`, `activeUsers`, in the process | joining, inviting, answering, messages | Socket.IO rooms |
| **Connection pool** (TypeORM over pg-pool) | free connections, a queue without time limit | connect, release | everything that touches the database |
| Guards, file upload, mail, bootstrap | none | – | – |

**What is hard.** Node runs one handler at a time, but a handler gives up the processor at
every `await` of the worker or the database, and what it read before is stale when it goes
on. The gateway has neither locks nor a check after the await. Requests of different
clients, and of one client, interleave at those points; answers come in any order; the
client may disconnect while its handler waits; a rejected await ends a handler half way.
The services keep nothing in memory, but they hold pooled connections across awaits, some of
them two at once, and some never give theirs back. What they keep in the database they look
for before they insert it, without lock or unique index, and change by reading a whole
entity, awaiting other things, and saving it whole: under read committed, requests undo one
another.

**What makes each part correct.**

- *Call gateway*: who is in a room is who its entries list; clients of one room are on one
  router; muted is silent; nothing that is produced escapes the client's switches and its
  disconnect; one shared screen per room, and the context tells the truth about it; a
  request to join reaches an admin who is there; joins and consumers get done.
- *Connection pool*: every call ends; no call works in another's transaction.
- *Accounts*: one account per email and phone number; a one-time password resets one
  password once; what a client was told is done stays done.
- *Rooms, aid services*: ids and names are unique; invitations and requests for help that
  were acknowledged stay.
- *Talkable*: whoever is active can be reached where they are.

`PROJECT.json` lists the hazards at their lines, with the properties that watch them.

## The modules

```
CallState      state, types, Init, what handlers share
  CallRooms    joining, leaving, transports, entries, contexts
  CallMedia    producing, consuming, switches, the shared screen
    CallGateway     their composition: Next, Spec, FairSpec, the properties
      MCCallGateway     instances for TLC
      CallTypeProofs    TypeOK is invariant
        CallSafetyProofs    the shared screen, and ScreenSlot
          CallRoomProofs      rooms and routers, media and switches, departures
ScreenSlot     abstract: one share at a time (instantiated by CallGateway)
AtomicRows     abstract: one change at a time (instantiated by Accounts and RoomRecords)
RowEdits       how the services change rows that exist
  Accounts         the table Auth: sign-up, codes, resets, edits of users
    MCAccounts         an instance for TLC
  RoomRecords      the tables Room and AidService
    MCRoomRecords      an instance for TLC
  RowEditProofs    what each way to change a row preserves
    AccountProofs      (with Accounts)
    RoomRecordProofs   (with RoomRecords)
ConnectionPool the services' connections and transactions
  ConnectionPoolProofs
TalkableGateway     chats, active users, invitations
  MCTalkable        an instance for TLC
  TalkableProofs
ChatDirectory  abstract: an answer goes where one asked last (instantiated by TalkableGateway)
```

### The call gateway

*State.* `roomRouters`, `roomsUsers` and `roomContexts` are the gateway's maps. As a key
that exists with nothing in it matters (`roomsUsers[room]` undefined throws), `listed` and
`openRooms` hold the keys. `members` is the Socket.IO rooms; `created`, `closed`, `paused`
and `playing` are what the worker knows of producers and consumers; `connected` the sockets
that are up. A producer is a record of what never changes about it. `calls[c]` is a
suspended handler: what it awaits, and the local variables that it uses afterwards. `asked`
is where the last request to join was sent. History, read by properties only: `raced`, which
handlers were overtaken by a write to what they had read, and a context's `said`, that since
the last begin or end of a share a message changed what the context says of it.

*Steps.* One action is one uninterrupted segment of a handler: from the message to the
first await, or from the worker's or the database's answer to the next await or the end.
An `await` of a method that does no I/O lets nobody in between and ends no segment.

| Handler (`call.gateway.ts`) | Actions |
|---|---|
| joinRoom 134 | `JoinRoom`, `RouterCreated`, `RoomFetched` |
| createTransport 184 | `CreateTransport`, `TransportCreated` |
| produce, produceData 250 | `Produce`; `Produced`, one of `ScreenProduced`, `UserProduced` and, when the message says neither audio nor video nor screen, `UntaggedProduced` |
| consome, consomeData 358 | `Consume`, `Consumed`; `ConsumeData`, `DataConsumed` |
| consumerReady 440 | `ConsumerReady`, `TrackResumed` (video, audio), `ConsumerResumed` |
| toggleProducerState 796 | `Toggle`, `Toggled`; `ToggleNothing` when there is no producer |
| producerClosed 863 | `ProducerClosed` |
| screenSharingStopped 837 | `ScreenSharingStopped`, and within the disconnect |
| setUserReaction 622, accessibiltyPreferenceAcceptance 714 | same names |
| roomContextModification 642 | `RoomContextModification`, which merges whatever a message says of sharer, sharing and presenter |
| requestTojOIN 540 | `RequestToJoin` |
| handleDisconnect 130 and 914 | `DisconnectMember`, `DisconnectStranger`, `DisconnectUnlisted` |

Where a message carries a socket id (`socketId`, `toUserId`) the model lets it be any
socket, as the handler does. `Rejected(c)` ends a suspended handler with nothing more done: its
own catch, or NestJS's handler of what it throws, lets it do nothing else (external in the
map; the repository's filter is for `WsException` only). The constant `Faults` enables it.

*Abstractions.* A transport is the number of its router, as the gateway never closes one.
Of an entry only what a property tells apart is kept; names, avatars, raised hands and
preferences are not, but that such a message *makes* an entry is. The disconnect may clean
any room that lists the socket; the code takes the first key of an object. The worker's
death ends the process, and a new process starts from `Init`.

*Bounds.* `Calls` slots (handlers suspended at once), `MaxRouters` per room,
`MaxProducers` per socket, room and kind, and the kinds of message that each client
sends in a run (`Requests`). A socket id is never used again, so a client that comes back is
another socket.

`ScreenSlot` is what sharing promises, without sockets or handlers: a room sees at most one
share, a new one ends the old, what ended does not come back.

### What the services write

A request runs until it needs the database, bcrypt or the mail server, and other requests run
meanwhile; a step goes from one such await to the next. `RowEdits` has the two ways in which
the code changes a row that exists:

- `update(where, columns)` is one statement, and one step (`UpdateRows`);
- `findOne`, a change of the object and `save` are three. `ReadRow` is the first two: it
  fixes what is going to be saved (`mine`). `CompareColumns` is the query with which TypeORM's
  `save` reads the row *again*: it finds the columns that differ from the object by then,
  those that others have changed included. `SaveRow` writes those and commits.

The transactions are at PostgreSQL's default level, so that a query sees what is committed
when it starts and others see the writes at the commit, where the model makes them. A many-to-many
relation (a user's aid services, a room's invitees) is one column for each possible member;
a member that another request has added meanwhile violates the primary key of the join table
(`Conflict`) and ends the transaction. A JSON column (a room's providers) is a single value.

| Method | Actions |
|---|---|
| createAccount (`auth.service.ts`) | `CreateAccount`, `GenerateUniqueID`, `InsertAuth` or `UserIdTaken`, `AccountCreated`; `SignUpFailed` |
| verifyAccount | `VerifyAccount`, `AccountVerified` |
| resendOtp, requestResetPassword | `ResendOtp`, `RequestResetPassword`, `CodeIssued` |
| resetPassword | `ResetPassword`, `PasswordReset` |
| updateUser (`user.service.ts`) | `UpdateUser`, `AuthCompared`, `ProfileCompared`, `EditCommitted`; `EditFailed` |
| updateUserAidService (`aid-service.service.ts`) | `UpdateUserAidService`, `AuthCompared`, `EditCommitted` or `EditRefused`; `EditFailed` |
| createRoom (`room.service.ts`) | `CreateRoom`, `RoomCreated`; `InsertFailed` |
| addParticipantsToRoom | `AddParticipantsToRoom`, `RoomCompared` (the row, then the invitees), `EditCommitted` or `EditRefused`; `EditFailed`, `FailureHidden` |
| requestAidService | `RequestAidService`, `RoomCompared`, `EditCommitted`; `EditFailed`, `FailureHidden` |
| createAidService, updateAidService | `CreateAidService` or `UpdateAidService`, `AidServiceSaved`; `InsertFailed` |

*State.* `table` is the rows, `edits` and `calls` the requests being served with the local
variables that they use after an await. `identity` is what of an account never changes.
`due`, `spent`, `before`, `seenRooms`, `seenAids` and `edited` are history variables, read by
properties only: `due` holds what was acknowledged of a row, and is `Unknown` from the moment
that a change lands on a row which another edit has read and not yet saved, or that a request
is answered as done although its transaction was rolled back (`FailureHidden`: requestAidService
looks at none of its saves, and addParticipantsToRoom has its answer before COMMIT).

*What an edit saves* is the whole object that it read: an invitation compares and writes a
room's providers too, and a request for help the row without the invitees, which it has not
read.

*Abstractions.* A request that is refused changes nothing and is left out. The ten minutes
of a one-time code are left to chance: a code may or may not be in time, and all that comes
of it is a refusal. A sign-up gives a phone number, and a reset request a code. Two spellings
of an email stand for all of them (`Lower` is `toLowerCase`), and two of a service's name
(`Trim`). A room's providers are a set of users, as the order of the list is not used. Names,
times and descriptions of rooms and services are left out; of a user they are one value,
`profile`. `generateUniqueID` yields any id that nobody has when it asks.

*Bounds.* `Slots` requests at once, `Keys` and `AidKeys` rows in all. `Edited` are the rows
that clients edit; `Old` the accounts that may be there to begin with, verified or not.

### The connection pool

A service method is the sequence of what it asks of connections: *begin*, *read*, *pool* (a
repository query inside the transaction, which needs a second connection), *write*,
*commit*, *release*. The table of methods is the source; the actions are TypeORM and
pg-pool as the code uses them (external in the map). A method that can take several courses
(`generateUniqueID` asks again while an id is taken) is the set of them. All transactions
write one row, the worst case: a writer waits until whoever wrote before has ended, and the
pool knows nothing of that wait. Any query of a transaction may fail, at which it is rolled
back. START TRANSACTION may fail, too (`BeginFailed`): createAccount, createRoom and
addParticipantsToRoom ask for it outside the try block that would release the connection. That
the pool cannot connect at all is left out: such a call ends with nothing in hand.
Bounds: three connections and three calls (the real pool has ten), two ids tried, and
`MaxKept` calls that keep their connection, because their method never releases or because
their transaction could not begin.

### The chat gateway

`TalkableGateway` has one action per message (`JoinRoom`, `JoinRoomAsAdmin`,
`JoinInviteAcceptance`, `JoinInviteRejection`, `HandleDisconnect`): its handlers await only
methods that do no I/O. `activeUsers` is the code's list, in its order, as the first match
of `findIndex` counts; an entry is what a look-up goes by (id, name, socket). `activeChats`
is a set of chats: the users of a chat are only ever added to, and nobody reads but the
first. `invites` is what admins' clients have got and may answer, now, later or twice;
`told` is where the last answer about a user was addressed to. `at`, a history variable, is
where a user joined last. A chat message changes nothing and is not an action.

`ChatDirectory` is what this is for: who asks from somewhere is answered there.

## The runs

Every run is exhaustive within its bounds. Deadlock is checked in the runs of the services'
rows; it is not in the others, where everybody may have gone, the producers of an
instance may all exist, and the pool may really dry up. What is interchangeable (slots, rooms, clients
other than the owner, ids, codes) is symmetric; runs with liveness use no symmetry.

| Run | Instance | Checks | Distinct states |
|---|---|---|---|
| `rooms` | 2 clients, 1 room, 2 slots, data, faults | `TypeOK`, `MembersAreListed`, `RoomNotSplit`, `RoutersAreFew` | 791 k |
| `screen` | 2 clients, 1 room, 2 slots, 2 shares each | `NoOrphanScreenShare`, `ContextTellsTheTruth`, `OneShareAtATime`, `DepartureIsComplete` | 450 k |
| `mute` | 1 client, 2 slots, up to 3 producers, 2 of a kind | `MutedStaysSilent`, `SwitchesAreIndependent`, `NoLostMedia` | 510 k |
| `play` | producer and consumer, 2 slots, fair | `ReadyMeansPlaying`, `ReadyEndsForAReason` | 109 k |
| `join` | 2 clients, 2 rooms, 2 slots, fair | `JoinEnds`, `MembersAreListed` | 119 k |
| `admin` | 2 clients | `AdminIsConnected`: **violated** | – |
| `accounts` | 2 accounts, 1 of them edited, 2 requests at once, 2 codes | `TypeOK`, `AcknowledgedChangesLast`, `TwinsOverlap`, `CodesResetOnce`, `OneChangeAtATime` | 688 k |
| `records` | 2 rooms, 1 of them edited, 2 aid services, 2 people, 2 requests at once | `TypeOK`, `AcknowledgedChangesLast`, `TwinsOverlap`, `OneChangeAtATime` | 893 k |
| `edits` | 2 aid services | `EditsAreDone`: **violated** | – |
| `requests` | 1 room, 1 person | `RequestsAreDone`: **violated** | – |
| `talk` | 1 user with 2 clients, 2 guests of one name on 1, 1 admin | `TypeOK`, `OneEntryEach`, `AnswersFindTheirUser`, `AdminsAreHeard` | 35 k |
| `pool` | 3 calls, 3 connections, 1 kept, fair | `TypeOK`, `NoForeignTransaction`, `LostAreTheKept`, `SizedNeverJams`, `EndsWhileSized` | 88 k |

What the properties say:

- `MembersAreListed` – a member of the Socket.IO room has a joined entry, and a connected
  socket with a joined entry is a member. Entries made *for* a socket by others do not count
  as joined, whatever order the messages come in. `join` has two rooms, since the disconnect
  cleans only one.
- `RoomNotSplit` – all transports of a room and all that was produced in it are on the room's
  router, unless two joins were making that router at once.
- `RoutersAreFew` – a room never has more routers, made and in the making, than handlers can
  be suspended at once: though routers are never closed, only joins that met when the room
  had none have made any.
- `NoOrphanScreenShare`, `ContextTellsTheTruth`, `OneShareAtATime` – an open screen producer
  is the one the context tracks; the one that it tracks is open, and from each begin or end
  of a share until a client's message says otherwise `isSharing` and the sharer are true of
  it; and the whole is an implementation of `ScreenSlot`, whatever the messages say. Two
  shares that are being set up at once are the case that matters, so the instance has two
  slots and two shares per client.
- `DepartureIsComplete` – a member of one room that disconnects leaves nothing of itself,
  although the disconnect holds a context from before the end of its share.
- `MutedStaysSilent`, `SwitchesAreIndependent` – a switch that is off has a paused producer,
  and one switch does not move the other, unless the handler was overtaken (`raced`). One
  client with two slots is enough: both properties speak of one user's entry, and anybody's
  toggle of it is the same request.
- `NoLostMedia` – open audio or video is what its user's entry tracks, or its user has made a
  later one of that kind in the room. Three producers are enough for one kind to be produced
  again while the other is tracked (`ThreeProducers`, a constraint of `mute`); the theorem is
  for any number of producers and of rooms.
- `ReadyMeansPlaying`, `JoinEnds` – liveness of consumerReady and of joinRoom.
- `ReadyEndsForAReason` – the safety half of the former: a consumerReady that ends without
  resuming its consumer found the consumer forgotten, or something of the producing user
  closed, unless the worker refused.
- `AcknowledgedChangesLast` – what was acknowledged about a row (a new password, a verification, an
  invitation, a request for help) is there until it is changed again, whatever other columns
  of the row are edited later, unless two requests overlapped on the row or what was acknowledged
  had failed unseen (`requests`).
- `OneChangeAtATime` – the tables implement `AtomicRows`: seen from outside, a request
  changes the columns it is about, all at once, and no others, although an edit saves a whole
  object that it read several steps before: an invitation saves the providers with the
  invitees. A row on which edits overlapped, or a failure was hidden, is `Unknown` from then on.
- `CodesResetOnce` – a password changes when a reset shows the code which the account holds
  at that moment, and a code does so once for each time that it is issued, whoever else has
  the same six digits and whoever races; the exception again is an account on which an edit
  was overtaken.
- `TwinsOverlap` – accounts with a common email or phone number, rooms with one id, aid
  services with one name: only if both were made at once, or the second was spelled with
  capitals (an email) or blanks (a name).
- `EditsAreDone` – an aid service that was edited has its new name. It fails.
- `RequestsAreDone` – when a request for help is answered as done, whom it asked is in the
  room's row. It fails.
- `OneEntryEach`, `AnswersFindTheirUser` – a user whose id, name and clients are nobody
  else's has exactly the entry of its last join, and an answer to it, to an invitation from an
  earlier client too, goes there (an implementation of `ChatDirectory`). The two guests
  share a name and a client, so that their entry is taken over again and again beside it.
- `AdminsAreHeard` – an admin who comes to the desk is at once in every chat with somebody in
  it: whoever asked while no admin was there invited nobody.
- `NoForeignTransaction` – a connection with an open transaction belongs to the one call
  that will end it.
- `LostAreTheKept` – whichever queries fail, the connections that are neither in the pool nor
  with a call are those of the methods that keep theirs and of the transactions that could not
  begin, one for each such call.
- `SizedNeverJams` – while the pool is sized as below, some call can go on or be served: not
  everybody waits, for connections or for the row. What "can go on" means, `CanStep` and
  `CanConnect`, was compared with `ENABLED` of the actions in every state of the run.
- `EndsWhileSized` – while the pool has more connections than there are calls that need two
  (createAccount, createRoom, requestAidService) and calls that keep theirs, every call of
  every service ends. This is the rule by which to size the pool.

Two slots suffice for the races of the gateway: every one of them is between a suspended
handler and one other handler. Two rooms are there where a handler can confuse rooms (the
disconnect); elsewhere a handler reads and writes one room only. So too with the services' rows: an edit
reads and writes one row, a sign-up or an insert looks at one other, and each race is between
two requests. The second account is there because a code, an email or a phone number may be
those of two; with `Old` accounts both of them need not sign up in the run.

**Fairness.** `FairSpec` of the gateway: each suspended handler gets its answer (weak
fairness of `Answered(c)`), because the worker and the database answer what they are asked
when nothing fails, and Node runs the continuation. Nothing is assumed of clients. `FairSpec` of
the pool: the database answers (weak), a call that waits for a row gets it in turn (strong:
PostgreSQL queues the waiters), and the pool serves its queue (weak). No client has to call
and no query has to fail.

## The proofs

All of them hold for every value of the constants. `CallAssumption`, `PoolAssumption`,
`TalkableAssumption`, `RowAssumption`, `AccountAssumption` and `RoomAssumption` ask only for
the constants' types, that the null values are none of the others, that `Lower` and `Trim` do
nothing more when applied twice, and, where something is counted, that there are finitely
many of it: slots of the gateway, calls and connections of the pool.

| Theorem | Says | Module |
|---|---|---|
| `TypeCorrect` | `Spec => []TypeOK` | `CallTypeProofs` |
| `ScreenSharesTracked` | `Spec => []NoOrphanScreenShare` | `CallSafetyProofs` |
| `ContextTruthful` | `Spec => []ContextTellsTheTruth` | `CallSafetyProofs` |
| `SharingImplementsSlot` | `Spec => OneShareAtATime` (refinement) | `CallSafetyProofs` |
| `MembersAreTheListed` | `Spec => []MembersAreListed` | `CallRoomProofs` |
| `RoomsHaveOneRouter` | `Spec => []RoomNotSplit` | `CallRoomProofs` |
| `RoomsHaveFewRouters` | `Spec => []RoutersAreFew` | `CallRoomProofs` |
| `MediaIsTracked` | `Spec => []NoLostMedia` | `CallRoomProofs` |
| `MutedAreSilent` | `Spec => []MutedStaysSilent` | `CallRoomProofs` |
| `DeparturesAreComplete` | `Spec => DepartureIsComplete` | `CallRoomProofs` |
| `SwitchesChangeAlone` | `Spec => SwitchesAreIndependent` | `CallRoomProofs` |
| `ReadyEndsWell` | `Spec => ReadyEndsForAReason` | `CallRoomProofs` |
| `AccountTypeCorrect` | `Spec => []TypeOK` | `AccountProofs` |
| `AccountChangesLast` | `Spec => []AcknowledgedChangesLast` | `AccountProofs` |
| `ResetsUseTheirCode` | `Spec => CodesResetOnce` | `AccountProofs` |
| `AccountTwinsOverlap` | `Spec => TwinsOverlap` | `AccountProofs` |
| `AccountsChangeAtomically` | `Spec => OneChangeAtATime` (refinement) | `AccountProofs` |
| `RecordTypeCorrect` | `Spec => []TypeOK` | `RoomRecordProofs` |
| `RoomChangesLast` | `Spec => []AcknowledgedChangesLast` | `RoomRecordProofs` |
| `RecordTwinsOverlap` | `Spec => TwinsOverlap` | `RoomRecordProofs` |
| `RoomsChangeAtomically` | `Spec => OneChangeAtATime` (refinement) | `RoomRecordProofs` |
| `TalkableTypeCorrect` | `Spec => []TypeOK` | `TalkableProofs` |
| `EntriesAreOwn` | `Spec => []OneEntryEach` | `TalkableProofs` |
| `AdminsJoinAll` | `Spec => AdminsAreHeard` | `TalkableProofs` |
| `TalkImplementsDirectory` | `Spec => AnswersFindTheirUser` (refinement) | `TalkableProofs` |
| `PoolTypeCorrect` | `Spec => []TypeOK` | `ConnectionPoolProofs` |
| `TransactionsAreApart` | `Spec => []NoForeignTransaction` | `ConnectionPoolProofs` |
| `OnlyTheKeptAreLost` | `Spec => []LostAreTheKept` | `ConnectionPoolProofs` |
| `LargePoolsNeverJam` | `Spec => []SizedNeverJams` | `ConnectionPoolProofs` |

*The gateway.* The invariant is `TypeOK`, `TracksAreOwn` and the two screen properties
together. `TracksAreOwn` (what an entry or a context names was made by that client, for that
room and kind) is needed because a disconnect and a producerClosed close whatever an entry names:
without it they might close the screen that a context still shows. `EntryChange` carries it
over any change of one entry; `MediaChange` over steps that create or close. `ShareSteps`
then shows that a step of the whole system does one of three things to sharing: nothing
(`SharesKept`), end the share of one room (`ShareEnds`), or begin one (`ShareBegins`). The
screen invariants and the refinement are both proved from those three cases: nothing is a
stutter of `ScreenSlot`, the others its `Stop` and `Begin`.

`MembersAreListed` needs `UnlistedHaveNotJoined` besides: a message about a socket that the
room does not list gives it an entry, which must not be a member's. Only `RoomFetched` and
`Disconnect` touch membership (`JoinKeeps`, `LeaveKeeps`); every other step is shown to
leave `joined` and the members alone (`QuietKeeps`). `RoomNotSplit` needs
`RoutersInTheMaking`: two handlers that make the router of one room, and a transport or a
producer on its way on a router that was replaced, are on record in `raced`. Making a
router, making a transport and starting anything have a lemma each; all else, producing
included, is `NoRouterWork`. `RoutersAreFew` is inductive as it is: the join that begins to
make a router finds none, and as many can begin as there are slots; each that ends takes one
from those in the making and adds at most one to those made (`Makers`).

`ReadyEndsForAReason` needs `ReadyIsAboutOne`: what a suspended consumerReady is to resume,
and what it wants to play, are of one user in one room. With `TracksAreOwn` that follows from
the entry it was read from, and it lasts, as producers are never forgotten.

`MutedStaysSilent` needs to know of the suspended handlers that their snapshots are fresh
(`SnapshotsAreFresh`): what a toggle or a consumerReady read of its user's switches is still
so, or the handler is on record in `raced` and nothing is claimed of its user. That a handler
which writes switches puts every other handler with a reading of them on record is
`OvertakenIsRaced`; that a snapshot stays fresh over a change of one slot or entry,
`SlotChange` and `FreshStays`. With `TracksAreOwn`, an answer pauses and resumes producers of
the right user and kind only (`PausedChange`, `ToggledEntry`). The same two facts
give `SwitchesAreIndependent` (`SwitchStep`). `DepartureIsComplete` rests on `TracksAreOwn` and the
screen invariants: the disconnect closes what the entry tracks and ends the share that the
context names, so by `NoLostMedia` and `NoOrphanScreenShare` nothing else is left open.

*The services' rows.* `AcknowledgedChangesLast` is not inductive, as an edit under way may
be about to write what it read long ago. `RowInv` adds `InStep`: as long as something is
promised of a row, the object of an edit agrees with the row in the columns that the request
does not change, and in those it does change wherever `save` has compared and found no
difference. Each of the seven ways to go on with a row keeps it (`ReadKeeps`,
`CompareKeeps`, `SaveKeeps`, `AbandonKeeps`, `LoseKeeps`, `UpdateKeeps`, `InsertKeeps`), for
both modules at once. `AccountInv` then adds what a sign-up learnt from its check and that
it is still so (`CallInv`; accounts are never deleted and their identity is fixed), that
edits ask for no change of a password or code (`EditInv`), and that no account holds a code
that was used, unless an edit put it back (`CodeInv`). `RecordInv` has the counterparts for
rooms and services, and that providers are a set.

The refinement `OneChangeAtATime` goes by what a statement does to the rows that can still
be relied upon (`Reliable`): an `update` or a `save` changes the columns it is about, or
loses the row, and a hidden failure only loses it (`UpdateLasts`, `SaveLasts`, `LoseLasts`,
all of the form `Lasts`), and whatever has that form is a `Change` of `AtomicRows`
(`ReliableChange`). For a save this is `InStep` again: where the edit was not overtaken, the
columns that it writes besides its own are as they were. An insert is an `Insert`, and every
other step a stutter.

*The pool.* `NoForeignTransaction` is not inductive: `Connect` overwrites what a call holds,
and `Release` frees it. `InOrder` adds that a call begins once, before all else and with
nothing in hand, that its release is its last step, and that it does not hold one connection
twice. That the methods' courses start this way is proved of the table
(`MethodsStartWell`); `OneCallChanges` reduces each step to what one call may do.

The rest is one invariant, `PoolInv`: `InOrder` and `LostAreTheKept`, with
`QueueIsTheWaiters` (the pool's queue is who waits, each of them once) and `EndsInOrder` (a
commit comes last, right after a write; a second connection is held for the query that needs
it only). For `SizedNeverJams` suppose that nothing can go on. Who has the row has only to
commit, so nobody has it, and every call that is under way waits for a connection
(`StuckWaits`); the queue is not empty, so no connection is free. Each of them is lost, or
in the hands of a call that waits for its second: by `LostAreTheKept` and an injection of
connections into such calls, there are not enough of either to hold them all
(`LargeEnough`).

*The chat gateway.* A join either adds an entry that matches none or merges into one that
matches (`ListEffect`, which rests on `findIndex` returning a match if there is one:
`IndexFound`). The own join of a distinct user finds its own entry (`OwnJoinKeeps`), and
nobody else's does or makes one that looks like it (`OthersJoinKeeps`, `OthersPayload`).
`AskersSpeak` is needed besides: users joined over clients of their own, and an invitation is
about somebody who has joined. With that the look-up of an answer returns `at`
(`FoundWhereLast`), so an answer is an `Answer` of `ChatDirectory`.

`AdminsAreHeard` needs that the gateway knows of every chat with somebody in it
(`ChatsAreKnown`), which `ChatsChange` gives: a step that adds a member to a chat adds the
chat, and only an admin's join adds one to the desk.

Model-checked only: `JoinEnds`, `ReadyMeansPlaying` and `EndsWhileSized`, liveness under
fairness and as such out of the prover's reach. The safety that the last two rest on is
proved (`ReadyEndsWell`, `LargePoolsNeverJam`).

## What the models showed

Three runs end in a violation, of what a comment and two answers say:

- `admin` – "If no admin is connected ie no socketId throw" (`call.gateway.ts:550`). An owner
  who disconnects while its join waits for the database is listed by the join's end. Its
  disconnect is over, so the entry stays, and requests to join go to a socket that is gone.
- `edits` – "Aid serice edited successfully" (`aid-service.controller.ts:53`). updateAidService
  looks the service up and then saves `{...AidService, ...dto}`: the class is spread, not the
  service, and what is saved has no id. A new service appears; the edited one stays.
- `requests` – "Aid service request successful" (`aid-service.controller.ts:44`).
  requestAidService settles its saves with `allSettled` and commits. If a save has failed, the
  transaction is aborted, COMMIT rolls it back without an error, and everyone who was asked is
  returned although the room lists none of them.

The other properties hold as stated. Where a statement has an exception, the exception is
what the code does:

- Two joins of a room without router both make one; transports made on the first are on a
  router that later members cannot consume from.
- A toggle writes back both switches as they were before its await: a toggle of the other
  kind that completed meanwhile is lost. A consumerReady that read the switches before a
  mute resumes the muted producer.
- A second join of any member, or of anybody else, takes the sharer's name off a running
  share: the sharer's stop is then ignored and its disconnect leaves the share behind, until
  the next share ends it.
- A client that produces the same kind again leaves the first producer open, out of reach of
  its switches and its disconnect; and so does one that produces with a mediaKind that is
  neither audio nor video.
- A client's message about the context can name another sharer, or say that nobody shares: the
  share goes on and stays tracked, but its client can no longer stop it; the one who was named can.
- A disconnect cleans one room only. Entries that no join made (messages that name another
  socket; transports made before the join) are never removed.
- consumerReady resumes video, then audio, then the consumer: a closed video that was paused
  rejects, and the audio and the consumer stay as they are.
- Shared screens are created paused and nothing resumes them. Transports, data producers,
  consumers and routers are never closed.
- Chat users who share a name, or a client, take over each other's entry: the answer to one
  is sent to the other. Who has left stays active, and is answered at a client that is gone.
- An updateUser or updateUserAidService that read an account before a password was reset, and
  saves it afterwards, puts back the old password and the used code, which is then good for
  another reset. Of two such edits at once one is lost. So with requestAidService: of two at
  once one is lost, although its users are mailed. And so with addParticipantsToRoom: its save
  reads the join table again and takes out whoever was invited since it read the room; of
  two that invite the same person at once, one may be refused.
- resetPassword writes `WHERE otp =` the code that it read before bcrypt's await. A code that
  was issued meanwhile makes it write nothing, and it still answers that the password was
  reset; accounts that happen to hold the same code are reset with it.
- verifyAccount compares no code. Two sign-ups, two createRooms or two createAidServices at
  once make twins; an email with capitals or a name with blanks makes them one after the
  other too, as what is looked for is not what is stored.
- As many concurrent createRoom, createAccount and requestAidService calls as the pool has
  connections wait for one another for ever. createAidService, updateAidService,
  updateUserAidService, requestAidService and updateUser never release, nor do the others when
  START TRANSACTION fails: ten such calls, and every service hangs.

## What is not modelled

- Of the call gateway: connectTransport (it sets up a transport's DTLS in the worker, and
  nothing here depends on it), the read-only messages and the stateless relays.
  Of roomContextModification, a message that carries a `screenShareProducer`: the context holds
  an object of the worker there, and with something else in its place the share could be neither
  found nor closed. The runs and theorems about sharing assume that no client sends one. Hence
  "partly".
- Methods that only read: login, getUser, getAuthUsers, getRoom, getRooms, getRoomByDate,
  getAidServices, getActiveChats. Nothing calls removeParticipants.
- A room's name and times, a service's description, who is mailed.
- Guards and tokens: a token is checked by the library, and nothing is kept.
- File upload: three ways to put a file into a store outside. It keeps no state, and the one
  property that it could have, that two uploads get two names, fails at once within a
  millisecond (see the hazards).
- Mail and notification send or log; bootstrap is wiring.
- Restarts: no state of the gateways survives the process, so a restart is `Init`. The
  services' transactions are rolled back by the database, which is `SignUpFailed`,
  `InsertFailed` and `EditFailed`.

## Plan

The plan of the first edition (`Accounts`, `RoomRecords`, the gateway's theorems) and the
pool's progress as a safety theorem are carried out. What could still be added:

1. `Accounts` over `ConnectionPool`: the two models meet at the methods, whose queries are
   steps here and courses there; composed, a sign-up would also wait for connections.
2. An abstract specification of a room's membership, as `ScreenSlot` is one of the shared
   screen, and the gateway as an implementation of it.
