---------------------------- MODULE TalkableGateway ----------------------------
(***************************************************************************)
(* The chat gateway (src/src/talkable/talkable.gateway.ts): users ask to   *)
(* chat, the admins of the desk are invited, and one of them answers.      *)
(*                                                                         *)
(* Its handlers await nothing but its own methods, which do no I/O, so     *)
(* each is one action.  A message in a chat changes nothing and is left    *)
(* out: who hears it is `members`.                                         *)
(***************************************************************************)
EXTENDS SequencesExt

CONSTANTS
  Sockets,   \* client connections; a socket id is never used twice
  People,    \* who a client can say it is (an IChatUser without its socketId)
  Admins,    \* those of them who say that they are admins
  Speaks,    \* Speaks[s]: the people that the client of socket s says it is
  IdOf,      \* IdOf[p]: the userId of p
  NameOf,    \* NameOf[p]: the userName of p
  ChatOf,    \* ChatOf[p]: the chat of p, which is named after its phone number
  Official,  \* the chat of the admins (DBCChatUser.userId)
  NoId,      \* a userId that is missing
  NoSocket   \* undefined, where a socket is expected

Chats == Range(ChatOf) \cup {Official}
MaybeSocket == Sockets \cup {NoSocket}

ASSUME TalkableAssumption ==
  /\ Admins \subseteq People
  /\ Speaks \in [Sockets -> SUBSET People]
  /\ DOMAIN IdOf = People /\ DOMAIN NameOf = People /\ DOMAIN ChatOf = People
  /\ Official \notin Range(ChatOf)
  /\ NoSocket \notin Sockets

VARIABLES
  connected,    \* sockets that are up
  members,      \* members[chat]: the sockets that get what is sent to chat
  activeChats,  \* the chats that the gateway knows
  activeUsers,  \* the users that the gateway knows, in the order they came
  invites,      \* invitations to chat that clients have got
  told,         \* told[p]: the socket that the last answer to p was sent to
  at            \* history: the socket from which p joined last

sockets == <<connected, members>>
desk    == <<activeChats, activeUsers>>
vars    == <<sockets, desk, invites, told, at>>

\* An entry of activeUsers: what a look-up goes by, and what it is for.
Entry == [id : Range(IdOf) \cup {NoId}, name : Range(NameOf), socket : Sockets]

\* An invitation carries the chat with its first user, as it was when p asked.
Invite == [to : Sockets, who : People, from : Sockets]

\* Every variable holds what the code keeps in it.
TypeOK ==
  /\ connected \subseteq Sockets
  /\ members \in [Chats -> SUBSET Sockets]
  /\ activeChats \subseteq Chats
  /\ activeUsers \in Seq(Entry)
  /\ invites \subseteq Invite
  /\ told \in [People -> MaybeSocket]
  /\ at \in [People -> MaybeSocket]

\* Connecting changes nothing, so the sockets are up from the start.
Init ==
  /\ connected = Sockets
  /\ members = [chat \in Chats |-> {}]
  /\ activeChats = {}
  /\ activeUsers = <<>>
  /\ invites = {}
  /\ told = [p \in People |-> NoSocket]
  /\ at = [p \in People |-> NoSocket]

-----------------------------------------------------------------------------
(* The lists                                                                 *)

\* Mistake: the payload does not get the client's socketId.
PayloadWithoutSocket(p, s) == [id |-> IdOf[p], name |-> NameOf[p], socket |-> NoSocket]

\* What a client sends about p, with payload.socketId = client.id.
Payload(p, s) == [id |-> IdOf[p], name |-> NameOf[p], socket |-> s]

\* The same user: by id, by socket or by name.
Matches(entry, user) ==
  \/ entry.id # NoId /\ entry.id = user.id
  \/ entry.socket = user.socket
  \/ entry.name = user.name

\* findIndex: the first entry of the user, 0 when there is none.
IndexOf(user) == SelectInSeq(activeUsers, LAMBDA entry : Matches(entry, user))

\* Mistake: the old entry is spread over the new one.
MergeOver(entry, user) == entry

\* {...entry, ...user}: what the user does not say stays.
Merge(entry, user) == [user EXCEPT !.id = IF @ = NoId THEN entry.id ELSE @]

\* Mistake: who comes again is added again.
AddActiveChatUser(user) == activeUsers' = Append(activeUsers, user)

AddOrUpdateActiveChatUser(user) ==
  LET i == IndexOf(user) IN
  activeUsers' = IF i = 0 THEN Append(activeUsers, user)
                          ELSE [activeUsers EXCEPT ![i] = Merge(@, user)]

\* Mistake: the chat takes the place of the ones that are there.
ReplaceActiveChat(chat) == activeChats' = {chat}

\* The users of a chat only grow, and nobody reads but the first.
AddOrUpdateActiveChat(chat) == activeChats' = activeChats \cup {chat}

\* getUser(user)?.socketId
SocketOf(user) == LET i == IndexOf(user) IN IF i = 0 THEN NoSocket ELSE activeUsers[i].socket

-----------------------------------------------------------------------------
(* Joining                                                                   *)

JoinRoom(s, p) ==
  /\ s \in connected /\ p \in Speaks[s] \ Admins
  /\ members' = [members EXCEPT ![ChatOf[p]] = @ \cup {s}]
  /\ AddOrUpdateActiveChat(ChatOf[p])
  /\ AddOrUpdateActiveChatUser(Payload(p, s))
  /\ invites' = invites \cup [to : members[Official] \ {s}, who : {p}, from : {s}]
  /\ at' = [at EXCEPT ![p] = s]
  /\ UNCHANGED <<connected, told>>

\* An admin joins every chat there is.
JoinRoomAsAdmin(s, p) ==
  /\ s \in connected /\ p \in Speaks[s] \cap Admins
  /\ AddOrUpdateActiveChat(Official)
  /\ AddOrUpdateActiveChatUser(Payload(p, s))
  /\ members' = [chat \in Chats |->
                   members[chat] \cup (IF chat \in activeChats' THEN {s} ELSE {})]
  /\ at' = [at EXCEPT ![p] = s]
  /\ UNCHANGED <<connected, invites, told>>

-----------------------------------------------------------------------------
(* Answering an invitation, once or again                                    *)

\* The answer goes to the socket that is now listed for the user invited about.
Tell(invite) ==
  told' = [told EXCEPT ![invite.who] = SocketOf(Payload(invite.who, invite.from))]

JoinInviteAcceptance(invite) ==
  /\ invite.to \in connected
  /\ AddOrUpdateActiveChat(ChatOf[invite.who])
  /\ members' = [members EXCEPT ![ChatOf[invite.who]] = @ \cup {invite.to}]
  /\ Tell(invite)
  /\ UNCHANGED <<connected, activeUsers, invites, at>>

JoinInviteRejection(invite) ==
  /\ invite.to \in connected
  /\ Tell(invite)
  /\ UNCHANGED <<sockets, desk, invites, at>>

-----------------------------------------------------------------------------
\* socket.io takes the socket out of its rooms; the gateway forgets nothing.
HandleDisconnect(s) ==
  /\ s \in connected
  /\ connected' = connected \ {s}
  /\ members' = [chat \in Chats |-> members[chat] \ {s}]
  /\ UNCHANGED <<desk, invites, told, at>>

Next ==
  \/ \E s \in Sockets, p \in People : JoinRoom(s, p) \/ JoinRoomAsAdmin(s, p)
  \/ \E invite \in invites : JoinInviteAcceptance(invite) \/ JoinInviteRejection(invite)
  \/ \E s \in Sockets : HandleDisconnect(s)

Spec == Init /\ [][Next]_vars

-----------------------------------------------------------------------------
(* Properties                                                                *)

\* Nobody else has the id or the name of p, or uses a client that p uses.
Distinct(p) ==
  \A q \in People \ {p} :
    /\ IdOf[q] # IdOf[p] \/ IdOf[q] = NoId
    /\ NameOf[q] # NameOf[p]
    /\ \A s \in Sockets : ~({p, q} \subseteq Speaks[s])

Distincts == {p \in People : Distinct(p)}

Directory == INSTANCE ChatDirectory WITH
  Callers <- Distincts, Places <- Sockets, Nowhere <- NoSocket,
  at <- [p \in Distincts |-> at[p]], told <- [p \in Distincts |-> told[p]]

\* An invitation is answered to the client from which its user joined last, however
\* old the invitation and whoever else joins in between, if the user can be told from
\* all others.
AnswersFindTheirUser == Directory!DirectorySpec

\* An admin who comes to the desk is in every chat that somebody is in, the chats of
\* those who asked when no admin was there to be invited included.
AdminsAreHeard ==
  [][\A s \in Sockets, chat \in Chats :
       s \notin members[Official] /\ s \in members'[Official] /\ members[chat] # {}
         => s \in members'[chat]]_vars

\* An entry that says the name, the id or a client of p.
IsOf(entry, p) ==
  \/ entry.name = NameOf[p]
  \/ entry.id = IdOf[p] /\ IdOf[p] # NoId
  \/ p \in Speaks[entry.socket]

OwnEntriesOf(p) == {i \in DOMAIN activeUsers : IsOf(activeUsers[i], p)}

\* A distinct user has one entry in activeUsers, that of its last join, and nobody
\* else's join gets into it.
OneEntryEach ==
  \A p \in Distincts :
    IF at[p] = NoSocket
    THEN OwnEntriesOf(p) = {}
    ELSE \E i \in DOMAIN activeUsers : /\ OwnEntriesOf(p) = {i}
                                       /\ activeUsers[i] = Payload(p, at[p])

=============================================================================
