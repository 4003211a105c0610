---------------------------- MODULE TalkableProofs ----------------------------
(***************************************************************************)
(* That an answer finds its user, and an admin every chat that somebody is *)
(* in, for any clients, users and names.                                   *)
(***************************************************************************)
EXTENDS TalkableGateway, SequenceTheorems, WellFoundedInduction, TLAPS

\* The first of some indexes is one of them.
LEMMA FirstIsOne == ASSUME NEW S \in SUBSET Nat, S # {} PROVE Min(S) \in S
<1> DEFINE Less == OpToRel(<, Nat)
<1>1. IsWellFoundedOn(Less, Nat)
  BY NatLessThanWellFounded
<1>2. \A x, y \in Nat : y < x => <<y, x>> \in Less
  BY DEF OpToRel
<1> HIDE DEF Less
<1>3. PICK x \in S : \A y \in S : ~ (<<y, x>> \in Less)
  BY <1>1, WFMin
<1>4. ASSUME NEW y \in S PROVE x <= y
  <2>1. ~(y < x)
    BY <1>2, <1>3
  <2> QED BY <2>1
<1> QED
  BY <1>4 DEF Min

\* findIndex returns a match, or 0 when there is none.
LEMMA IndexFound ==
  ASSUME TypeOK, NEW user
  PROVE  LET i == IndexOf(user) IN
         \/ i \in DOMAIN activeUsers /\ Matches(activeUsers[i], user)
         \/ i = 0 /\ \A j \in DOMAIN activeUsers : ~Matches(activeUsers[j], user)
<1> DEFINE S == {i \in 1..Len(activeUsers) : Matches(activeUsers[i], user)}
<1>1. IndexOf(user) = IF S # {} THEN Min(S) ELSE 0
  BY DEF IndexOf, SelectInSeq
<1>2. DOMAIN activeUsers = 1..Len(activeUsers)
  BY DEF TypeOK
<1>3. S # {} => Min(S) \in S
  BY FirstIsOne
<1> QED
  BY <1>1, <1>2, <1>3

-----------------------------------------------------------------------------
(* Entries of one user and of another                                        *)

\* Whom a distinct user's look-up finds is that user.
LEMMA OwnMatches ==
  ASSUME NEW p \in People, NEW s \in Sockets, p \in Speaks[s],
         NEW entry, Matches(entry, Payload(p, s))
  PROVE  IsOf(entry, p)
BY DEF Matches, Payload, IsOf

LEMMA OwnMerge ==
  ASSUME NEW p \in People, NEW s \in Sockets, NEW t \in Sockets
  PROVE  /\ Merge(Payload(p, t), Payload(p, s)) = Payload(p, s)
         /\ Matches(Payload(p, t), Payload(p, s))
         /\ IsOf(Payload(p, s), p)
BY DEF Merge, Payload, Matches, IsOf

\* What somebody else writes is not of p, and does not find the entry of p.
LEMMA OthersPayload ==
  ASSUME NEW p \in Distincts, NEW q \in People \ {p}, NEW s \in Sockets, q \in Speaks[s]
  PROVE  /\ ~IsOf(Payload(q, s), p)
         /\ \A t \in Sockets : p \in Speaks[t] => ~Matches(Payload(p, t), Payload(q, s))
         /\ \A entry : ~IsOf(entry, p) => ~IsOf(Merge(entry, Payload(q, s)), p)
<1>1. /\ IdOf[q] # IdOf[p] \/ IdOf[q] = NoId
      /\ NameOf[q] # NameOf[p]
      /\ \A t \in Sockets : ~(p \in Speaks[t] /\ q \in Speaks[t])
  BY DEF Distincts, Distinct
<1>2. ~IsOf(Payload(q, s), p)
  BY <1>1 DEF IsOf, Payload
<1>3. ASSUME NEW t \in Sockets, p \in Speaks[t]
      PROVE  ~Matches(Payload(p, t), Payload(q, s))
  BY <1>1, <1>3 DEF Matches, Payload
<1>4. ASSUME NEW entry, ~IsOf(entry, p)
      PROVE  ~IsOf(Merge(entry, Payload(q, s)), p)
  BY <1>1, <1>4 DEF IsOf, Merge, Payload
<1> QED
  BY <1>2, <1>3, <1>4

-----------------------------------------------------------------------------
(* The list of users                                                         *)

LEMMA PayloadType == \A p \in People, s \in Sockets : Payload(p, s) \in Entry
BY TalkableAssumption DEF Payload, Entry, Range

\* addOrUpdateActiveChatUser adds an entry at the end or merges one that matches.
AddsOrMerges(user, i) ==
  /\ DOMAIN activeUsers' = DOMAIN activeUsers \cup {i}
  /\ \A j \in DOMAIN activeUsers \ {i} : activeUsers'[j] = activeUsers[j]
  /\ \/ /\ i \notin DOMAIN activeUsers /\ activeUsers'[i] = user
        /\ \A j \in DOMAIN activeUsers : ~Matches(activeUsers[j], user)
     \/ /\ i \in DOMAIN activeUsers /\ Matches(activeUsers[i], user)
        /\ activeUsers'[i] = Merge(activeUsers[i], user)

LEMMA ListEffect ==
  ASSUME TypeOK, NEW user \in Entry, AddOrUpdateActiveChatUser(user)
  PROVE  activeUsers' \in Seq(Entry) /\ \E i : AddsOrMerges(user, i)
<1> DEFINE i == IndexOf(user)
           n == Len(activeUsers)
<1>1. activeUsers \in Seq(Entry) /\ n \in Nat /\ DOMAIN activeUsers = 1..n
  BY DEF TypeOK
<1>2. \/ i \in DOMAIN activeUsers /\ Matches(activeUsers[i], user)
      \/ i = 0 /\ \A j \in DOMAIN activeUsers : ~Matches(activeUsers[j], user)
  BY IndexFound
<1>3. activeUsers' = IF i = 0 THEN Append(activeUsers, user)
                     ELSE [activeUsers EXCEPT ![i] = Merge(activeUsers[i], user)]
  BY DEF AddOrUpdateActiveChatUser
<1> HIDE DEF i
<1>4. CASE i = 0
  <2>1. activeUsers' = Append(activeUsers, user)
    BY <1>3, <1>4
  <2>2. activeUsers' \in Seq(Entry) /\ AddsOrMerges(user, n + 1)
    BY <1>1, <1>2, <1>4, <2>1, AppendProperties DEF AddsOrMerges
  <2> QED BY <2>2
<1>5. CASE i # 0
  <2>1. i \in 1..n /\ activeUsers[i] \in Entry /\ Matches(activeUsers[i], user)
    BY <1>1, <1>2, <1>5, ElementOfSeq
  <2>2. Merge(activeUsers[i], user) \in Entry
    BY <2>1 DEF Merge, Entry
  <2>3. activeUsers' = [activeUsers EXCEPT ![i] = Merge(activeUsers[i], user)]
    BY <1>3, <1>5
  <2>4. activeUsers' \in Seq(Entry) /\ DOMAIN activeUsers' = DOMAIN activeUsers
    BY <1>1, <2>1, <2>2, <2>3, ExceptSeq
  <2>5. AddsOrMerges(user, i)
    BY <1>1, <2>1, <2>3, <2>4 DEF AddsOrMerges
  <2> QED BY <2>4, <2>5
<1> QED
  BY <1>4, <1>5

-----------------------------------------------------------------------------
(* The invariant                                                             *)

\* Whoever joined did so over a client of its own, and whoever an invitation is about
\* has joined.
AskersSpeak ==
  /\ \A p \in People : at[p] # NoSocket => p \in Speaks[at[p]]
  /\ \A invite \in invites : /\ invite.who \in Speaks[invite.from]
                             /\ at[invite.who] # NoSocket

\* One user's part of OneEntryEach.
OneEntry(p) ==
  IF at[p] = NoSocket
  THEN OwnEntriesOf(p) = {}
  ELSE \E i \in DOMAIN activeUsers : /\ OwnEntriesOf(p) = {i}
                                     /\ activeUsers[i] = Payload(p, at[p])

LEMMA OwnJoinKeeps ==
  ASSUME TypeOK, NEW p \in Distincts, OneEntry(p),
         NEW s \in Sockets, p \in Speaks[s],
         AddOrUpdateActiveChatUser(Payload(p, s)), at'[p] = s
  PROVE  OneEntry(p)'
<1> DEFINE user == Payload(p, s)
<1>1. p \in People /\ user \in Entry
  BY PayloadType DEF Distincts
<1>2. PICK i : AddsOrMerges(user, i)
  BY <1>1, ListEffect
<1>3. at[p] \in Sockets \cup {NoSocket} /\ s # NoSocket
  BY <1>1, TalkableAssumption DEF TypeOK, MaybeSocket
<1>4. IsOf(user, p) /\ \A t \in Sockets : /\ Matches(Payload(p, t), user)
                                          /\ Merge(Payload(p, t), user) = user
  BY <1>1, OwnMerge
<1>5. \A j \in DOMAIN activeUsers : Matches(activeUsers[j], user) => j \in OwnEntriesOf(p)
  BY <1>1, OwnMatches DEF OwnEntriesOf
<1> HIDE DEF user
<1>6. activeUsers'[i] = user /\ OwnEntriesOf(p) \subseteq {i}
  <2>1. CASE i \notin DOMAIN activeUsers
    <3>1. activeUsers'[i] = user /\ \A j \in DOMAIN activeUsers : ~Matches(activeUsers[j], user)
      BY <1>2, <2>1 DEF AddsOrMerges
    <3>2. at[p] = NoSocket
      BY <1>3, <1>4, <3>1 DEF OneEntry
    <3> QED BY <3>1, <3>2 DEF OneEntry
  <2>2. CASE i \in DOMAIN activeUsers
    <3>1. i \in OwnEntriesOf(p) /\ activeUsers'[i] = Merge(activeUsers[i], user)
      BY <1>2, <1>5, <2>2 DEF AddsOrMerges
    <3>2. at[p] # NoSocket /\ OwnEntriesOf(p) = {i} /\ activeUsers[i] = Payload(p, at[p])
      BY <3>1 DEF OneEntry
    <3> QED BY <1>3, <1>4, <3>1, <3>2
  <2> QED BY <2>1, <2>2
<1>7. OwnEntriesOf(p)' = {i}
  BY <1>2, <1>4, <1>6 DEF AddsOrMerges, OwnEntriesOf
<1>8. i \in DOMAIN activeUsers' /\ activeUsers'[i] = Payload(p, at'[p])
  BY <1>2, <1>6 DEF AddsOrMerges, user
<1> QED
  BY <1>3, <1>7, <1>8 DEF OneEntry

LEMMA OthersJoinKeeps ==
  ASSUME TypeOK, NEW p \in Distincts, OneEntry(p), at[p] # NoSocket => p \in Speaks[at[p]],
         NEW q \in People \ {p}, NEW s \in Sockets, q \in Speaks[s],
         AddOrUpdateActiveChatUser(Payload(q, s)), at'[p] = at[p]
  PROVE  OneEntry(p)'
<1> DEFINE user == Payload(q, s)
<1>1. p \in People /\ user \in Entry
  BY PayloadType DEF Distincts
<1>2. PICK i : AddsOrMerges(user, i)
  BY <1>1, ListEffect
<1>3. at[p] \in Sockets \cup {NoSocket}
  BY <1>1 DEF TypeOK, MaybeSocket
<1>4. /\ ~IsOf(user, p)
      /\ \A t \in Sockets : p \in Speaks[t] => ~Matches(Payload(p, t), user)
      /\ \A entry : ~IsOf(entry, p) => ~IsOf(Merge(entry, user), p)
  BY OthersPayload
<1> HIDE DEF user
<1>5. i \notin OwnEntriesOf(p)
  <2>1. CASE i \notin DOMAIN activeUsers
    BY <2>1 DEF OwnEntriesOf
  <2>2. CASE i \in DOMAIN activeUsers
    <3>1. Matches(activeUsers[i], user)
      BY <1>2, <2>2 DEF AddsOrMerges
    <3> QED BY <1>3, <1>4, <3>1 DEF OneEntry
  <2> QED BY <2>1, <2>2
<1>6. ~IsOf(activeUsers'[i], p)
  BY <1>2, <1>4, <1>5 DEF AddsOrMerges, OwnEntriesOf
<1>7. OwnEntriesOf(p)' = OwnEntriesOf(p)
  BY <1>2, <1>5, <1>6 DEF AddsOrMerges, OwnEntriesOf
<1>8. \A j \in OwnEntriesOf(p) : j \in DOMAIN activeUsers' /\ activeUsers'[j] = activeUsers[j]
  BY <1>2, <1>5 DEF AddsOrMerges, OwnEntriesOf
<1> QED
  BY <1>7, <1>8 DEF OneEntry

LEMMA JoinKeepsEntries ==
  ASSUME TypeOK, OneEntryEach, AskersSpeak,
         NEW q \in People, NEW s \in Sockets, q \in Speaks[s],
         AddOrUpdateActiveChatUser(Payload(q, s)), at' = [at EXCEPT ![q] = s]
  PROVE  OneEntryEach'
<1> SUFFICES ASSUME NEW p \in Distincts PROVE OneEntry(p)'
  BY DEF OneEntryEach, OneEntry
<1>1. OneEntry(p) /\ p \in People
  BY DEF OneEntryEach, OneEntry, Distincts
<1>2. at'[p] = IF p = q THEN s ELSE at[p]
  BY <1>1 DEF TypeOK
<1>3. CASE p = q
  BY <1>1, <1>2, <1>3, OwnJoinKeeps
<1>4. CASE p # q
  BY <1>1, <1>2, <1>4, OthersJoinKeeps DEF AskersSpeak
<1> QED
  BY <1>3, <1>4

-----------------------------------------------------------------------------
LEMMA TalkableInit == Init => TypeOK /\ OneEntryEach /\ AskersSpeak
<1> SUFFICES ASSUME Init PROVE TypeOK /\ OneEntryEach /\ AskersSpeak
  OBVIOUS
<1>1. TypeOK
  BY DEF Init, TypeOK, MaybeSocket
<1>2. OneEntryEach
  BY DEF Init, OneEntryEach, OwnEntriesOf, Distincts
<1> QED
  BY <1>1, <1>2 DEF Init, AskersSpeak

\* Every variable keeps its type.
LEMMA TalkableTypes == TypeOK /\ [Next]_vars => TypeOK'
<1> SUFFICES ASSUME TypeOK, [Next]_vars PROVE TypeOK'
  OBVIOUS
<1> USE DEF sockets, desk
<1>1. \A p \in People : ChatOf[p] \in Chats
  BY TalkableAssumption DEF Chats, Range
<1>2. ASSUME NEW user
      PROVE  SocketOf(user) \in MaybeSocket
  <2> DEFINE i == IndexOf(user)
  <2>1. i = 0 \/ i \in DOMAIN activeUsers
    BY IndexFound
  <2>2. i # 0 => activeUsers[i] \in Entry
    BY <2>1, ElementOfSeq DEF TypeOK
  <2> QED BY <2>1, <2>2 DEF SocketOf, Entry, MaybeSocket
<1>3. ASSUME NEW s \in Sockets, NEW p \in People, JoinRoom(s, p)
      PROVE  TypeOK'
  <2>1. activeUsers' \in Seq(Entry)
    BY <1>3, PayloadType, ListEffect DEF JoinRoom
  <2>2. invites' \subseteq Invite
    BY <1>3 DEF JoinRoom, TypeOK, Invite, Chats
  <2> QED BY <1>1, <1>3, <2>1, <2>2 DEF JoinRoom, AddOrUpdateActiveChat, TypeOK, MaybeSocket
<1>4. ASSUME NEW s \in Sockets, NEW p \in People, JoinRoomAsAdmin(s, p)
      PROVE  TypeOK'
  <2>1. activeUsers' \in Seq(Entry)
    BY <1>4, PayloadType, ListEffect DEF JoinRoomAsAdmin
  <2> QED BY <1>4, <2>1 DEF JoinRoomAsAdmin, AddOrUpdateActiveChat, TypeOK, MaybeSocket, Chats
<1>5. ASSUME NEW invite \in invites,
             JoinInviteAcceptance(invite) \/ JoinInviteRejection(invite)
      PROVE  TypeOK'
  <2>1. invite \in Invite
    BY DEF TypeOK
  <2>2. invite.to \in Sockets /\ invite.who \in People /\ ChatOf[invite.who] \in Chats
    BY <1>1, <2>1 DEF Invite
  <2>3. told' \in [People -> MaybeSocket]
    BY <1>2, <1>5 DEF JoinInviteAcceptance, JoinInviteRejection, Tell, TypeOK
  <2> QED BY <1>5, <2>2, <2>3 DEF JoinInviteAcceptance, JoinInviteRejection,
                                  AddOrUpdateActiveChat, TypeOK
<1>6. ASSUME NEW s \in Sockets, HandleDisconnect(s)
      PROVE  TypeOK'
  BY <1>6 DEF HandleDisconnect, TypeOK
<1>7. CASE UNCHANGED vars
  BY <1>7 DEF vars, TypeOK
<1> QED
  BY <1>3, <1>4, <1>5, <1>6, <1>7 DEF Next

LEMMA TalkableNext ==
  TypeOK /\ OneEntryEach /\ AskersSpeak /\ [Next]_vars => OneEntryEach' /\ AskersSpeak'
<1> SUFFICES ASSUME TypeOK, OneEntryEach, AskersSpeak, [Next]_vars
             PROVE  OneEntryEach' /\ AskersSpeak'
  OBVIOUS
<1>1. ASSUME NEW s \in Sockets, NEW p \in People, JoinRoom(s, p) \/ JoinRoomAsAdmin(s, p)
      PROVE  OneEntryEach' /\ AskersSpeak'
  <2>1. /\ p \in Speaks[s] /\ AddOrUpdateActiveChatUser(Payload(p, s))
        /\ at' = [at EXCEPT ![p] = s]
    BY <1>1 DEF JoinRoom, JoinRoomAsAdmin
  <2>2. \A invite \in invites' : invite \in invites \/ (invite.who = p /\ invite.from = s)
    BY <1>1 DEF JoinRoom, JoinRoomAsAdmin
  <2>3. \A q \in People : at'[q] = IF q = p THEN s ELSE at[q]
    BY <2>1 DEF TypeOK
  <2>4. AskersSpeak'
    <3>1. \A invite \in invites : invite.who \in People
      BY DEF TypeOK, Invite
    <3> QED BY <2>1, <2>2, <2>3, <3>1, TalkableAssumption DEF AskersSpeak
  <2> QED BY <2>1, <2>4, JoinKeepsEntries
<1>2. CASE UNCHANGED <<activeUsers, invites, at>>
  BY <1>2 DEF OneEntryEach, OwnEntriesOf, AskersSpeak
<1>3. ASSUME NEW invite \in invites,
             JoinInviteAcceptance(invite) \/ JoinInviteRejection(invite)
      PROVE  UNCHANGED <<activeUsers, invites, at>>
  BY <1>3 DEF JoinInviteAcceptance, JoinInviteRejection, desk
<1>4. (\E s \in Sockets : HandleDisconnect(s)) \/ UNCHANGED vars
        => UNCHANGED <<activeUsers, invites, at>>
  BY DEF HandleDisconnect, desk, vars
<1> QED
  BY <1>1, <1>2, <1>3, <1>4 DEF Next

\* The gateway's lists, and whom it was last told to answer, keep their types.
THEOREM TalkableTypeCorrect == Spec => []TypeOK
BY TalkableInit, TalkableTypes, PTL DEF Spec

\* A user whom nothing confuses with another has one entry, that of its last join.
THEOREM EntriesAreOwn == Spec => []OneEntryEach
BY TalkableInit, TalkableTypes, TalkableNext, PTL DEF Spec

-----------------------------------------------------------------------------
(* The look-up, and what it is for                                           *)

\* Whatever client an invitation names, the user is found where it joined last.
LEMMA FoundWhereLast ==
  ASSUME TypeOK, OneEntryEach, NEW p \in Distincts, at[p] # NoSocket,
         NEW s \in Sockets, p \in Speaks[s]
  PROVE  SocketOf(Payload(p, s)) = at[p]
<1> DEFINE user == Payload(p, s)
           i == IndexOf(user)
<1>1. p \in People /\ at[p] \in Sockets
  BY DEF Distincts, TypeOK, MaybeSocket
<1>2. PICK j \in DOMAIN activeUsers : /\ OwnEntriesOf(p) = {j}
                                      /\ activeUsers[j] = Payload(p, at[p])
  BY DEF OneEntryEach
<1>3. Matches(activeUsers[j], user)
  BY <1>1, <1>2, OwnMerge
<1>4. \/ i \in DOMAIN activeUsers /\ Matches(activeUsers[i], user)
      \/ i = 0 /\ \A k \in DOMAIN activeUsers : ~Matches(activeUsers[k], user)
  BY IndexFound
<1>5. i \in DOMAIN activeUsers /\ Matches(activeUsers[i], user)
  BY <1>2, <1>3, <1>4
<1>6. i = j
  BY <1>1, <1>2, <1>5, OwnMatches DEF OwnEntriesOf
<1>7. i # 0
  BY <1>5 DEF TypeOK
<1> QED
  BY <1>2, <1>6, <1>7 DEF SocketOf, Payload

LEMMA DirectoryStart == Init => Directory!DirectoryInit
BY DEF Init, Directory!DirectoryInit, Distincts

\* A join of a distinct user is an Ask, an answer to one is an Answer, and all else is
\* nothing to the directory.
LEMMA DirectoryStep ==
  TypeOK /\ OneEntryEach /\ AskersSpeak /\ [Next]_vars
    => [Directory!DirectoryNext]_(Directory!directoryVars)
<1> SUFFICES ASSUME TypeOK, OneEntryEach, AskersSpeak, [Next]_vars
             PROVE  [Directory!DirectoryNext]_(Directory!directoryVars)
  OBVIOUS
<1>1. CASE UNCHANGED <<told, at>>
  BY <1>1 DEF Directory!directoryVars
<1>3. ASSUME NEW s \in Sockets, NEW p \in People, JoinRoom(s, p) \/ JoinRoomAsAdmin(s, p)
      PROVE  [Directory!DirectoryNext]_(Directory!directoryVars)
  <2>1. at' = [at EXCEPT ![p] = s] /\ told' = told
    BY <1>3 DEF JoinRoom, JoinRoomAsAdmin
  <2>2. CASE p \in Distincts
    <3>1. Directory!Ask(p, s)
      BY <2>1, <2>2 DEF Directory!Ask, TypeOK, Distincts
    <3> QED BY <2>2, <3>1 DEF Directory!DirectoryNext
  <2>3. CASE p \notin Distincts
    BY <2>1, <2>3 DEF Directory!directoryVars, TypeOK, Distincts
  <2> QED BY <2>2, <2>3
<1>4. ASSUME NEW invite \in invites,
             JoinInviteAcceptance(invite) \/ JoinInviteRejection(invite)
      PROVE  [Directory!DirectoryNext]_(Directory!directoryVars)
  <2> DEFINE p == invite.who
             v == SocketOf(Payload(p, invite.from))
  <2>1. told' = [told EXCEPT ![p] = v] /\ at' = at
    BY <1>4 DEF JoinInviteAcceptance, JoinInviteRejection, Tell
  <2>2. /\ p \in People /\ invite.from \in Sockets
        /\ p \in Speaks[invite.from] /\ at[p] # NoSocket
    BY DEF TypeOK, Invite, AskersSpeak
  <2>3. p \in Distincts => v = at[p]
    BY <2>2, FoundWhereLast
  <2> HIDE DEF v, p
  <2>4. CASE p \in Distincts
    <3>1. Directory!Answer(p)
      BY <2>1, <2>3, <2>4 DEF Directory!Answer, TypeOK, Distincts
    <3> QED BY <2>4, <3>1 DEF Directory!DirectoryNext
  <2>5. CASE p \notin Distincts
    BY <2>1, <2>5 DEF Directory!directoryVars, TypeOK, Distincts
  <2> QED BY <2>4, <2>5
<1>5. (\E s \in Sockets : HandleDisconnect(s)) \/ UNCHANGED vars => UNCHANGED <<told, at>>
  BY DEF HandleDisconnect, vars
<1> QED
  BY <1>1, <1>3, <1>4, <1>5 DEF Next

\* Answers to a distinct user go where it joined last: the gateway implements
\* ChatDirectory.
THEOREM TalkImplementsDirectory == Spec => AnswersFindTheirUser
<1>1. TypeOK /\ OneEntryEach /\ AskersSpeak /\ [Next]_vars
        => (TypeOK /\ OneEntryEach /\ AskersSpeak)'
  BY TalkableTypes, TalkableNext
<1> QED
  BY TalkableInit, <1>1, DirectoryStart, DirectoryStep, PTL
  DEF Spec, AnswersFindTheirUser, Directory!DirectorySpec

-----------------------------------------------------------------------------
(* Admins                                                                    *)

\* The gateway knows of every chat that somebody is in.
ChatsAreKnown == \A chat \in Chats : members[chat] # {} => chat \in activeChats

\* What a step does to a chat: it adds nobody, or the chat is known from then on; and
\* nobody comes to the desk but who joins as admin.
LEMMA ChatsChange ==
  ASSUME TypeOK, [Next]_vars
  PROVE  /\ \A chat \in activeChats : chat \in activeChats'
         /\ \A chat \in Chats : members'[chat] \subseteq members[chat] \/ chat \in activeChats'
         /\ \/ members'[Official] \subseteq members[Official]
            \/ \E s \in Sockets, p \in People : JoinRoomAsAdmin(s, p)
<1> DEFINE Goal ==
      /\ \A chat \in activeChats : chat \in activeChats'
      /\ \A chat \in Chats : members'[chat] \subseteq members[chat] \/ chat \in activeChats'
      /\ \/ members'[Official] \subseteq members[Official]
         \/ \E s \in Sockets, p \in People : JoinRoomAsAdmin(s, p)
<1>1. \A p \in People : ChatOf[p] \in Chats /\ ChatOf[p] # Official
  BY TalkableAssumption DEF Chats, Range
<1>2. Official \in Chats /\ DOMAIN members = Chats
  BY DEF Chats, TypeOK
<1>3. ASSUME NEW s \in Sockets, NEW p \in People, JoinRoom(s, p)
      PROVE  Goal
  BY <1>1, <1>2, <1>3 DEF JoinRoom, AddOrUpdateActiveChat
<1>4. ASSUME NEW s \in Sockets, NEW p \in People, JoinRoomAsAdmin(s, p)
      PROVE  Goal
  <2>1. \A chat \in Chats :
          members'[chat] = members[chat] \cup (IF chat \in activeChats' THEN {s} ELSE {})
    BY <1>4 DEF JoinRoomAsAdmin
  <2>2. activeChats' = activeChats \cup {Official}
    BY <1>4 DEF JoinRoomAsAdmin, AddOrUpdateActiveChat
  <2> QED BY <1>4, <2>1, <2>2
<1>5. ASSUME NEW invite \in invites,
             JoinInviteAcceptance(invite) \/ JoinInviteRejection(invite)
      PROVE  Goal
  <2>1. invite.who \in People
    BY DEF TypeOK, Invite
  <2>2. CASE JoinInviteAcceptance(invite)
    BY <1>1, <1>2, <2>1, <2>2 DEF JoinInviteAcceptance, AddOrUpdateActiveChat
  <2>3. CASE JoinInviteRejection(invite)
    BY <2>3 DEF JoinInviteRejection, sockets, desk
  <2> QED BY <1>5, <2>2, <2>3
<1>6. ASSUME NEW s \in Sockets, HandleDisconnect(s)
      PROVE  Goal
  BY <1>2, <1>6 DEF HandleDisconnect, desk
<1>7. CASE UNCHANGED vars
  BY <1>7 DEF vars, sockets, desk
<1> QED
  BY <1>3, <1>4, <1>5, <1>6, <1>7 DEF Next

LEMMA KnownStart == Init => ChatsAreKnown
BY DEF Init, ChatsAreKnown

LEMMA KnownStays == TypeOK /\ ChatsAreKnown /\ [Next]_vars => ChatsAreKnown'
<1> SUFFICES ASSUME TypeOK, ChatsAreKnown, [Next]_vars,
                    NEW chat \in Chats, members'[chat] # {}
             PROVE  chat \in activeChats'
  BY DEF ChatsAreKnown
<1> QED
  BY ChatsChange DEF ChatsAreKnown

\* An admin who comes to the desk gets into every chat that somebody is in, those that
\* began while no admin was there included.
THEOREM AdminsJoinAll == Spec => AdminsAreHeard
<1>1. ASSUME TypeOK, ChatsAreKnown, [Next]_vars, NEW s \in Sockets, NEW chat \in Chats,
             s \notin members[Official], s \in members'[Official], members[chat] # {}
      PROVE  s \in members'[chat]
  <2>1. PICK t \in Sockets, p \in People : JoinRoomAsAdmin(t, p)
    BY <1>1, ChatsChange
  <2>2. \A c \in Chats :
          members'[c] = members[c] \cup (IF c \in activeChats' THEN {t} ELSE {})
    BY <2>1 DEF JoinRoomAsAdmin
  <2>3. s = t
    BY <1>1, <2>2 DEF Chats
  <2>4. chat \in activeChats'
    BY <1>1, ChatsChange DEF ChatsAreKnown
  <2> QED BY <2>2, <2>3, <2>4
<1>2. TypeOK /\ ChatsAreKnown /\ [Next]_vars
        => [\A s \in Sockets, chat \in Chats :
              s \notin members[Official] /\ s \in members'[Official] /\ members[chat] # {}
                => s \in members'[chat]]_vars
  BY <1>1
<1> QED
  BY TalkableInit, TalkableTypes, KnownStart, KnownStays, <1>2, PTL DEF Spec, AdminsAreHeard

=============================================================================
