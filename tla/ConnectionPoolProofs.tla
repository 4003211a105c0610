------------------------- MODULE ConnectionPoolProofs -------------------------
(***************************************************************************)
(* Whatever the number of connections and calls, no call runs inside the   *)
(* transaction of another, the lost connections are the kept ones, and a   *)
(* pool that is large enough never jams.                                   *)
(***************************************************************************)
EXTENDS ConnectionPool, FiniteSetTheorems, SequenceTheorems, TLAPS

\* What a call has to do fits what it holds: it begins at most once, before
\* anything else, releases last, and without a transaction it only queries
\* repositories.
InOrder(call) ==
  /\ \A i \in DOMAIN call.todo : call.todo[i] = "begin" => i = 1 /\ call.own = None
  /\ \A i \in DOMAIN call.todo : call.todo[i] = "release" => Len(call.todo) = 1
  /\ call.own = None => \/ call.todo # <<>> /\ call.todo[1] = "begin"
                        \/ \A i \in DOMAIN call.todo : call.todo[i] = "pool"
  /\ call.own = call.other => call.own = None

IInv == TypeOK /\ NoForeignTransaction /\ \A c \in Calls : InOrder(calls[c])

-----------------------------------------------------------------------------
(* The courses of the methods *)

Course == [todo : Seq(Steps), releases : BOOLEAN]

StartsWell(course) ==
  /\ course \in Course
  /\ \A i \in DOMAIN course.todo : course.todo[i] = "begin" => i = 1
  /\ \A i \in DOMAIN course.todo : course.todo[i] # "release"
  /\ \/ course.todo # <<>> /\ course.todo[1] = "begin"
     \/ \A i \in DOMAIN course.todo : course.todo[i] = "pool"

LEMMA TransactionStartsWell ==
  ASSUME NEW steps \in Seq(QuerySteps), NEW releases \in BOOLEAN
  PROVE  StartsWell(Transaction(steps, releases))
<1> DEFINE todo == <<"begin">> \o steps \o <<"commit">>
<1>1. /\ todo \in Seq(Steps) /\ Len(todo) = Len(steps) + 2
      /\ todo[1] = "begin"
  BY DEF Steps, QuerySteps
<1>2. ASSUME NEW i \in 1..Len(todo), i # 1
      PROVE  todo[i] # "begin" /\ todo[i] # "release"
  <2>1. CASE i = Len(todo)
    BY <1>1, <2>1, <1>2
  <2>2. CASE i # Len(todo)
    <3>1. i - 1 \in 1..Len(steps) /\ todo[i] = steps[i - 1]
      BY <1>1, <1>2, <2>2
    <3> QED BY <3>1 DEF QuerySteps
  <2> QED BY <2>1, <2>2
<1> QED BY <1>1, <1>2 DEF StartsWell, Course, Transaction

LEMMA MethodsStartWell ==
  \A course \in Releasing \cup Keeping : StartsWell(course)
<1>1. <<"read", "write">> \in Seq(QuerySteps) /\ <<"pool", "read", "write">> \in Seq(QuerySteps)
  BY DEF QuerySteps
<1>2. ASSUME NEW ids \in GenerateUniqueID
      PROVE  <<"read">> \o ids \o <<"write">> \in Seq(QuerySteps)
  <2>1. PICK n \in 1..MaxTries : ids = [i \in 1..n |-> "pool"]
    BY <1>2 DEF GenerateUniqueID
  <2>2. ids \in Seq(QuerySteps)
    BY <2>1, PoolAssumption DEF QuerySteps
  <2> QED BY <2>2 DEF QuerySteps
<1>3. StartsWell([todo |-> <<"pool">>, releases |-> TRUE])
  BY DEF StartsWell, Course, Steps, QuerySteps
<1> QED
  BY <1>1, <1>2, <1>3, TransactionStartsWell
  DEF Releasing, Keeping, CheckedThenSaved, CreateAccount, CreateRoom, AddParticipantsToRoom, RepositoryQuery,
      CreateAidService, UpdateAidService, UpdateUserAidService, UpdateUser, RequestAidService

-----------------------------------------------------------------------------
(* One call goes a step further *)

CallRecord == [todo : Seq(Steps), releases : BOOLEAN,
               own : MaybeConnection, other : MaybeConnection]

HeldBy(call) == {call.own, call.other} \ {None}

AtRelease(call) == call.todo # <<>> /\ Head(call.todo) = "release"

\* The call that changes keeps clear of the pool and of the other calls, and
\* ends what it drops: then the invariant survives.
LEMMA OneCallChanges ==
  ASSUME IInv, NEW c \in Calls, NEW call \in CallRecord,
         calls' = [calls EXCEPT ![c] = call], InOrder(call),
         free' \subseteq Connections, begun' \subseteq Connections,
         queue' \in Seq(Calls), kept' \in Nat,
         HeldBy(call) \cap free' = {},
         \A d \in Calls \ {c} : Holds(d) \cap (free' \cup HeldBy(call)) = {},
         \A conn \in begun' : \/ call.own = conn /\ ~AtRelease(call)
                              \/ conn \in begun /\ calls[c].own # conn
  PROVE  IInv'
<1>1. calls'[c] = call /\ \A d \in Calls \ {c} : calls'[d] = calls[d]
  BY DEF IInv, TypeOK
<1>2. Holds(c)' = HeldBy(call) /\ \A d \in Calls \ {c} : Holds(d)' = Holds(d)
  BY <1>1 DEF Holds, HeldBy
<1>3. TypeOK'
  BY DEF IInv, TypeOK, CallRecord
<1>4. NoForeignTransaction'
  <2>1. \A d \in Calls : Holds(d)' \cap free' = {}
    BY <1>2
  <2>2. \A d, e \in Calls : d # e => Holds(d)' \cap Holds(e)' = {}
    BY <1>2 DEF IInv, NoForeignTransaction
  <2>3. ASSUME NEW conn \in begun'
        PROVE  \E d \in Calls : calls'[d].own = conn /\ ~NextIs(d, {"release"})'
    <3>1. CASE call.own = conn /\ ~AtRelease(call)
      BY <1>1, <3>1 DEF NextIs, AtRelease
    <3>2. CASE conn \in begun /\ calls[c].own # conn
      <4>1. PICK d \in Calls : calls[d].own = conn /\ ~NextIs(d, {"release"})
        BY <3>2 DEF IInv, NoForeignTransaction
      <4> QED BY <1>1, <3>2, <4>1 DEF NextIs
    <3> QED BY <2>3, <3>1, <3>2
  <2> QED BY <2>1, <2>2, <2>3 DEF NoForeignTransaction
<1>5. \A d \in Calls : InOrder(calls'[d])
  BY <1>1 DEF IInv
<1> QED BY <1>3, <1>4, <1>5 DEF IInv

\* Doing a step leaves a call in order, if the step is not a begin or the call
\* now has a connection of its own.
LEMMA GoesOn ==
  ASSUME NEW call \in CallRecord, call.todo # <<>>,
         \A i \in DOMAIN call.todo : call.todo[i] = "begin" => i = 1,
         \A i \in DOMAIN call.todo : call.todo[i] = "release" => Len(call.todo) = 1,
         \/ call.own # None
         \/ \A i \in DOMAIN call.todo : call.todo[i] = "pool",
         call.own = call.other => call.own = None
  PROVE  /\ [call EXCEPT !.todo = Tail(@)] \in CallRecord
         /\ InOrder([call EXCEPT !.todo = Tail(@)])
         /\ ~AtRelease([call EXCEPT !.todo = Tail(@)])
<1> DEFINE rest == Tail(call.todo)
<1>1. /\ rest \in Seq(Steps)
      /\ \A i \in DOMAIN rest : i + 1 \in DOMAIN call.todo /\ rest[i] = call.todo[i + 1]
                                   /\ i + 1 # 1 /\ Len(call.todo) # 1
  BY DEF CallRecord
<1> QED BY <1>1 DEF CallRecord, InOrder, AtRelease

LEMMA AdvanceDoes ==
  ASSUME NEW c \in Calls, NEW call, NEW others \in Seq(Calls), Advance(c, call, others)
  PROVE  /\ calls' = [calls EXCEPT ![c] = [call EXCEPT !.todo = Tail(@)]]
         /\ queue' \in Seq(Calls)
  BY DEF Advance

-----------------------------------------------------------------------------
(* The steps *)

\* What the invariant says of one call.
LEMMA CallFacts ==
  ASSUME IInv, NEW c \in Calls
  PROVE  /\ calls[c] \in CallRecord /\ InOrder(calls[c])
         /\ Holds(c) \subseteq Connections \ free
         /\ \A d \in Calls \ {c} : Holds(d) \cap (free \cup Holds(c)) = {}
<1>1. calls[c] \in CallRecord /\ InOrder(calls[c])
  BY DEF IInv, TypeOK, CallRecord
<1>2. Holds(c) \subseteq Connections \ free
  BY <1>1 DEF IInv, NoForeignTransaction, Holds, CallRecord, MaybeConnection
<1>3. \A d \in Calls \ {c} : Holds(d) \cap (free \cup Holds(c)) = {}
  BY DEF IInv, NoForeignTransaction
<1> QED BY <1>1, <1>2, <1>3

\* The call whose connection has a transaction open is still to end it.
LEMMA OpenTransaction ==
  ASSUME IInv, NEW c \in Calls, calls[c].own \in begun
  PROVE  ~NextIs(c, {"release"})
<1>1. PICK d \in Calls : calls[d].own = calls[c].own /\ ~NextIs(d, {"release"})
  BY DEF IInv, NoForeignTransaction
<1>2. calls[c].own # None
  BY PoolAssumption DEF IInv, TypeOK
<1>3. c = d
  BY <1>1, <1>2 DEF IInv, NoForeignTransaction, Holds
<1> QED BY <1>1, <1>3

LEMMA StartKeeps ==
  ASSUME IInv, NEW c \in Calls, Start(c)
  PROVE  IInv'
<1>1. PICK courses \in {Releasing, Keeping} : Call(c, courses)
  BY DEF Start
<1>2. PICK course \in courses :
        calls' = [calls EXCEPT ![c] = [Idle EXCEPT !.todo = course.todo,
                                                   !.releases = course.releases]]
  BY <1>1 DEF Call
<1> DEFINE call == [Idle EXCEPT !.todo = course.todo, !.releases = course.releases]
<1>3. StartsWell(course)
  BY MethodsStartWell
<1>4. call \in CallRecord /\ InOrder(call) /\ HeldBy(call) = {}
  BY <1>3 DEF StartsWell, Course, CallRecord, InOrder, HeldBy, Idle, MaybeConnection
<1>5. /\ free' = free /\ begun' = begun /\ queue' \in Seq(Calls) /\ kept' \in Nat
      /\ calls[c].own = None
  <2>1. free' = free /\ begun' = begun /\ queue' = Append(queue, c) /\ calls[c] = Idle
    BY <1>1 DEF Call
  <2>2. kept' \in Nat
    BY DEF Start, IInv, TypeOK
  <2> QED BY <2>1, <2>2 DEF IInv, TypeOK, Idle
<1>6. None \notin begun
  BY PoolAssumption DEF IInv, TypeOK
<1> QED
  <2> HIDE DEF call
  <2>1. calls' = [calls EXCEPT ![c] = call]
    BY <1>2 DEF call
  <2>2. free' \subseteq Connections /\ begun' \subseteq Connections
    BY <1>5 DEF IInv, TypeOK
  <2>3. \A d \in Calls \ {c} : Holds(d) \cap (free' \cup HeldBy(call)) = {}
    BY <1>4, <1>5, CallFacts
  <2> QED BY <1>4, <1>5, <1>6, <2>1, <2>2, <2>3, OneCallChanges

LEMMA ConnectKeeps ==
  ASSUME IInv, NEW conn \in Connections, Connect(conn)
  PROVE  IInv'
<1> DEFINE c == Head(queue)
<1>1. /\ c \in Calls /\ conn \in free /\ Tail(queue) \in Seq(Calls)
      /\ free' = free \ {conn} /\ kept' \in Nat /\ free' \subseteq Connections
      /\ conn # None
  BY PoolAssumption DEF Connect, IInv, TypeOK
<1> HIDE DEF c
<1>2. /\ calls[c] \in CallRecord /\ InOrder(calls[c]) /\ Holds(c) \cap free = {}
      /\ \A d \in Calls \ {c} : Holds(d) \cap (free \cup Holds(c)) = {}
  BY <1>1, CallFacts
<1>3. CASE NextIs(c, {"begin"})
  <2> DEFINE call == [[calls[c] EXCEPT !.own = conn] EXCEPT !.todo = Tail(@)]
  <2>1. Advance(c, [calls[c] EXCEPT !.own = conn], Tail(queue)) /\ begun' = begun \cup {conn}
    BY <1>3 DEF Connect, c
  <2>2. calls' = [calls EXCEPT ![c] = call] /\ queue' \in Seq(Calls)
    BY <1>1, <2>1, AdvanceDoes
  <2>3. calls[c].own = None /\ calls[c].todo # <<>> /\ calls[c].other # conn
    BY <1>1, <1>2, <1>3 DEF InOrder, NextIs, CallRecord, Holds
  <2>4. call \in CallRecord /\ InOrder(call) /\ ~AtRelease(call)
    <3> DEFINE now == [calls[c] EXCEPT !.own = conn]
    <3>1. /\ now \in CallRecord /\ now.todo = calls[c].todo
          /\ now.own = conn /\ now.other = calls[c].other
      BY <1>2 DEF CallRecord, MaybeConnection
    <3> HIDE DEF now
    <3>2. /\ [now EXCEPT !.todo = Tail(@)] \in CallRecord
          /\ InOrder([now EXCEPT !.todo = Tail(@)])
          /\ ~AtRelease([now EXCEPT !.todo = Tail(@)])
      BY <1>1, <1>2, <2>3, <3>1, GoesOn DEF InOrder
    <3> QED BY <3>2 DEF now
  <2>5. HeldBy(call) \subseteq Holds(c) \cup {conn} /\ call.own = conn
    BY <1>2 DEF HeldBy, Holds, CallRecord
  <2> HIDE DEF call
  <2>6. HeldBy(call) \cap free' = {}
    BY <1>1, <1>2, <2>5
  <2>7. \A d \in Calls \ {c} : Holds(d) \cap (free' \cup HeldBy(call)) = {}
    BY <1>1, <1>2, <2>5
  <2>8. \A k \in begun' : call.own = k \/ (k \in begun /\ calls[c].own # k)
    BY <2>1, <2>3, <2>5, PoolAssumption DEF IInv, TypeOK
  <2>9. begun' \subseteq Connections
    BY <2>1 DEF IInv, TypeOK
  <2> QED BY <1>1, <2>2, <2>4, <2>6, <2>7, <2>8, <2>9, OneCallChanges
<1>4. CASE ~NextIs(c, {"begin"})
  <2> DEFINE call == [calls[c] EXCEPT !.other = conn]
  <2>1. calls' = [calls EXCEPT ![c] = call] /\ queue' = Tail(queue) /\ begun' = begun
    BY <1>4 DEF Connect, c
  <2>2. /\ call \in CallRecord /\ call.todo = calls[c].todo
        /\ call.own = calls[c].own /\ call.other = conn
    BY <1>2 DEF CallRecord, MaybeConnection
  <2> HIDE DEF call
  <2>3. InOrder(call)
    BY <1>1, <1>2, <2>2 DEF InOrder, Holds
  <2>4. HeldBy(call) \subseteq Holds(c) \cup {conn}
    BY <2>2 DEF HeldBy, Holds
  <2>5. HeldBy(call) \cap free' = {}
    BY <1>1, <1>2, <2>4
  <2>6. \A d \in Calls \ {c} : Holds(d) \cap (free' \cup HeldBy(call)) = {}
    BY <1>1, <1>2, <2>4
  <2>7. \A k \in begun' : \/ call.own = k /\ ~AtRelease(call)
                          \/ k \in begun /\ calls[c].own # k
    BY <1>1, <2>1, <2>2, OpenTransaction DEF NextIs, AtRelease
  <2>8. begun' \subseteq Connections
    BY <2>1 DEF IInv, TypeOK
  <2> QED BY <1>1, <2>1, <2>2, <2>3, <2>5, <2>6, <2>7, <2>8, OneCallChanges
<1> QED BY <1>3, <1>4

\* A query that succeeds: on to the next step, with what the call holds.
LEMMA QueryKeeps ==
  ASSUME IInv, NEW c \in Calls, Read(c) \/ Write(c)
  PROVE  IInv'
<1> DEFINE call == [calls[c] EXCEPT !.todo = Tail(@)]
<1>1. /\ NextIs(c, {"read", "write"}) /\ Advance(c, calls[c], queue)
      /\ free' = free /\ begun' = begun /\ kept' = kept
  <2>1. CASE Read(c)
    BY <2>1 DEF Read, NextIs
  <2>2. CASE Write(c)
    BY <2>2 DEF Write, NextIs
  <2> QED BY <2>1, <2>2
<1>2. calls' = [calls EXCEPT ![c] = call] /\ queue' \in Seq(Calls)
  <2>1. queue \in Seq(Calls)
    BY DEF IInv, TypeOK
  <2> QED BY <1>1, <2>1, AdvanceDoes
<1>3. /\ calls[c] \in CallRecord /\ InOrder(calls[c]) /\ calls[c].todo # <<>>
      /\ calls[c].todo[1] \in {"read", "write"} /\ 1 \in DOMAIN calls[c].todo
  <2>1. calls[c] \in CallRecord /\ InOrder(calls[c])
    BY CallFacts
  <2>2. calls[c].todo # <<>> /\ Head(calls[c].todo) \in {"read", "write"}
    BY <1>1 DEF NextIs
  <2> QED BY <2>1, <2>2 DEF CallRecord
<1>4. call \in CallRecord /\ InOrder(call) /\ ~AtRelease(call)
  BY <1>3, GoesOn DEF InOrder
<1>5. call.own = calls[c].own /\ HeldBy(call) = Holds(c)
  BY <1>3 DEF HeldBy, Holds, CallRecord
<1> HIDE DEF call
<1>6. free' \subseteq Connections /\ begun' \subseteq Connections /\ kept' \in Nat
  BY <1>1 DEF IInv, TypeOK
<1>7. /\ HeldBy(call) \cap free' = {}
      /\ \A d \in Calls \ {c} : Holds(d) \cap (free' \cup HeldBy(call)) = {}
  BY <1>1, <1>5, CallFacts
<1> QED BY <1>1, <1>2, <1>4, <1>5, <1>6, <1>7, OneCallChanges

LEMMA PoolQueryKeeps ==
  ASSUME IInv, NEW c \in Calls, PoolQuery(c)
  PROVE  IInv'
<1> DEFINE now  == [calls[c] EXCEPT !.other = None]
           call == [now EXCEPT !.todo = Tail(@)]
<1>1. /\ NextIs(c, {"pool"}) /\ Advance(c, now, queue) /\ calls[c].other # None
      /\ free' = free \cup {calls[c].other} /\ begun' = begun /\ kept' = kept
  BY DEF PoolQuery
<1>2. /\ calls[c] \in CallRecord /\ InOrder(calls[c]) /\ calls[c].todo # <<>>
      /\ calls[c].todo[1] = "pool" /\ 1 \in DOMAIN calls[c].todo
  BY <1>1, CallFacts DEF NextIs, CallRecord
<1>3. /\ now \in CallRecord /\ now.todo = calls[c].todo
      /\ now.own = calls[c].own /\ now.other = None
  BY <1>2 DEF CallRecord, MaybeConnection
<1> HIDE DEF now
<1>4. calls' = [calls EXCEPT ![c] = call] /\ queue' \in Seq(Calls)
  BY <1>1, AdvanceDoes DEF IInv, TypeOK
<1>5. call \in CallRecord /\ InOrder(call) /\ ~AtRelease(call)
  BY <1>2, <1>3, GoesOn DEF InOrder
<1>6. call.own = calls[c].own /\ HeldBy(call) = {calls[c].own} \ {None}
  BY <1>3 DEF HeldBy, CallRecord
<1> HIDE DEF call
<1>7. /\ HeldBy(call) \subseteq Holds(c) /\ calls[c].other \in Holds(c)
      /\ calls[c].other \notin HeldBy(call)
  BY <1>1, <1>2, <1>6 DEF Holds, InOrder
<1>8. free' \subseteq Connections /\ begun' \subseteq Connections /\ kept' \in Nat
  BY <1>1, <1>7, CallFacts DEF IInv, TypeOK
<1>9. /\ HeldBy(call) \cap free' = {}
      /\ \A d \in Calls \ {c} : Holds(d) \cap (free' \cup HeldBy(call)) = {}
  BY <1>1, <1>7, CallFacts
<1> QED BY <1>1, <1>4, <1>5, <1>6, <1>8, <1>9, OneCallChanges

\* Commit and rollback.
LEMMA EndKeeps ==
  ASSUME IInv, NEW c \in Calls, calls[c].own # None, EndTransaction(c)
  PROVE  IInv'
<1> DEFINE call == [calls[c] EXCEPT !.todo = <<"release">>, !.other = None]
<1>1. /\ begun' = begun \ {calls[c].own} /\ queue' = queue /\ kept' = kept
      /\ free' = free \cup ({calls[c].other} \ {None})
  BY DEF EndTransaction
<1>2. calls[c] \in CallRecord /\ InOrder(calls[c])
  BY CallFacts
<1>3. calls' = [calls EXCEPT ![c] = call]
  BY DEF EndTransaction, IInv, TypeOK
<1>4. call \in CallRecord /\ call.todo = <<"release">> /\ call.own = calls[c].own
      /\ call.other = None
  <2>1. <<"release">> \in Seq(Steps)
    BY DEF Steps
  <2> QED BY <1>2, <2>1 DEF CallRecord, MaybeConnection
<1> HIDE DEF call
<1>5. InOrder(call) /\ HeldBy(call) = {calls[c].own}
  <2>1. DOMAIN call.todo = {1} /\ call.todo[1] = "release" /\ Len(call.todo) = 1
    BY <1>4
  <2> QED BY <1>4, <2>1 DEF InOrder, HeldBy
<1>6. /\ HeldBy(call) \subseteq Holds(c) /\ {calls[c].other} \ {None} \subseteq Holds(c)
      /\ calls[c].other \notin HeldBy(call)
  BY <1>2, <1>5 DEF Holds, InOrder
<1>7. /\ free' \subseteq Connections /\ begun' \subseteq Connections
      /\ queue' \in Seq(Calls) /\ kept' \in Nat
  BY <1>1, <1>6, CallFacts DEF IInv, TypeOK
<1>8. /\ HeldBy(call) \cap free' = {}
      /\ \A d \in Calls \ {c} : Holds(d) \cap (free' \cup HeldBy(call)) = {}
  BY <1>1, <1>6, CallFacts
<1> QED BY <1>1, <1>3, <1>4, <1>5, <1>7, <1>8, OneCallChanges

LEMMA ReleaseKeeps ==
  ASSUME IInv, NEW c \in Calls, Release(c)
  PROVE  IInv'
<1>1. /\ NextIs(c, {"release"}) /\ calls' = [calls EXCEPT ![c] = Idle]
      /\ free' \subseteq free \cup {calls[c].own}
      /\ begun' = begun /\ queue' = queue /\ kept' = kept
  BY DEF Release
<1>2. /\ calls[c] \in CallRecord /\ InOrder(calls[c]) /\ calls[c].todo # <<>>
      /\ calls[c].todo[1] = "release" /\ 1 \in DOMAIN calls[c].todo
  BY <1>1, CallFacts DEF NextIs, CallRecord
<1>3. calls[c].own # None /\ calls[c].own \notin begun
  BY <1>1, <1>2, OpenTransaction DEF InOrder
<1>4. calls[c].own \in Holds(c)
  BY <1>3 DEF Holds
<1>5. Idle \in CallRecord /\ InOrder(Idle) /\ HeldBy(Idle) = {}
  BY DEF Idle, CallRecord, InOrder, HeldBy, MaybeConnection
<1>6. /\ free' \subseteq Connections /\ begun' \subseteq Connections
      /\ queue' \in Seq(Calls) /\ kept' \in Nat
  BY <1>1, <1>4, CallFacts DEF IInv, TypeOK
<1>7. \A d \in Calls \ {c} : Holds(d) \cap (free' \cup HeldBy(Idle)) = {}
  BY <1>1, <1>4, <1>5, CallFacts
<1> QED BY <1>1, <1>3, <1>5, <1>6, <1>7, OneCallChanges

-----------------------------------------------------------------------------
\* A transaction that cannot begin takes its connection and its call out of sight.
LEMMA BeginFailedKeeps ==
  ASSUME IInv, NEW conn \in Connections, BeginFailed(conn)
  PROVE  IInv'
<1> DEFINE c == Head(queue)
<1>1. /\ c \in Calls /\ Tail(queue) \in Seq(Calls)
      /\ NextIs(c, {"begin"}) /\ calls' = [calls EXCEPT ![c] = Idle]
      /\ free' = free \ {conn} /\ queue' = Tail(queue) /\ begun' = begun
      /\ kept' \in Nat
  BY DEF BeginFailed, IInv, TypeOK
<1> HIDE DEF c
<1>2. calls[c].own = None
  <2>1. /\ InOrder(calls[c]) /\ calls[c].todo[1] = "begin" /\ 1 \in DOMAIN calls[c].todo
    BY <1>1, CallFacts DEF NextIs, CallRecord
  <2> QED BY <2>1 DEF InOrder
<1>3. Idle \in CallRecord /\ InOrder(Idle) /\ HeldBy(Idle) = {}
  BY DEF Idle, CallRecord, InOrder, HeldBy, MaybeConnection
<1>4. /\ free' \subseteq Connections /\ begun' \subseteq Connections
      /\ \A k \in begun' : k # None
  BY <1>1, PoolAssumption DEF IInv, TypeOK
<1>5. \A d \in Calls \ {c} : Holds(d) \cap (free' \cup HeldBy(Idle)) = {}
  BY <1>1, <1>3, CallFacts
<1> QED BY <1>1, <1>2, <1>3, <1>4, <1>5, OneCallChanges

LEMMA Initially == Init => IInv
<1> SUFFICES ASSUME Init PROVE IInv
  OBVIOUS
<1>1. TypeOK
  BY DEF Init, TypeOK, Idle, MaybeConnection
<1>2. NoForeignTransaction
  BY DEF Init, NoForeignTransaction, Holds, Idle
<1>3. \A c \in Calls : InOrder(calls[c])
  BY DEF Init, InOrder, Idle
<1> QED BY <1>1, <1>2, <1>3 DEF IInv

LEMMA Inductive == IInv /\ [Next]_vars => IInv'
<1> SUFFICES ASSUME IInv, [Next]_vars PROVE IInv'
  OBVIOUS
<1>1. ASSUME NEW c \in Calls, Start(c) PROVE IInv'
  BY <1>1, StartKeeps
<1>2. ASSUME NEW c \in Calls, Step(c) PROVE IInv'
  <2>1. CASE PoolQuery(c)
    BY <2>1, PoolQueryKeeps
  <2>2. CASE Read(c) \/ Write(c)
    BY <2>2, QueryKeeps
  <2>3. CASE Commit(c)
    <3>1. calls[c].own # None
      <4>1. /\ InOrder(calls[c]) /\ calls[c].todo # <<>> /\ calls[c].todo[1] = "commit"
            /\ 1 \in DOMAIN calls[c].todo
        BY <2>3, CallFacts DEF Commit, NextIs, CallRecord
      <4> QED BY <4>1 DEF InOrder
    <3> QED BY <2>3, <3>1, EndKeeps DEF Commit
  <2>4. CASE Release(c)
    BY <2>4, ReleaseKeeps
  <2> QED BY <1>2, <2>1, <2>2, <2>3, <2>4 DEF Step
<1>3. ASSUME NEW c \in Calls, HandleFailedQueryRunner(c) PROVE IInv'
  BY <1>3, EndKeeps DEF HandleFailedQueryRunner, CanFail
<1>4. ASSUME NEW conn \in Connections, Connect(conn) PROVE IInv'
  BY <1>4, ConnectKeeps
<1>5. ASSUME NEW conn \in Connections, BeginFailed(conn) PROVE IInv'
  BY <1>5, BeginFailedKeeps
<1>6. CASE UNCHANGED vars
  BY <1>6 DEF vars, IInv, TypeOK, NoForeignTransaction, Holds, NextIs
<1> QED BY <1>1, <1>2, <1>3, <1>4, <1>5, <1>6 DEF Next

\* The pool, its queue and the calls hold what the code keeps in them.
THEOREM PoolTypeCorrect == Spec => []TypeOK
<1>1. IInv => TypeOK
  BY DEF IInv
<1> QED BY <1>1, Initially, Inductive, PTL DEF Spec

\* However many calls share however many connections, and whatever fails, no
\* call runs inside the transaction of another.
THEOREM TransactionsAreApart == Spec => []NoForeignTransaction
<1>1. IInv => NoForeignTransaction
  BY DEF IInv
<1> QED BY <1>1, Initially, Inductive, PTL DEF Spec

-----------------------------------------------------------------------------
(* What a call can count on *)

\* A call without anything to do is idle; a second connection is there for one
\* query; a transaction ends right after it wrote; and whoever has a connection
\* of its own, or will keep one, is still to end a transaction or to release.
EndsInOrder(call) ==
  /\ call.todo = <<>> => call = Idle
  /\ call.other # None => call.todo # <<>> /\ call.todo[1] = "pool"
  /\ \A i \in DOMAIN call.todo :
       call.todo[i] = "commit" => /\ i = Len(call.todo)
                                  /\ i > 1 => call.todo[i - 1] = "write"
  /\ \/ call.todo = <<>> \/ call.todo[Len(call.todo)] \in {"commit", "release"}
     \/ call.own = None /\ call.releases /\ call.todo[1] # "begin"

EndsWell(course) ==
  /\ course.todo # <<>>
  /\ \A i \in DOMAIN course.todo :
       course.todo[i] = "commit" => /\ i = Len(course.todo)
                                    /\ i > 1 => course.todo[i - 1] = "write"
  /\ course.todo[1] = "begin" \/ ~course.releases => course.todo[Len(course.todo)] = "commit"

LEMMA TransactionEndsWell ==
  ASSUME NEW steps \in Seq(QuerySteps), NEW releases \in BOOLEAN,
         steps # <<>>, steps[Len(steps)] = "write"
  PROVE  EndsWell(Transaction(steps, releases))
<1> DEFINE todo == <<"begin">> \o steps \o <<"commit">>
<1>1. /\ todo \in Seq(Steps) /\ Len(todo) = Len(steps) + 2 /\ Len(steps) \in Nat \ {0}
      /\ todo[1] = "begin" /\ todo[Len(todo)] = "commit"
  BY DEF Steps, QuerySteps
<1>2. ASSUME NEW i \in 2..Len(todo) - 1
      PROVE  todo[i] = steps[i - 1]
  BY <1>1
<1>3. ASSUME NEW i \in 2..Len(todo) - 1
      PROVE  todo[i] # "commit"
  <2>1. i - 1 \in 1..Len(steps)
    BY <1>1
  <2> QED BY <1>2, <2>1 DEF QuerySteps
<1>4. todo[Len(todo) - 1] = "write"
  <2>1. Len(todo) - 1 \in 2..Len(todo) - 1 /\ Len(todo) - 1 - 1 = Len(steps)
    BY <1>1
  <2> QED BY <1>2, <2>1
<1> HIDE DEF todo
<1>5. \A i \in DOMAIN todo : todo[i] = "commit" => i = Len(todo)
  BY <1>1, <1>3
<1> QED BY <1>1, <1>4, <1>5 DEF EndsWell, Transaction, todo

LEMMA MethodsEndWell ==
  \A course \in Releasing \cup Keeping : EndsWell(course)
<1>1. <<"read", "write">> \in Seq(QuerySteps) /\ <<"pool", "read", "write">> \in Seq(QuerySteps)
  BY DEF QuerySteps
<1>2. ASSUME NEW ids \in GenerateUniqueID
      PROVE  LET steps == <<"read">> \o ids \o <<"write">>
             IN  /\ steps \in Seq(QuerySteps) /\ steps # <<>>
                 /\ steps[Len(steps)] = "write"
  <2>1. PICK n \in 1..MaxTries : ids = [i \in 1..n |-> "pool"]
    BY <1>2 DEF GenerateUniqueID
  <2>2. ids \in Seq(QuerySteps)
    BY <2>1, PoolAssumption DEF QuerySteps
  <2> QED BY <2>2 DEF QuerySteps
<1>3. EndsWell([todo |-> <<"pool">>, releases |-> TRUE])
  BY DEF EndsWell
<1> QED
  BY <1>1, <1>2, <1>3, TransactionEndsWell
  DEF Releasing, Keeping, CheckedThenSaved, CreateAccount, CreateRoom, AddParticipantsToRoom, RepositoryQuery,
      CreateAidService, UpdateAidService, UpdateUserAidService, UpdateUser, RequestAidService

\* Doing a step that ends nothing leaves a call in that order.
LEMMA EndsAfterStep ==
  ASSUME NEW call \in CallRecord, call.todo # <<>>, call.other = None,
         EndsInOrder(call), call.todo[1] \notin {"commit", "release"},
         call.own = None => \A i \in DOMAIN call.todo : call.todo[i] = "pool"
  PROVE  EndsInOrder([call EXCEPT !.todo = Tail(@)])
<1> DEFINE rest == Tail(call.todo)
           next == [call EXCEPT !.todo = Tail(@)]
<1>1. /\ rest \in Seq(Steps) /\ Len(rest) = Len(call.todo) - 1 /\ Len(call.todo) \in Nat \ {0}
      /\ \A i \in DOMAIN rest : i + 1 \in DOMAIN call.todo /\ rest[i] = call.todo[i + 1]
      /\ rest = <<>> <=> Len(call.todo) = 1
  <2>1. call.todo \in Seq(Steps) /\ Len(call.todo) \in Nat \ {0}
    BY DEF CallRecord
  <2>2. /\ rest \in Seq(Steps) /\ Len(rest) = Len(call.todo) - 1
        /\ \A i \in DOMAIN rest : i + 1 \in DOMAIN call.todo /\ rest[i] = call.todo[i + 1]
    BY <2>1
  <2>3. rest = <<>> <=> Len(rest) = 0
    BY <2>2, EmptySeq
  <2> QED BY <2>1, <2>2, <2>3
<1>2. /\ next.todo = rest /\ next.own = call.own /\ next.other = None
      /\ next.releases = call.releases
      /\ next = [todo |-> rest, releases |-> call.releases, own |-> call.own, other |-> None]
  BY DEF CallRecord
<1> HIDE DEF rest, next
<1>3. \/ call.todo[Len(call.todo)] \in {"commit", "release"}
      \/ /\ call.own = None /\ call.releases
         /\ \A i \in DOMAIN call.todo : call.todo[i] = "pool"
  BY DEF EndsInOrder
<1>4. rest = <<>> => call.own = None /\ call.releases
  BY <1>1, <1>3
<1>5. rest = <<>> => next = Idle
  BY <1>2, <1>4 DEF Idle
<1>6. ASSUME NEW i \in DOMAIN rest, rest[i] = "commit"
      PROVE  i = Len(rest) /\ (i > 1 => rest[i - 1] = "write")
  <2>1. /\ i + 1 \in DOMAIN call.todo /\ call.todo[i + 1] = "commit" /\ i \in Nat \ {0}
        /\ DOMAIN rest = 1..Len(rest)
    BY <1>1, <1>6
  <2>2. i + 1 = Len(call.todo) /\ call.todo[i] = "write"
    BY <2>1 DEF EndsInOrder
  <2>3. i > 1 => i - 1 \in DOMAIN rest
    BY <1>1, <2>1
  <2>4. i > 1 => rest[i - 1] = call.todo[i]
    BY <1>1, <2>1, <2>3
  <2> QED BY <1>1, <2>1, <2>2, <2>4
<1>7. \/ rest = <<>> \/ rest[Len(rest)] \in {"commit", "release"}
      \/ next.own = None /\ next.releases /\ rest[1] # "begin"
  <2> SUFFICES ASSUME rest # <<>>
      PROVE  \/ rest[Len(rest)] \in {"commit", "release"}
             \/ next.own = None /\ next.releases /\ rest[1] # "begin"
    OBVIOUS
  <2>1. Len(rest) \in DOMAIN rest /\ 1 \in DOMAIN rest
    BY <1>1
  <2>2. rest[Len(rest)] = call.todo[Len(call.todo)] /\ 2 \in DOMAIN call.todo /\ rest[1] = call.todo[2]
    BY <1>1, <2>1
  <2> QED BY <1>2, <1>3, <2>2
<1>8. EndsInOrder(next)
  BY <1>2, <1>5, <1>6, <1>7 DEF EndsInOrder
<1> QED BY <1>8 DEF next

AllEndInOrder == \A c \in Calls : EndsInOrder(calls[c])

\* The pool's queue is who waits for a connection, each of them once.
QueueIsTheWaiters ==
  /\ {queue[i] : i \in DOMAIN queue} = {c \in Calls : Waits(c)}
  /\ \A i, j \in DOMAIN queue : queue[i] = queue[j] => i = j

\* What the orders say of one call.
LEMMA EndFacts ==
  ASSUME IInv, AllEndInOrder, NEW c \in Calls
  PROVE  /\ calls[c] \in CallRecord /\ InOrder(calls[c]) /\ EndsInOrder(calls[c])
         /\ calls[c].todo # <<>> => /\ 1 \in DOMAIN calls[c].todo
                                    /\ Head(calls[c].todo) = calls[c].todo[1]
         /\ calls[c].todo = <<>> => calls[c] = Idle
<1>1. calls[c] \in CallRecord /\ InOrder(calls[c])
  BY CallFacts
<1>2. calls[c].todo # <<>> => Len(calls[c].todo) \in Nat \ {0}
  BY <1>1, EmptySeq DEF CallRecord
<1> QED BY <1>1, <1>2 DEF AllEndInOrder, CallRecord, EndsInOrder

\* Only one call changes in a step; what it becomes.
LEMMA EndsKept ==
  ASSUME IInv, AllEndInOrder, NEW c \in Calls, NEW call, EndsInOrder(call),
         calls' = [calls EXCEPT ![c] = call]
  PROVE  AllEndInOrder'
  BY DEF AllEndInOrder, IInv, TypeOK

LEMMA StartEnds ==
  ASSUME IInv, AllEndInOrder, NEW c \in Calls, Start(c)
  PROVE  AllEndInOrder'
<1>1. PICK courses \in {Releasing, Keeping} : Call(c, courses)
  BY DEF Start
<1>2. PICK course \in courses :
        calls' = [calls EXCEPT ![c] = [Idle EXCEPT !.todo = course.todo,
                                                   !.releases = course.releases]]
  BY <1>1 DEF Call
<1> DEFINE call == [Idle EXCEPT !.todo = course.todo, !.releases = course.releases]
<1>3. StartsWell(course) /\ EndsWell(course)
  BY MethodsStartWell, MethodsEndWell
<1>4. /\ call.todo = course.todo /\ call.releases = course.releases
      /\ call.own = None /\ call.other = None
  BY DEF Idle
<1> HIDE DEF call
<1>5. course.releases \in BOOLEAN
  BY <1>3 DEF StartsWell, Course
<1>6. EndsInOrder(call)
  BY <1>3, <1>4, <1>5 DEF EndsInOrder, EndsWell
<1> QED BY <1>2, <1>6, EndsKept DEF call

LEMMA ConnectEnds ==
  ASSUME IInv, AllEndInOrder, QueueIsTheWaiters, NEW conn \in Connections, Connect(conn)
  PROVE  AllEndInOrder'
<1> DEFINE c == Head(queue)
<1>1. c \in Calls /\ Waits(c) /\ conn # None
  <2>1. /\ queue \in Seq(Calls) /\ queue # <<>> /\ conn # None
    BY PoolAssumption DEF Connect, IInv, TypeOK
  <2>2. 1 \in DOMAIN queue /\ c = queue[1]
    BY <2>1, EmptySeq
  <2> QED BY <2>1, <2>2 DEF QueueIsTheWaiters
<1> HIDE DEF c
<1>2. /\ calls[c] \in CallRecord /\ InOrder(calls[c]) /\ EndsInOrder(calls[c])
      /\ calls[c].todo # <<>> /\ Head(calls[c].todo) = calls[c].todo[1]
  BY <1>1, EndFacts DEF Waits, NextIs
<1>3. ASSUME NextIs(c, {"begin"})
      PROVE  AllEndInOrder'
  <2> DEFINE now == [calls[c] EXCEPT !.own = conn]
  <2>1. calls' = [calls EXCEPT ![c] = [now EXCEPT !.todo = Tail(@)]]
    BY <1>3 DEF Connect, Advance, c
  <2>2. /\ now \in CallRecord /\ now.todo = calls[c].todo /\ now.own = conn
        /\ now.other = calls[c].other /\ now.releases = calls[c].releases
    BY <1>2 DEF CallRecord, MaybeConnection
  <2> HIDE DEF now
  <2>3. calls[c].todo[1] = "begin" /\ calls[c].other = None /\ calls[c] # Idle
    BY <1>2, <1>3 DEF NextIs, EndsInOrder, Idle
  <2>4. EndsInOrder(now)
    BY <1>1, <1>2, <2>2, <2>3 DEF EndsInOrder
  <2>5. EndsInOrder([now EXCEPT !.todo = Tail(@)])
    BY <1>1, <1>2, <2>2, <2>3, <2>4, EndsAfterStep
  <2> QED BY <1>1, <2>1, <2>5, EndsKept
<1>4. ASSUME ~NextIs(c, {"begin"})
      PROVE  AllEndInOrder'
  <2> DEFINE now == [calls[c] EXCEPT !.other = conn]
  <2>1. calls' = [calls EXCEPT ![c] = now]
    BY <1>4 DEF Connect, c
  <2>2. /\ now.todo = calls[c].todo /\ now.own = calls[c].own
        /\ now.other = conn /\ now.releases = calls[c].releases
    BY <1>2 DEF CallRecord
  <2> HIDE DEF now
  <2>3. calls[c].todo[1] = "pool"
    BY <1>1, <1>2, <1>4 DEF Waits, NextIs
  <2>4. EndsInOrder(now)
    BY <1>2, <2>2, <2>3 DEF EndsInOrder
  <2> QED BY <1>1, <2>1, <2>4, EndsKept
<1> QED BY <1>3, <1>4

LEMMA PoolQueryEnds ==
  ASSUME IInv, AllEndInOrder, NEW c \in Calls, PoolQuery(c)
  PROVE  AllEndInOrder'
<1> DEFINE now  == [calls[c] EXCEPT !.other = None]
<1>1. /\ NextIs(c, {"pool"})
      /\ calls' = [calls EXCEPT ![c] = [now EXCEPT !.todo = Tail(@)]]
  BY DEF PoolQuery, Advance
<1>2. /\ calls[c] \in CallRecord /\ InOrder(calls[c]) /\ EndsInOrder(calls[c])
      /\ calls[c].todo # <<>> /\ calls[c].todo[1] = "pool"
  BY <1>1, EndFacts DEF NextIs
<1>3. /\ now \in CallRecord /\ now.todo = calls[c].todo /\ now.own = calls[c].own
      /\ now.other = None /\ now.releases = calls[c].releases
  BY <1>2 DEF CallRecord, MaybeConnection
<1> HIDE DEF now
<1>4. EndsInOrder(now) /\ (now.own = None => \A i \in DOMAIN now.todo : now.todo[i] = "pool")
  BY <1>2, <1>3 DEF EndsInOrder, InOrder
<1>5. EndsInOrder([now EXCEPT !.todo = Tail(@)])
  BY <1>2, <1>3, <1>4, EndsAfterStep
<1> QED BY <1>1, <1>5, EndsKept

LEMMA QueryEnds ==
  ASSUME IInv, AllEndInOrder, NEW c \in Calls, Read(c) \/ Write(c)
  PROVE  AllEndInOrder'
<1>1. /\ NextIs(c, {"read", "write"})
      /\ calls' = [calls EXCEPT ![c] = [calls[c] EXCEPT !.todo = Tail(@)]]
  <2>1. CASE Read(c)
    BY <2>1 DEF Read, Advance, NextIs
  <2>2. CASE Write(c)
    BY <2>2 DEF Write, Advance, NextIs
  <2> QED BY <2>1, <2>2
<1>2. /\ calls[c] \in CallRecord /\ InOrder(calls[c]) /\ EndsInOrder(calls[c])
      /\ calls[c].todo # <<>> /\ calls[c].todo[1] \in {"read", "write"}
      /\ 1 \in DOMAIN calls[c].todo
  BY <1>1, EndFacts DEF NextIs
<1>3. calls[c].other = None /\ calls[c].own # None
  BY <1>2 DEF EndsInOrder, InOrder
<1>4. EndsInOrder([calls[c] EXCEPT !.todo = Tail(@)])
  BY <1>2, <1>3, EndsAfterStep
<1> QED BY <1>1, <1>4, EndsKept

LEMMA EndTransactionEnds ==
  ASSUME IInv, AllEndInOrder, NEW c \in Calls, EndTransaction(c)
  PROVE  AllEndInOrder'
<1> DEFINE call == [calls[c] EXCEPT !.todo = <<"release">>, !.other = None]
<1>1. calls' = [calls EXCEPT ![c] = call]
  BY DEF EndTransaction, IInv, TypeOK
<1>2. call.todo = <<"release">> /\ call.other = None
  BY CallFacts DEF CallRecord
<1> HIDE DEF call
<1>3. EndsInOrder(call)
  BY <1>2 DEF EndsInOrder
<1> QED BY <1>1, <1>3, EndsKept

-----------------------------------------------------------------------------
(* The queue *)

Members(q) == {q[i] : i \in DOMAIN q}
Once(q)    == \A i, j \in DOMAIN q : q[i] = q[j] => i = j

WaitsIn(call) ==
  \/ call.todo # <<>> /\ Head(call.todo) \in {"begin"}
  \/ (call.todo # <<>> /\ Head(call.todo) \in {"pool"}) /\ call.other = None

LEMMA JoinTheQueue ==
  ASSUME NEW q \in Seq(Calls), NEW c \in Calls, Once(q), c \notin Members(q)
  PROVE  Once(Append(q, c)) /\ Members(Append(q, c)) = Members(q) \cup {c}
<1> DEFINE all == Append(q, c)
<1>1. /\ Len(q) \in Nat /\ DOMAIN q = 1..Len(q) /\ DOMAIN all = 1..Len(q) + 1
      /\ all[Len(q) + 1] = c /\ \A i \in DOMAIN q : all[i] = q[i]
  OBVIOUS
<1> HIDE DEF all
<1>2. \A i \in DOMAIN all : i \in DOMAIN q \/ i = Len(q) + 1
  BY <1>1
<1>3. Once(all)
  BY <1>1, <1>2 DEF Once, Members
<1>4. Members(all) = Members(q) \cup {c}
  <2>1. \A i \in DOMAIN q : i \in DOMAIN all
    BY <1>1
  <2>2. Len(q) + 1 \in DOMAIN all
    BY <1>1
  <2> QED BY <1>1, <1>2, <2>1, <2>2 DEF Members
<1> QED BY <1>3, <1>4 DEF all

LEMMA LeaveTheQueue ==
  ASSUME NEW q \in Seq(Calls), q # <<>>, Once(q)
  PROVE  /\ Tail(q) \in Seq(Calls) /\ Head(q) \in Members(q)
         /\ Once(Tail(q)) /\ Members(Tail(q)) = Members(q) \ {Head(q)}
<1> DEFINE rest == Tail(q)
<1>1. Len(q) \in Nat \ {0} /\ DOMAIN q = 1..Len(q)
  BY EmptySeq
<1>2. /\ rest \in Seq(Calls) /\ DOMAIN rest = 1..Len(q) - 1
      /\ \A i \in DOMAIN rest : i + 1 \in DOMAIN q /\ rest[i] = q[i + 1] /\ i + 1 # 1
      /\ Head(q) = q[1] /\ 1 \in DOMAIN q
  BY <1>1
<1>3. \A j \in DOMAIN q : j = 1 \/ (j - 1 \in DOMAIN rest /\ rest[j - 1] = q[j])
  BY <1>1, <1>2
<1> HIDE DEF rest
<1>4. Once(rest)
  <2> SUFFICES ASSUME NEW i \in DOMAIN rest, NEW j \in DOMAIN rest, rest[i] = rest[j]
      PROVE  i = j
    BY DEF Once
  <2>1. i + 1 = j + 1
    BY <1>2 DEF Once
  <2> QED BY <1>2, <2>1
<1>5. Members(rest) = Members(q) \ {Head(q)}
  <2>1. ASSUME NEW d \in Members(rest) PROVE d \in Members(q) \ {Head(q)}
    BY <1>2 DEF Members, Once
  <2>2. ASSUME NEW d \in Members(q), d # Head(q) PROVE d \in Members(rest)
    BY <1>2, <1>3, <2>2 DEF Members
  <2> QED BY <2>1, <2>2
<1> QED BY <1>2, <1>4, <1>5 DEF rest, Members

\* One call changes, and is in the queue afterwards if it then waits.
LEMMA OneCallWaits ==
  ASSUME IInv, QueueIsTheWaiters, NEW c \in Calls, NEW call, NEW rest \in Seq(Calls),
         calls' = [calls EXCEPT ![c] = call],
         Once(rest), Members(rest) = {d \in Calls : Waits(d)} \ {c},
         queue' = IF WaitsIn(call) THEN Append(rest, c) ELSE rest
  PROVE  QueueIsTheWaiters'
<1>1. calls'[c] = call /\ \A d \in Calls \ {c} : calls'[d] = calls[d]
  BY DEF IInv, TypeOK
<1>2. /\ Waits(c)' <=> WaitsIn(call)
      /\ \A d \in Calls \ {c} : Waits(d)' <=> Waits(d)
  <2>1. \A d \in Calls : Waits(d) <=> WaitsIn(calls[d])
    BY DEF Waits, WaitsIn, NextIs
  <2>2. \A d \in Calls : Waits(d)' <=> WaitsIn(calls'[d])
    BY DEF Waits, WaitsIn, NextIs
  <2> QED BY <1>1, <2>1, <2>2
<1>3. Once(queue') /\ Members(queue') = {d \in Calls : Waits(d)'}
  <2>1. CASE WaitsIn(call)
    <3>1. Once(queue') /\ Members(queue') = Members(rest) \cup {c}
      BY <2>1, JoinTheQueue
    <3> QED BY <1>2, <2>1, <3>1
  <2>2. CASE ~WaitsIn(call)
    BY <1>2, <2>2
  <2> QED BY <2>1, <2>2
<1> QED BY <1>3 DEF QueueIsTheWaiters, Once, Members

LEMMA QueueFacts ==
  ASSUME IInv, QueueIsTheWaiters
  PROVE  queue \in Seq(Calls) /\ Once(queue) /\ Members(queue) = {d \in Calls : Waits(d)}
  BY DEF IInv, TypeOK, QueueIsTheWaiters, Once, Members

\* Going on to the next step; only a query through a repository waits again.
LEMMA AdvanceWaits ==
  ASSUME IInv, QueueIsTheWaiters, NEW c \in Calls, NEW call \in CallRecord,
         NEW rest \in Seq(Calls), Advance(c, call, rest),
         call.todo # <<>>, call.other = None,
         \A i \in DOMAIN call.todo : call.todo[i] = "begin" => i = 1,
         Once(rest), Members(rest) = {d \in Calls : Waits(d)} \ {c}
  PROVE  QueueIsTheWaiters'
<1> DEFINE next == [call EXCEPT !.todo = Tail(@)]
<1>1. /\ calls' = [calls EXCEPT ![c] = next]
      /\ queue' = IF next.todo # <<>> /\ Head(next.todo) = "pool" THEN Append(rest, c) ELSE rest
  BY DEF Advance
<1>2. next.todo = Tail(call.todo) /\ next.other = None
  BY DEF CallRecord
<1>3. next.todo # <<>> => Head(next.todo) # "begin"
  <2> SUFFICES ASSUME next.todo # <<>> PROVE Head(next.todo) # "begin"
    OBVIOUS
  <2>1. next.todo \in Seq(Steps) /\ Len(next.todo) \in Nat \ {0}
    <3>1. next.todo \in Seq(Steps)
      BY <1>2 DEF CallRecord
    <3> QED BY <3>1, EmptySeq
  <2>2. Head(next.todo) = call.todo[2] /\ 2 \in DOMAIN call.todo
    BY <1>2, <2>1 DEF CallRecord
  <2> QED BY <2>2
<1> HIDE DEF next
<1>4. queue' = IF WaitsIn(next) THEN Append(rest, c) ELSE rest
  BY <1>1, <1>2, <1>3 DEF WaitsIn
<1> QED BY <1>1, <1>4, OneCallWaits

LEMMA StartWaits ==
  ASSUME IInv, QueueIsTheWaiters, NEW c \in Calls, Start(c)
  PROVE  QueueIsTheWaiters'
<1>1. PICK courses \in {Releasing, Keeping} : Call(c, courses)
  BY DEF Start
<1>2. PICK course \in courses :
        calls' = [calls EXCEPT ![c] = [Idle EXCEPT !.todo = course.todo,
                                                   !.releases = course.releases]]
  BY <1>1 DEF Call
<1> DEFINE call == [Idle EXCEPT !.todo = course.todo, !.releases = course.releases]
<1>3. StartsWell(course) /\ EndsWell(course)
  BY MethodsStartWell, MethodsEndWell
<1>4. call.todo = course.todo /\ call.other = None
  BY DEF Idle
<1> HIDE DEF call
<1>5. WaitsIn(call)
  <2>1. course.todo \in Seq(Steps) /\ course.todo # <<>>
    BY <1>3 DEF StartsWell, Course, EndsWell
  <2>2. 1 \in DOMAIN course.todo /\ Head(course.todo) = course.todo[1]
    BY <2>1, EmptySeq
  <2>3. Head(course.todo) \in {"begin", "pool"}
    BY <1>3, <2>2 DEF StartsWell
  <2> QED BY <1>4, <2>1, <2>3 DEF WaitsIn
<1>6. /\ ~Waits(c) /\ queue' = Append(queue, c)
      /\ calls' = [calls EXCEPT ![c] = call]
  <2>1. calls[c] = Idle /\ queue' = Append(queue, c)
    BY <1>1 DEF Call
  <2>2. ~Waits(c)
    BY <2>1 DEF Waits, NextIs, Idle
  <2> QED BY <1>2, <2>1, <2>2 DEF call
<1> QED BY <1>5, <1>6, QueueFacts, OneCallWaits

LEMMA ConnectWaits ==
  ASSUME IInv, AllEndInOrder, QueueIsTheWaiters, NEW conn \in Connections, Connect(conn)
  PROVE  QueueIsTheWaiters'
<1> DEFINE c == Head(queue)
<1>1. /\ c \in Calls /\ Waits(c) /\ conn # None /\ Tail(queue) \in Seq(Calls)
      /\ Once(Tail(queue)) /\ Members(Tail(queue)) = {d \in Calls : Waits(d)} \ {c}
  BY QueueFacts, LeaveTheQueue, PoolAssumption DEF Connect
<1> HIDE DEF c
<1>2. /\ calls[c] \in CallRecord /\ InOrder(calls[c]) /\ EndsInOrder(calls[c])
      /\ calls[c].todo # <<>> /\ Head(calls[c].todo) = calls[c].todo[1]
  BY <1>1, EndFacts DEF Waits, NextIs
<1>3. ASSUME NextIs(c, {"begin"})
      PROVE  QueueIsTheWaiters'
  <2> DEFINE now == [calls[c] EXCEPT !.own = conn]
  <2>1. Advance(c, now, Tail(queue))
    BY <1>3 DEF Connect, c
  <2>2. now \in CallRecord /\ now.todo = calls[c].todo /\ now.other = calls[c].other
    BY <1>2 DEF CallRecord, MaybeConnection
  <2> HIDE DEF now
  <2>3. calls[c].other = None
    BY <1>2, <1>3 DEF NextIs, EndsInOrder
  <2> QED BY <1>1, <1>2, <2>1, <2>2, <2>3, AdvanceWaits DEF InOrder
<1>4. ASSUME ~NextIs(c, {"begin"})
      PROVE  QueueIsTheWaiters'
  <2> DEFINE now == [calls[c] EXCEPT !.other = conn]
  <2>1. calls' = [calls EXCEPT ![c] = now] /\ queue' = Tail(queue)
    BY <1>4 DEF Connect, c
  <2>2. ~WaitsIn(now)
    <3>1. now.todo = calls[c].todo /\ now.other = conn
      BY <1>2 DEF CallRecord
    <3> QED BY <1>1, <1>2, <1>4, <3>1 DEF WaitsIn, NextIs
  <2> HIDE DEF now
  <2> QED BY <1>1, <2>1, <2>2, OneCallWaits
<1> QED BY <1>3, <1>4

LEMMA PoolQueryWaits ==
  ASSUME IInv, QueueIsTheWaiters, NEW c \in Calls, PoolQuery(c)
  PROVE  QueueIsTheWaiters'
<1> DEFINE now == [calls[c] EXCEPT !.other = None]
<1>1. NextIs(c, {"pool"}) /\ calls[c].other # None /\ Advance(c, now, queue)
  BY DEF PoolQuery
<1>2. ~Waits(c) /\ calls[c].todo # <<>>
  BY <1>1 DEF NextIs, Waits
<1>3. /\ calls[c] \in CallRecord /\ InOrder(calls[c])
      /\ now \in CallRecord /\ now.todo = calls[c].todo /\ now.other = None
  BY CallFacts DEF CallRecord, MaybeConnection
<1> HIDE DEF now
<1> QED BY <1>1, <1>2, <1>3, QueueFacts, AdvanceWaits DEF InOrder

LEMMA QueryWaits ==
  ASSUME IInv, AllEndInOrder, QueueIsTheWaiters, NEW c \in Calls, Read(c) \/ Write(c)
  PROVE  QueueIsTheWaiters'
<1>1. NextIs(c, {"read", "write"}) /\ Advance(c, calls[c], queue)
  <2>1. CASE Read(c)
    BY <2>1 DEF Read, NextIs
  <2>2. CASE Write(c)
    BY <2>2 DEF Write, NextIs
  <2> QED BY <2>1, <2>2
<1>2. ~Waits(c) /\ calls[c].todo # <<>>
  BY <1>1 DEF NextIs, Waits
<1>3. /\ calls[c] \in CallRecord /\ InOrder(calls[c]) /\ calls[c].other = None
  BY <1>1, <1>2, EndFacts DEF NextIs, EndsInOrder
<1> QED BY <1>1, <1>2, <1>3, QueueFacts, AdvanceWaits DEF InOrder

\* A call whose transaction could not begin has left the queue.
LEMMA BeginFailedWaits ==
  ASSUME IInv, QueueIsTheWaiters, NEW conn \in Connections, BeginFailed(conn)
  PROVE  QueueIsTheWaiters'
<1> DEFINE c == Head(queue)
<1>1. /\ c \in Calls /\ Tail(queue) \in Seq(Calls)
      /\ Once(Tail(queue)) /\ Members(Tail(queue)) = {d \in Calls : Waits(d)} \ {c}
  BY QueueFacts, LeaveTheQueue DEF BeginFailed
<1>2. calls' = [calls EXCEPT ![c] = Idle] /\ queue' = Tail(queue)
  BY DEF BeginFailed
<1>3. ~WaitsIn(Idle)
  BY DEF WaitsIn, Idle
<1> HIDE DEF c
<1> QED BY <1>1, <1>2, <1>3, OneCallWaits

\* A call that ends its transaction, or itself, does not wait, before or after.
LEMMA EndWaits ==
  ASSUME IInv, QueueIsTheWaiters, NEW c \in Calls, ~Waits(c),
         EndTransaction(c) \/ Release(c)
  PROVE  QueueIsTheWaiters'
<1>1. queue' = queue /\ \E call : calls' = [calls EXCEPT ![c] = call] /\ ~WaitsIn(call)
  <2>1. CASE EndTransaction(c)
    <3> DEFINE call == [calls[c] EXCEPT !.todo = <<"release">>, !.other = None]
    <3>1. calls' = [calls EXCEPT ![c] = call] /\ queue' = queue
      BY <2>1 DEF EndTransaction, IInv, TypeOK
    <3>2. call.todo = <<"release">>
      BY CallFacts DEF CallRecord
    <3> HIDE DEF call
    <3>3. Head(call.todo) = "release"
      BY <3>2
    <3>4. ~WaitsIn(call)
      BY <3>3 DEF WaitsIn
    <3> QED BY <3>1, <3>4
  <2>2. CASE Release(c)
    <3>1. ~WaitsIn(Idle)
      BY DEF WaitsIn, Idle
    <3> QED BY <2>2, <3>1 DEF Release
  <2> QED BY <2>1, <2>2
<1>2. PICK call : calls' = [calls EXCEPT ![c] = call] /\ ~WaitsIn(call)
  BY <1>1
<1> QED BY <1>1, <1>2, QueueFacts, OneCallWaits

-----------------------------------------------------------------------------
(* The lost connections *)

KeepingNow == {c \in Calls : ~calls[c].releases}

LEMMA CountsAreFinite ==
  IsFiniteSet(Lost) /\ IsFiniteSet(KeepingNow)
<1>1. Lost \in SUBSET Connections /\ KeepingNow \in SUBSET Calls
  BY DEF Lost, KeepingNow
<1> QED BY <1>1, PoolAssumption, FS_Subset

LEMMA LostStays ==
  ASSUME IInv, NEW c \in Calls, NEW call, calls' = [calls EXCEPT ![c] = call],
         free' \cup HeldBy(call) = free \cup Holds(c)
  PROVE  Lost' = Lost
<1>1. /\ Holds(c)' = HeldBy(call)
      /\ \A d \in Calls \ {c} : Holds(d)' = Holds(d)
  BY DEF IInv, TypeOK, Holds, HeldBy
<1>2. ASSUME NEW conn \in Connections
      PROVE  (conn \notin free' /\ \A d \in Calls : conn \notin Holds(d)')
             <=> (conn \notin free /\ \A d \in Calls : conn \notin Holds(d))
  BY <1>1
<1> QED BY <1>2 DEF Lost

LEMMA NothingLost ==
  ASSUME IInv, LostAreTheKept, NEW c \in Calls, NEW call, calls' = [calls EXCEPT ![c] = call],
         free' \cup HeldBy(call) = free \cup Holds(c),
         call.releases = calls[c].releases, kept' = kept
  PROVE  LostAreTheKept'
<1>1. Lost' = Lost
  BY LostStays
<1>2. KeepingNow' = KeepingNow
  BY DEF KeepingNow, IInv, TypeOK
<1> QED BY <1>1, <1>2 DEF LostAreTheKept, KeepingNow

LEMMA StartLoses ==
  ASSUME IInv, LostAreTheKept, NEW c \in Calls, Start(c)
  PROVE  LostAreTheKept'
<1> DEFINE callOf(course) == [Idle EXCEPT !.todo = course.todo, !.releases = course.releases]
<1>1. ASSUME NEW courses, Call(c, courses)
      PROVE  /\ calls[c] = Idle /\ free' = free
             /\ \E course \in courses : calls' = [calls EXCEPT ![c] = callOf(course)]
  BY <1>1 DEF Call
<1>2. \A course : /\ HeldBy(callOf(course)) = {}
                  /\ callOf(course).releases = course.releases
  BY DEF HeldBy, Idle
<1>3. calls[c] = Idle => Holds(c) = {} /\ calls[c].releases = TRUE
  BY DEF Holds, Idle
<1> HIDE DEF callOf
<1>4. CASE Call(c, Releasing) /\ UNCHANGED kept
  <2>1. PICK course \in Releasing : calls' = [calls EXCEPT ![c] = callOf(course)]
    BY <1>1, <1>4
  <2>2. course.releases = TRUE
    BY DEF Releasing, CreateAccount, CreateRoom, CheckedThenSaved, AddParticipantsToRoom,
           RepositoryQuery, Transaction
  <2> QED BY <1>1, <1>2, <1>3, <1>4, <2>1, <2>2, NothingLost
<1>5. CASE Call(c, Keeping) /\ kept' = kept + 1
  <2>1. PICK course \in Keeping : calls' = [calls EXCEPT ![c] = callOf(course)]
    BY <1>1, <1>5
  <2>2. course.releases = FALSE
    BY DEF Keeping, CreateAidService, UpdateAidService, UpdateUserAidService, UpdateUser,
           RequestAidService, Transaction
  <2>3. Lost' = Lost
    BY <1>1, <1>2, <1>3, <1>5, <2>1, LostStays
  <2>4. KeepingNow' = KeepingNow \cup {c} /\ c \notin KeepingNow
    <3>1. calls'[c] = callOf(course) /\ \A d \in Calls \ {c} : calls'[d] = calls[d]
      BY <2>1 DEF IInv, TypeOK
    <3>2. ~calls'[c].releases /\ calls[c].releases
      BY <1>1, <1>2, <1>3, <1>5, <2>2, <3>1
    <3> QED BY <3>1, <3>2 DEF KeepingNow
  <2>5. Cardinality(KeepingNow') = Cardinality(KeepingNow) + 1
    BY <2>4, CountsAreFinite, FS_AddElement
  <2>6. Cardinality(Lost) \in Nat /\ Cardinality(KeepingNow) \in Nat
    BY CountsAreFinite, FS_CardinalityType
  <2> QED BY <1>5, <2>3, <2>5, <2>6 DEF LostAreTheKept, KeepingNow
<1> QED BY <1>4, <1>5 DEF Start

LEMMA ConnectLoses ==
  ASSUME IInv, AllEndInOrder, QueueIsTheWaiters, LostAreTheKept,
         NEW conn \in Connections, Connect(conn)
  PROVE  LostAreTheKept'
<1> DEFINE c == Head(queue)
<1>1. c \in Calls /\ Waits(c) /\ conn # None
  BY QueueFacts, LeaveTheQueue, PoolAssumption DEF Connect
<1> HIDE DEF c
<1>2. /\ calls[c] \in CallRecord /\ InOrder(calls[c]) /\ EndsInOrder(calls[c])
      /\ calls[c].todo # <<>> /\ Head(calls[c].todo) = calls[c].todo[1]
      /\ 1 \in DOMAIN calls[c].todo
  BY <1>1, EndFacts DEF Waits, NextIs
<1>3. calls[c].other = None
  BY <1>1, <1>2 DEF Waits, NextIs, EndsInOrder
<1>4. conn \in free /\ free' = free \ {conn} /\ kept' = kept
  BY DEF Connect
<1> DEFINE Goal == \E call : /\ calls' = [calls EXCEPT ![c] = call]
                             /\ HeldBy(call) = Holds(c) \cup {conn}
                             /\ call.releases = calls[c].releases
<1>5. Goal
  <2>1. ASSUME NextIs(c, {"begin"})
        PROVE  Goal
    <3> DEFINE call == [[calls[c] EXCEPT !.own = conn] EXCEPT !.todo = Tail(@)]
    <3>1. calls' = [calls EXCEPT ![c] = call]
      BY <2>1 DEF Connect, Advance, c
    <3>2. calls[c].own = None
      BY <1>2, <2>1 DEF NextIs, InOrder
    <3>3. call.own = conn /\ call.other = None /\ call.releases = calls[c].releases
      BY <1>2, <1>3 DEF CallRecord
    <3> HIDE DEF call
    <3> QED BY <1>1, <1>3, <3>1, <3>2, <3>3 DEF HeldBy, Holds
  <2>2. ASSUME ~NextIs(c, {"begin"})
        PROVE  Goal
    <3> DEFINE call == [calls[c] EXCEPT !.other = conn]
    <3>1. calls' = [calls EXCEPT ![c] = call]
      BY <2>2 DEF Connect, c
    <3>2. call.own = calls[c].own /\ call.other = conn /\ call.releases = calls[c].releases
      BY <1>2 DEF CallRecord
    <3> HIDE DEF call
    <3> QED BY <1>1, <1>3, <3>1, <3>2 DEF HeldBy, Holds
  <2> QED BY <2>1, <2>2
<1>6. PICK call : /\ calls' = [calls EXCEPT ![c] = call]
                  /\ HeldBy(call) = Holds(c) \cup {conn}
                  /\ call.releases = calls[c].releases
  BY <1>5
<1> QED BY <1>1, <1>4, <1>6, NothingLost

LEMMA PoolQueryLoses ==
  ASSUME IInv, LostAreTheKept, NEW c \in Calls, PoolQuery(c)
  PROVE  LostAreTheKept'
<1> DEFINE call == [[calls[c] EXCEPT !.other = None] EXCEPT !.todo = Tail(@)]
<1>1. /\ calls' = [calls EXCEPT ![c] = call] /\ calls[c].other # None
      /\ free' = free \cup {calls[c].other} /\ kept' = kept
  BY DEF PoolQuery, Advance
<1>2. call.own = calls[c].own /\ call.other = None /\ call.releases = calls[c].releases
  BY CallFacts DEF CallRecord
<1> HIDE DEF call
<1>3. free' \cup HeldBy(call) = free \cup Holds(c)
  BY <1>1, <1>2 DEF HeldBy, Holds
<1> QED BY <1>1, <1>2, <1>3, NothingLost

LEMMA QueryLoses ==
  ASSUME IInv, LostAreTheKept, NEW c \in Calls, Read(c) \/ Write(c)
  PROVE  LostAreTheKept'
<1> DEFINE call == [calls[c] EXCEPT !.todo = Tail(@)]
<1>1. calls' = [calls EXCEPT ![c] = call] /\ free' = free /\ kept' = kept
  BY DEF Read, Write, Advance
<1>2. call.own = calls[c].own /\ call.other = calls[c].other /\ call.releases = calls[c].releases
  BY CallFacts DEF CallRecord
<1> HIDE DEF call
<1>3. free' \cup HeldBy(call) = free \cup Holds(c)
  BY <1>1, <1>2 DEF HeldBy, Holds
<1> QED BY <1>1, <1>2, <1>3, NothingLost

LEMMA EndLoses ==
  ASSUME IInv, LostAreTheKept, NEW c \in Calls, EndTransaction(c)
  PROVE  LostAreTheKept'
<1> DEFINE call == [calls[c] EXCEPT !.todo = <<"release">>, !.other = None]
<1>1. /\ calls' = [calls EXCEPT ![c] = call] /\ kept' = kept
      /\ free' = free \cup ({calls[c].other} \ {None})
  BY DEF EndTransaction, IInv, TypeOK
<1>2. call.own = calls[c].own /\ call.other = None /\ call.releases = calls[c].releases
  BY CallFacts DEF CallRecord
<1> HIDE DEF call
<1>3. free' \cup HeldBy(call) = free \cup Holds(c)
  BY <1>1, <1>2 DEF HeldBy, Holds
<1> QED BY <1>1, <1>2, <1>3, NothingLost

\* The end of a call that keeps its connection: a call less, a lost one more.
LEMMA ReleaseLoses ==
  ASSUME IInv, AllEndInOrder, LostAreTheKept, NEW c \in Calls, Release(c)
  PROVE  LostAreTheKept'
<1>1. /\ calls' = [calls EXCEPT ![c] = Idle] /\ kept' = kept
      /\ calls[c].todo # <<>> /\ Head(calls[c].todo) = "release"
      /\ free' = IF calls[c].releases THEN free \cup {calls[c].own} ELSE free
  BY DEF Release, NextIs
<1>2. /\ calls[c] \in CallRecord /\ calls[c].own # None /\ calls[c].other = None
      /\ calls[c].own \in Connections
  BY <1>1, EndFacts DEF InOrder, EndsInOrder, CallRecord, MaybeConnection
<1>3. Holds(c) = {calls[c].own} /\ HeldBy(Idle) = {} /\ Idle.releases = TRUE
  BY <1>2 DEF Holds, HeldBy, Idle
<1>4. CASE calls[c].releases
  <2>1. calls[c].releases = TRUE
    BY <1>2, <1>4 DEF CallRecord
  <2> QED BY <1>1, <1>3, <2>1, NothingLost
<1>5. CASE ~calls[c].releases
  <2>1. /\ calls'[c] = Idle /\ \A d \in Calls \ {c} : calls'[d] = calls[d]
    BY <1>1 DEF IInv, TypeOK
  <2>2. KeepingNow' = KeepingNow \ {c} /\ c \in KeepingNow
    BY <1>3, <1>5, <2>1 DEF KeepingNow
  <2>3. Lost' = Lost \cup {calls[c].own} /\ calls[c].own \notin Lost
    <3>1. Holds(c)' = {} /\ \A d \in Calls \ {c} : Holds(d)' = Holds(d)
      BY <1>3, <2>1 DEF Holds, HeldBy
    <3>2. calls[c].own \notin free /\ \A d \in Calls \ {c} : calls[c].own \notin Holds(d)
      BY <1>3, CallFacts
    <3>3. free' = free
      BY <1>1, <1>5
    <3>4. calls[c].own \notin Lost
      BY <1>3 DEF Lost
    <3>5. ASSUME NEW conn \in Connections
          PROVE  conn \in Lost' <=> conn \in Lost \/ conn = calls[c].own
      BY <1>3, <3>1, <3>2, <3>3 DEF Lost
    <3>6. Lost \subseteq Connections /\ Lost' \subseteq Connections
      BY DEF Lost
    <3> QED BY <1>2, <3>4, <3>5, <3>6
  <2>4. /\ Cardinality(KeepingNow') = Cardinality(KeepingNow) - 1
        /\ Cardinality(Lost') = Cardinality(Lost) + 1
    BY <2>2, <2>3, CountsAreFinite, FS_AddElement, FS_RemoveElement
  <2>5. Cardinality(Lost) \in Nat /\ Cardinality(KeepingNow) \in Nat
    BY CountsAreFinite, FS_CardinalityType
  <2> QED BY <1>1, <2>4, <2>5 DEF LostAreTheKept, KeepingNow
<1> QED BY <1>4, <1>5

\* A transaction that could not begin: its connection is a lost one more, and the
\* call either counted already or is counted now.
LEMMA BeginFailedLoses ==
  ASSUME IInv, AllEndInOrder, QueueIsTheWaiters, LostAreTheKept,
         NEW conn \in Connections, BeginFailed(conn)
  PROVE  LostAreTheKept'
<1>1. PICK c \in Calls :
      /\ NextIs(c, {"begin"}) /\ calls' = [calls EXCEPT ![c] = Idle]
      /\ conn \in free /\ free' = free \ {conn}
      /\ \/ ~calls[c].releases /\ kept' = kept
         \/ calls[c].releases /\ kept' = kept + 1
  <2>1. Head(queue) \in Calls
    BY DEF BeginFailed, IInv, TypeOK
  <2> QED BY <2>1 DEF BeginFailed
<1>2. /\ calls[c] \in CallRecord /\ InOrder(calls[c]) /\ EndsInOrder(calls[c])
      /\ calls[c].todo # <<>> /\ calls[c].todo[1] = "begin" /\ 1 \in DOMAIN calls[c].todo
  BY <1>1, EndFacts DEF NextIs
<1>3. calls[c].own = None /\ calls[c].other = None
  BY <1>2 DEF InOrder, EndsInOrder
<1>4. /\ Holds(c) = {} /\ Holds(c)' = {} /\ \A d \in Calls \ {c} : Holds(d)' = Holds(d)
      /\ calls'[c] = Idle /\ \A d \in Calls \ {c} : calls'[d] = calls[d]
  BY <1>1, <1>3 DEF Holds, Idle, IInv, TypeOK
<1>5. Lost' = Lost \cup {conn} /\ conn \notin Lost
  <2>1. \A d \in Calls : conn \notin Holds(d)
    BY <1>1, CallFacts
  <2>2. conn \notin Lost
    BY <1>1 DEF Lost
  <2>3. ASSUME NEW k \in Connections
        PROVE  k \in Lost' <=> k \in Lost \/ k = conn
    BY <1>1, <1>4, <2>1 DEF Lost
  <2>4. Lost \subseteq Connections /\ Lost' \subseteq Connections
    BY DEF Lost
  <2> QED BY <2>2, <2>3, <2>4
<1>6. Cardinality(Lost') = Cardinality(Lost) + 1
  BY <1>5, CountsAreFinite, FS_AddElement
<1>7. Cardinality(Lost) \in Nat /\ Cardinality(KeepingNow) \in Nat
  BY CountsAreFinite, FS_CardinalityType
<1>8. CASE ~calls[c].releases /\ kept' = kept
  <2>1. KeepingNow' = KeepingNow \ {c} /\ c \in KeepingNow
    BY <1>1, <1>4, <1>8 DEF KeepingNow, Idle
  <2>2. Cardinality(KeepingNow') = Cardinality(KeepingNow) - 1
    BY <2>1, CountsAreFinite, FS_RemoveElement
  <2>3. kept' = kept
    BY <1>8
  <2>4. kept = Cardinality(Lost) + Cardinality(KeepingNow)
    BY DEF LostAreTheKept, KeepingNow
  <2>5. kept' = Cardinality(Lost') + Cardinality(KeepingNow')
    BY <1>6, <1>7, <2>2, <2>3, <2>4
  <2> QED BY <2>5 DEF LostAreTheKept, KeepingNow
<1>9. CASE calls[c].releases /\ kept' = kept + 1
  <2>1. KeepingNow' = KeepingNow
    BY <1>1, <1>4, <1>9 DEF KeepingNow, Idle
  <2>2. kept' = kept + 1
    BY <1>9
  <2>3. kept = Cardinality(Lost) + Cardinality(KeepingNow)
    BY DEF LostAreTheKept, KeepingNow
  <2>4. kept' = Cardinality(Lost') + Cardinality(KeepingNow')
    BY <1>6, <1>7, <2>1, <2>2, <2>3
  <2> QED BY <2>4 DEF LostAreTheKept, KeepingNow
<1> QED BY <1>1, <1>8, <1>9

-----------------------------------------------------------------------------
(* The pool as a whole *)

PoolInv == IInv /\ AllEndInOrder /\ QueueIsTheWaiters /\ LostAreTheKept

LEMMA PoolInitially == Init => PoolInv
<1> SUFFICES ASSUME Init PROVE PoolInv
  OBVIOUS
<1>1. \A c \in Calls : /\ calls[c] = Idle /\ Holds(c) = {} /\ calls[c].releases = TRUE
                        /\ ~Waits(c) /\ EndsInOrder(calls[c])
  BY DEF Init, Idle, Holds, Waits, NextIs, EndsInOrder
<1>2. AllEndInOrder
  BY <1>1 DEF AllEndInOrder
<1>3. QueueIsTheWaiters
  BY <1>1 DEF Init, QueueIsTheWaiters
<1>4. LostAreTheKept
  <2>1. Lost = {} /\ {c \in Calls : ~calls[c].releases} = {}
    BY <1>1 DEF Lost, Init
  <2> QED BY <2>1, FS_EmptySet DEF LostAreTheKept, Init
<1> QED BY <1>2, <1>3, <1>4, Initially DEF PoolInv

LEMMA PoolInductive == PoolInv /\ [Next]_vars => PoolInv'
<1> SUFFICES ASSUME PoolInv, [Next]_vars PROVE PoolInv'
  OBVIOUS
<1> USE DEF PoolInv
<1> DEFINE Rest == AllEndInOrder /\ QueueIsTheWaiters /\ LostAreTheKept
<1>1. ASSUME NEW c \in Calls, Start(c) PROVE Rest'
  BY <1>1, StartEnds, StartWaits, StartLoses
<1>2. ASSUME NEW c \in Calls, Step(c) PROVE Rest'
  <2>1. CASE PoolQuery(c)
    BY <2>1, PoolQueryEnds, PoolQueryWaits, PoolQueryLoses
  <2>2. CASE Read(c) \/ Write(c)
    BY <2>2, QueryEnds, QueryWaits, QueryLoses
  <2>3. CASE Commit(c)
    <3>1. ~Waits(c) /\ EndTransaction(c)
      BY <2>3 DEF Commit, NextIs, Waits
    <3> QED BY <3>1, EndTransactionEnds, EndWaits, EndLoses
  <2>4. CASE Release(c)
    <3>1. ~Waits(c) /\ calls' = [calls EXCEPT ![c] = Idle]
      BY <2>4 DEF Release, NextIs, Waits
    <3>2. AllEndInOrder'
      <4>1. EndsInOrder(Idle)
        BY DEF EndsInOrder, Idle
      <4> QED BY <3>1, <4>1, EndsKept
    <3> QED BY <2>4, <3>1, <3>2, EndWaits, ReleaseLoses
  <2> QED BY <1>2, <2>1, <2>2, <2>3, <2>4 DEF Step
<1>3. ASSUME NEW c \in Calls, HandleFailedQueryRunner(c) PROVE Rest'
  <2>1. ~Waits(c) /\ EndTransaction(c)
    BY <1>3 DEF HandleFailedQueryRunner, CanFail, NextIs, Waits
  <2> QED BY <2>1, EndTransactionEnds, EndWaits, EndLoses
<1>4. ASSUME NEW conn \in Connections, Connect(conn) PROVE Rest'
  BY <1>4, ConnectEnds, ConnectWaits, ConnectLoses
<1>5. ASSUME NEW conn \in Connections, BeginFailed(conn) PROVE Rest'
  <2>1. AllEndInOrder'
    <3>1. EndsInOrder(Idle)
      BY DEF EndsInOrder, Idle
    <3>2. Head(queue) \in Calls /\ calls' = [calls EXCEPT ![Head(queue)] = Idle]
      BY <1>5 DEF BeginFailed, IInv, TypeOK
    <3> QED BY <3>1, <3>2, EndsKept
  <2> QED BY <1>5, <2>1, BeginFailedWaits, BeginFailedLoses
<1>6. ASSUME UNCHANGED vars PROVE Rest'
  <2>1. AllEndInOrder'
    BY <1>6 DEF vars, AllEndInOrder
  <2>2. QueueIsTheWaiters'
    BY <1>6 DEF vars, QueueIsTheWaiters, Waits, NextIs
  <2>3. LostAreTheKept'
    <3>1. Lost' = Lost
      BY <1>6 DEF vars, Lost, Holds
    <3>2. kept' = kept /\ calls' = calls
      BY <1>6 DEF vars
    <3>3. kept = Cardinality(Lost) + Cardinality({c \in Calls : ~calls[c].releases})
      BY DEF LostAreTheKept
    <3> QED BY <3>1, <3>2, <3>3, Zenon DEF LostAreTheKept
  <2> QED BY <2>1, <2>2, <2>3
<1>7. IInv'
  BY Inductive
<1> QED BY <1>1, <1>2, <1>3, <1>4, <1>5, <1>6, <1>7 DEF Next

\* Who can do nothing and is not idle waits for a connection, if nobody else
\* can do anything either: whoever has the row has only to commit.
LEMMA StuckWaits ==
  ASSUME PoolInv, \A d \in Calls : ~CanStep(d), NEW c \in Calls, calls[c] # Idle
  PROVE  Waits(c) /\ calls[c].other = None
<1>1. /\ calls[c] \in CallRecord /\ InOrder(calls[c]) /\ EndsInOrder(calls[c])
      /\ calls[c].todo # <<>> /\ 1 \in DOMAIN calls[c].todo
      /\ Head(calls[c].todo) = calls[c].todo[1] /\ calls[c].todo[1] \in Steps
  <2>1. /\ calls[c] \in CallRecord /\ InOrder(calls[c]) /\ EndsInOrder(calls[c])
        /\ calls[c].todo # <<>> /\ 1 \in DOMAIN calls[c].todo
        /\ Head(calls[c].todo) = calls[c].todo[1]
    BY EndFacts DEF PoolInv
  <2>2. calls[c].todo[1] \in Steps
    BY <2>1 DEF CallRecord
  <2> QED BY <2>1, <2>2
<1>2. RowIsFree
  <2> SUFFICES ASSUME NEW d \in Calls, StillTo(d, "commit"), ~StillTo(d, "write")
      PROVE  FALSE
    BY DEF RowIsFree
  <2>1. /\ calls[d] \in CallRecord /\ EndsInOrder(calls[d])
        /\ calls[d].todo # <<>> => Head(calls[d].todo) = calls[d].todo[1]
    BY EndFacts DEF PoolInv
  <2>2. PICK i \in DOMAIN calls[d].todo : calls[d].todo[i] = "commit"
    BY DEF StillTo
  <2>3. /\ calls[d].todo \in Seq(Steps) /\ i \in Nat \ {0} /\ DOMAIN calls[d].todo = 1..Len(calls[d].todo)
    BY <2>1, <2>2 DEF CallRecord
  <2>4. i > 1 => i - 1 \in DOMAIN calls[d].todo /\ calls[d].todo[i - 1] = "write"
    BY <2>1, <2>2, <2>3 DEF EndsInOrder
  <2>5. i = 1 /\ calls[d].todo # <<>>
    BY <2>3, <2>4, <2>2 DEF StillTo
  <2>6. CanStep(d)
    BY <2>1, <2>2, <2>5 DEF CanStep, NextIs
  <2> QED BY <2>6
<1>3. calls[c].todo[1] \in {"begin", "pool"} /\ Waits(c)
  BY <1>1, <1>2 DEF CanStep, NextIs, Waits, Steps, QuerySteps
<1>4. calls[c].other = None
  BY <1>1, <1>3 DEF Waits, NextIs, EndsInOrder
<1> QED BY <1>3, <1>4

LEMMA LargeEnough == PoolInv => SizedNeverJams
<1> SUFFICES ASSUME PoolInv, Sized, ~CanConnect, \A d \in Calls : ~CanStep(d),
                    NEW c \in Calls, calls[c] # Idle
    PROVE  FALSE
  BY DEF SizedNeverJams
<1> DEFINE Nesting == {d \in Calls : Nested(d)}
           taken   == Connections \ Lost
<1>1. free = {}
  <2>1. c \in Members(queue)
    BY StuckWaits, QueueFacts DEF PoolInv
  <2>2. queue # <<>>
    BY <2>1 DEF Members
  <2> QED BY <2>2 DEF CanConnect
<1>2. ASSUME NEW d \in Calls
      PROVE  calls[d].other = None /\ (calls[d].own # None => d \in Nesting)
  <2>1. CASE calls[d] = Idle
    BY <2>1 DEF Idle
  <2>2. CASE calls[d] # Idle
    <3>1. Waits(d) /\ calls[d].other = None
      BY <2>2, StuckWaits
    <3>2. /\ InOrder(calls[d]) /\ calls[d].todo # <<>> /\ 1 \in DOMAIN calls[d].todo
          /\ Head(calls[d].todo) = calls[d].todo[1]
      BY <3>1, EndFacts DEF PoolInv, Waits, NextIs
    <3>3. calls[d].own # None => calls[d].todo[1] = "pool"
      BY <3>1, <3>2 DEF Waits, NextIs, InOrder
    <3> QED BY <3>1, <3>2, <3>3 DEF Nested, StillTo
  <2> QED BY <2>1, <2>2
<1>3. ASSUME NEW conn \in taken
      PROVE  \E d \in Nesting : calls[d].own = conn
  <2>1. PICK d \in Calls : conn \in Holds(d)
    BY <1>1 DEF Lost
  <2>2. calls[d].own = conn /\ conn # None
    BY <1>2, <2>1 DEF Holds
  <2> QED BY <1>2, <2>2
<1> HIDE DEF Nesting
<1> DEFINE holder == [conn \in taken |-> CHOOSE d \in Nesting : calls[d].own = conn]
<1>4. \A conn \in taken : holder[conn] \in Nesting /\ calls[holder[conn]].own = conn
  BY <1>3
<1> HIDE DEF holder
<1>5. holder \in [taken -> Nesting]
  BY <1>4 DEF holder
<1>6. holder \in Injection(taken, Nesting)
  BY <1>4, <1>5 DEF Injection, IsInjective
<1>7. /\ IsFiniteSet(Nesting) /\ IsFiniteSet(Lost) /\ IsFiniteSet(KeepingNow)
      /\ IsFiniteSet(taken)
  <2>1. Nesting \in SUBSET Calls
    BY DEF Nesting
  <2> QED BY <2>1, CountsAreFinite, PoolAssumption, FS_Subset, FS_Difference
<1>8. Cardinality(taken) <= Cardinality(Nesting)
  BY <1>6, <1>7, FS_Injection
<1>9. Cardinality(taken) = Cardinality(Connections) - Cardinality(Lost)
  <2>1. Connections \cap Lost = Lost
    BY DEF Lost
  <2> QED BY <2>1, PoolAssumption, FS_Difference
<1>10. /\ Cardinality(Lost) \in Nat /\ Cardinality(KeepingNow) \in Nat
       /\ Cardinality(Nesting) \in Nat /\ Cardinality(Connections) \in Nat
       /\ Cardinality(taken) \in Nat
  BY <1>7, PoolAssumption, FS_CardinalityType
<1>11. kept = Cardinality(Lost) + Cardinality(KeepingNow)
  BY DEF PoolInv, LostAreTheKept, KeepingNow
<1>12. kept + Cardinality(Nesting) < Cardinality(Connections)
  BY DEF Sized, Nesting
<1> QED
  <2> HIDE DEF taken
  <2> QED BY <1>8, <1>9, <1>10, <1>11, <1>12

\* Whatever fails, the connections that are lost are those of the methods that
\* keep theirs and of the transactions that could not begin, one for each call.
THEOREM OnlyTheKeptAreLost == Spec => []LostAreTheKept
<1>1. PoolInv => LostAreTheKept
  BY DEF PoolInv
<1> QED BY <1>1, PoolInitially, PoolInductive, PTL DEF Spec

\* For any number of calls and connections: while there is one connection more
\* than the calls that need two and those that kept theirs, there is never a
\* state in which every call waits for another.
THEOREM LargePoolsNeverJam == Spec => []SizedNeverJams
<1> QED BY LargeEnough, PoolInitially, PoolInductive, PTL DEF Spec

=============================================================================
