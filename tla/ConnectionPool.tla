---------------------------- MODULE ConnectionPool ----------------------------
(***************************************************************************)
(* The connections that the services share.  TypeORM gives every query     *)
(* runner and every repository query a connection of one pg-pool; a call   *)
(* that finds none free waits in the pool's queue, without a time limit.   *)
(*                                                                         *)
(* A service method is modelled by what it asks of connections, in order:  *)
(*   begin   takes a connection and starts its transaction on it           *)
(*   read    queries the transaction's connection                          *)
(*   pool    queries through a repository, on another connection           *)
(*   write   saves on the transaction's connection, and locks the row      *)
(*   commit  ends the transaction                                          *)
(*   release gives the connection back, if the method ever does            *)
(* What is read and written is left out, but for this: all calls write one *)
(* row, so that whoever writes waits for the transactions that wrote.      *)
(***************************************************************************)
EXTENDS Naturals, Sequences, FiniteSets

CONSTANTS
  Connections,  \* the pool's connections (pg-pool makes at most 10)
  Calls,        \* bound: how many service calls run at once
  None,         \* no connection
  MaxTries,     \* bound: ids that generateUniqueID tries
  MaxKept       \* bound: connections that calls keep

ASSUME PoolAssumption ==
  /\ None \notin Connections /\ MaxTries \in Nat
  /\ IsFiniteSet(Connections) /\ IsFiniteSet(Calls)

VARIABLES
  calls,  \* calls[c]: what call c has yet to do, and what it holds
  free,   \* connections that the pool can hand out
  queue,  \* calls that wait for a connection, first come first served
  begun,  \* connections on which a transaction is open
  kept    \* history: calls so far that keep their connection

vars == <<calls, free, queue, begun, kept>>

QuerySteps == {"read", "pool", "write"}
Steps      == QuerySteps \cup {"begin", "commit", "release"}

MaybeConnection == Connections \cup {None}

TypeOK ==
  /\ calls \in [Calls -> [todo : Seq(Steps), releases : BOOLEAN,
                         own : MaybeConnection, other : MaybeConnection]]
  /\ free \subseteq Connections /\ begun \subseteq Connections
  /\ queue \in Seq(Calls)
  /\ kept \in Nat

-----------------------------------------------------------------------------
(* The methods.  A method is the set of the courses it may take. *)

Transaction(steps, releases) ==
  [todo |-> <<"begin">> \o steps \o <<"commit">>, releases |-> releases]

\* One repository query per id tried.
GenerateUniqueID == {[i \in 1..n |-> "pool"] : n \in 1..MaxTries}

\* Mistake: the row is saved before its id is known to be unique.
SavedThenChecked ==
  {Transaction(<<"read", "write">> \o ids, TRUE) : ids \in GenerateUniqueID}

CheckedThenSaved ==
  {Transaction(<<"read">> \o ids \o <<"write">>, TRUE) : ids \in GenerateUniqueID}

CreateAccount == CheckedThenSaved
CreateRoom    == CheckedThenSaved

\* Mistake: no release once the method is through.
AddParticipantsUnreleased == {Transaction(<<"read", "write">>, FALSE)}

AddParticipantsToRoom == {Transaction(<<"read", "write">>, TRUE)}

CreateAidService     == {Transaction(<<"read", "write">>, FALSE)}
UpdateAidService     == {Transaction(<<"read", "write">>, FALSE)}
UpdateUserAidService == {Transaction(<<"read", "write">>, FALSE)}
UpdateUser           == {Transaction(<<"read", "write">>, FALSE)}
RequestAidService    == {Transaction(<<"pool", "read", "write">>, FALSE)}

\* login, getRoom and all the others that only use a repository.
RepositoryQuery == {[todo |-> <<"pool">>, releases |-> TRUE]}

Releasing == CreateAccount \cup CreateRoom \cup AddParticipantsToRoom \cup RepositoryQuery
Keeping   == CreateAidService \cup UpdateAidService \cup UpdateUserAidService
             \cup UpdateUser \cup RequestAidService

-----------------------------------------------------------------------------
Idle == [todo |-> <<>>, releases |-> TRUE, own |-> None, other |-> None]

NextIs(c, steps) == calls[c].todo # <<>> /\ Head(calls[c].todo) \in steps

Holds(c) == {calls[c].own, calls[c].other} \ {None}

\* Call c does its next step and goes on; `rest` are those who wait already.
Advance(c, call, rest) ==
  LET next == [call EXCEPT !.todo = Tail(@)]
  IN  /\ calls' = [calls EXCEPT ![c] = next]
      /\ queue' = IF next.todo # <<>> /\ Head(next.todo) = "pool" THEN Append(rest, c) ELSE rest

Init ==
  /\ calls = [c \in Calls |-> Idle]
  /\ free = Connections
  /\ queue = <<>> /\ begun = {} /\ kept = 0

\* The call of a method; the first thing that it needs is a connection.
Call(c, courses) ==
  /\ calls[c] = Idle
  /\ \E course \in courses :
       calls' = [calls EXCEPT ![c] = [Idle EXCEPT !.todo = course.todo,
                                                  !.releases = course.releases]]
  /\ queue' = Append(queue, c)
  /\ UNCHANGED <<free, begun>>

Start(c) ==
  \/ Call(c, Releasing) /\ UNCHANGED kept
  \/ kept < MaxKept /\ Call(c, Keeping) /\ kept' = kept + 1

\* The pool hands a free connection to the call that waits longest.
Connect(conn) ==
  /\ conn \in free /\ queue # <<>>
  /\ free' = free \ {conn}
  /\ LET c == Head(queue)
     IN  IF NextIs(c, {"begin"})
         THEN /\ Advance(c, [calls[c] EXCEPT !.own = conn], Tail(queue))
              /\ begun' = begun \cup {conn}
         ELSE /\ calls' = [calls EXCEPT ![c].other = conn]
              /\ queue' = Tail(queue)
              /\ UNCHANGED begun
  /\ UNCHANGED kept

\* START TRANSACTION fails.  createAccount, createRoom and addParticipantsToRoom ask
\* for it before their try block, whose end would have released the connection; the
\* other methods never release theirs.
BeginFailed(conn) ==
  /\ conn \in free /\ queue # <<>>
  /\ LET c == Head(queue)
     IN  /\ NextIs(c, {"begin"})
         /\ calls' = [calls EXCEPT ![c] = Idle]
         /\ \/ ~calls[c].releases /\ UNCHANGED kept
            \/ calls[c].releases /\ kept < MaxKept /\ kept' = kept + 1
  /\ free' = free \ {conn}
  /\ queue' = Tail(queue)
  /\ UNCHANGED begun

\* The repository gives its connection back as soon as it has its answer.
PoolQuery(c) ==
  /\ NextIs(c, {"pool"}) /\ calls[c].other # None
  /\ free' = free \cup {calls[c].other}
  /\ Advance(c, [calls[c] EXCEPT !.other = None], queue)
  /\ UNCHANGED <<begun, kept>>

Read(c) ==
  /\ NextIs(c, {"read"})
  /\ Advance(c, calls[c], queue)
  /\ UNCHANGED <<free, begun, kept>>

StillTo(c, step) == \E i \in DOMAIN calls[c].todo : calls[c].todo[i] = step

\* The row is locked by a transaction that wrote it and has not ended.
RowIsFree == \A d \in Calls : StillTo(d, "commit") => StillTo(d, "write")

Write(c) ==
  /\ NextIs(c, {"write"}) /\ RowIsFree
  /\ Advance(c, calls[c], queue)
  /\ UNCHANGED <<free, begun, kept>>

\* Mistake: what the repository holds is given back although it holds nothing.
EndTransactionUnchecked(c) ==
  /\ calls' = [calls EXCEPT ![c].todo = <<"release">>, ![c].other = None]
  /\ begun' = begun \ {calls[c].own}
  /\ free' = free \cup {calls[c].other}
  /\ UNCHANGED <<queue, kept>>

\* The transaction is over; the connection is still the query runner's.
EndTransaction(c) ==
  /\ calls' = [calls EXCEPT ![c].todo = <<"release">>, ![c].other = None]
  /\ begun' = begun \ {calls[c].own}
  /\ free' = free \cup ({calls[c].other} \ {None})
  /\ UNCHANGED <<queue, kept>>

Commit(c) == NextIs(c, {"commit"}) /\ EndTransaction(c)

\* A query on behalf of a transaction can fail, the commit included.
CanFail(c) ==
  /\ calls[c].own # None
  /\ \/ NextIs(c, {"read", "write", "commit"})
     \/ NextIs(c, {"pool"}) /\ calls[c].other # None

\* Mistake: the failed transaction is left to the release.
FailedWithoutRollback(c) ==
  /\ CanFail(c)
  /\ calls' = [calls EXCEPT ![c].todo = <<"release">>, ![c].other = None]
  /\ free' = free \cup ({calls[c].other} \ {None})
  /\ UNCHANGED <<queue, begun, kept>>

\* A query is rejected, or the method throws on what it read: roll back.
HandleFailedQueryRunner(c) == CanFail(c) /\ EndTransaction(c)

\* The end of the call.  A method that does not release its query runner
\* leaves the connection to nobody.
Release(c) ==
  /\ NextIs(c, {"release"})
  /\ calls' = [calls EXCEPT ![c] = Idle]
  /\ free' = IF calls[c].releases THEN free \cup {calls[c].own} ELSE free
  /\ UNCHANGED <<queue, begun, kept>>

Step(c) == PoolQuery(c) \/ Read(c) \/ Write(c) \/ Commit(c) \/ Release(c)

Next ==
  \/ \E c \in Calls : Start(c) \/ Step(c) \/ HandleFailedQueryRunner(c)
  \/ \E conn \in Connections : Connect(conn) \/ BeginFailed(conn)

Spec == Init /\ [][Next]_vars

\* The database answers, and lets those who wait for a row have it in turn;
\* the pool serves its queue.  Nothing makes a client call, or a query fail.
Fairness ==
  /\ \A c \in Calls : WF_vars(Step(c)) /\ SF_vars(Write(c))
  /\ WF_vars(\E conn \in Connections : Connect(conn))

FairSpec == Spec /\ Fairness

-----------------------------------------------------------------------------
(* Properties *)

\* Whatever fails, and wherever, no call ever runs inside the transaction of
\* another: nobody's connection is free or somebody else's, and an open
\* transaction is on the connection of the call that is to end it.
NoForeignTransaction ==
  /\ \A c \in Calls : Holds(c) \cap free = {}
  /\ \A c, d \in Calls : c # d => Holds(c) \cap Holds(d) = {}
  /\ \A conn \in begun : \E c \in Calls : calls[c].own = conn /\ ~NextIs(c, {"release"})

Waits(c) ==
  \/ NextIs(c, {"begin"})
  \/ NextIs(c, {"pool"}) /\ calls[c].other = None

\* Neither in the pool nor with a call.
Lost == {conn \in Connections : conn \notin free /\ \A c \in Calls : conn \notin Holds(c)}

\* However calls fail, connections are lost to the methods that keep theirs, to the
\* transactions that could not begin and to nothing else: one for each such call,
\* which is lost once the call is over.
LostAreTheKept ==
  kept = Cardinality(Lost) + Cardinality({c \in Calls : ~calls[c].releases})

\* A call that has its transaction, or asks for one, and will need a second
\* connection (createAccount, createRoom, requestAidService).
Nested(c) ==
  /\ StillTo(c, "pool")
  /\ calls[c].own # None \/ NextIs(c, {"begin"})

\* There is a connection that neither the calls that keep theirs nor those that
\* need two can tie up.
Sized == kept + Cardinality({c \in Calls : Nested(c)}) < Cardinality(Connections)

\* Call c has what its next step takes.
CanStep(c) ==
  \/ NextIs(c, {"read", "commit", "release"})
  \/ NextIs(c, {"pool"}) /\ ~Waits(c)
  \/ NextIs(c, {"write"}) /\ RowIsFree

CanConnect == free # {} /\ queue # <<>>

\* While the pool is that large, not everybody waits for everybody else, be it for
\* a connection or for a row.
SizedNeverJams ==
  Sized => \/ \A c \in Calls : calls[c] = Idle
           \/ CanConnect \/ \E c \in Calls : CanStep(c)

\* How large the pool must be: as long as it is larger than the number of the
\* calls that need two connections and of those that keep theirs, every call
\* of every service ends, whatever it waits for (a connection, a row).
EndsWhileSized == []Sized => \A c \in Calls : calls[c] # Idle ~> calls[c] = Idle

=============================================================================
