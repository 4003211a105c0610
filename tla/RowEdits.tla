------------------------------- MODULE RowEdits -------------------------------
(***************************************************************************)
(* How the services change rows that exist.  There are two ways:           *)
(*                                                                         *)
(*   - an edit reads an entity with `findOne`, changes the object it got   *)
(*     and hands it to `save`.  TypeORM's save reads the row again,        *)
(*     compares it with the object column by column (for a many-to-many    *)
(*     relation, member by member) and writes the columns that differ;     *)
(*   - an update is one statement, `update(where, columns)`.               *)
(*                                                                         *)
(* An edit runs in a transaction of its own at the database's default      *)
(* level, read committed: each of its queries sees what is committed when  *)
(* it starts, nothing locks the row before it is written, and others see   *)
(* its writes at once when it commits.  So its writes are modelled at the  *)
(* commit.                                                                 *)
(***************************************************************************)
CONSTANTS
  Keys,     \* primary keys of the rows
  Columns,  \* what save compares; each possible member of a relation is a column
  Values,   \* what a column can hold
  Edited,   \* bound: rows that clients edit
  Slots,    \* bound: how many requests are served at once
  NoKey,    \* no row
  Unknown   \* nothing is promised of a row

Row == [Columns -> Values]

ASSUME RowAssumption ==
  /\ NoKey \notin Keys /\ NoKey \notin Row
  /\ Unknown \notin Row /\ Unknown # NoKey

VARIABLES
  table,  \* table[k]: the committed row k
  edits,  \* edits[s]: the edit that slot s is at
  due     \* history: due[k] is row k if it holds all that was acknowledged

rowVars == <<table, edits, due>>

Edit == [key   : Keys \cup {NoKey},
         mine  : Row \cup {Unknown},  \* the object, as changed
         asked : SUBSET Columns,  \* the columns that the request changes
         left  : SUBSET Columns,  \* those that save has yet to compare
         dirty : SUBSET Columns]  \* those that it found to differ

NoEdit == [key |-> NoKey, mine |-> Unknown, asked |-> {}, left |-> {}, dirty |-> {}]

Editing(s) == edits[s].key # NoKey

Overwrite(row, new, columns) ==
  [c \in Columns |-> IF c \in columns THEN new[c] ELSE row[c]]

-----------------------------------------------------------------------------
(* What was promised.  A change that is acknowledged is due from then on;  *)
(* but where it lands while another edit holds an older reading of the row *)
(* the two may undo each other, and nothing is promised of the row again.  *)
(* Nor is it where a failure was answered as if all had been saved.        *)

Overtakes(s, k) == \E t \in Slots \ {s} : edits[t].key = k

Promise(s, keys, new, columns) ==
  due' = [k \in Keys |->
            IF k \notin keys THEN due[k]
            ELSE IF due[k] = Unknown \/ Overtakes(s, k) THEN Unknown
            ELSE Overwrite(due[k], new, columns)]

-----------------------------------------------------------------------------
(* Edits *)

\* findOne, and the changes to the object: `mine` is what becomes of the row that
\* was read, of which `asked` were to be changed, and `columns` will be saved.
ReadRow(s, k, mine, asked, columns) ==
  /\ edits' = [edits EXCEPT ![s] = [key |-> k, mine |-> mine, asked |-> asked,
                                    left |-> columns, dirty |-> {}]]
  /\ UNCHANGED <<table, due>>

\* save reads the row again and compares some of the columns.
CompareColumns(s, columns) ==
  LET edit == edits[s] IN
  /\ edits' = [edits EXCEPT
       ![s].left = @ \ columns,
       ![s].dirty = @ \cup {c \in columns : edit.mine[c] # table[edit.key][c]}]
  /\ UNCHANGED <<table, due>>

\* A member that another edit added meanwhile is in the join table, whose primary
\* key refuses it a second time.
Conflict(s, members, yes) ==
  \E c \in edits[s].dirty \cap members :
    edits[s].mine[c] = yes /\ table[edits[s].key][c] = yes

EndEdit(s) == edits' = [edits EXCEPT ![s] = NoEdit]

\* save writes the columns it found to differ, and the transaction commits.
SaveRow(s) ==
  LET edit == edits[s] IN
  /\ table' = [table EXCEPT ![edit.key] = Overwrite(@, edit.mine, edit.dirty)]
  /\ Promise(s, {edit.key}, edit.mine, edit.asked)
  /\ EndEdit(s)

\* The transaction is rolled back, and the request answered with an error.
AbandonEdit(s) == EndEdit(s) /\ UNCHANGED <<table, due>>

\* The transaction is rolled back, and the request answered as if it had not been:
\* what the client was told the row does not hold.
LoseEdit(s) ==
  /\ due' = [due EXCEPT ![edits[s].key] = Unknown]
  /\ EndEdit(s)
  /\ UNCHANGED table

-----------------------------------------------------------------------------
(* Updates and inserts *)

UpdateRows(s, keys, new, columns) ==
  /\ table' = [k \in Keys |-> IF k \in keys THEN Overwrite(table[k], new, columns)
                                            ELSE table[k]]
  /\ Promise(s, keys, new, columns)
  /\ UNCHANGED edits

InsertRow(k, row) ==
  /\ table' = [table EXCEPT ![k] = row]
  /\ due' = [due EXCEPT ![k] = row]
  /\ UNCHANGED edits

-----------------------------------------------------------------------------
(* Properties *)

RowTypes ==
  /\ table \in [Keys -> Row]
  /\ edits \in [Slots -> Edit]
  /\ due \in [Keys -> Row \cup {Unknown}]

\* An acknowledged change lasts until it is changed again, whatever else of its
\* row is changed meanwhile and by whom: only requests that overlap on a row can
\* undo what one of them did, and only a failed save that was answered as if it had
\* succeeded leaves out what the client was told.
AcknowledgedChangesLast ==
  \A k \in Keys : due[k] # Unknown => table[k] = due[k]

\* What clients can rely on, of the rows that are `there`.
Reliable(there) ==
  [k \in Keys |-> IF k \notin there THEN NoKey
                  ELSE IF due[k] = Unknown THEN Unknown ELSE table[k]]

=============================================================================
