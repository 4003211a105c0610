------------------------------ MODULE AtomicRows ------------------------------
(***************************************************************************)
(* What the services promise who changes a row: a request changes what it  *)
(* is about, at once, and nothing else of the row; or it lands on a row    *)
(* that somebody else is changing, or fails unseen, and then nothing is    *)
(* promised of that row again.                                             *)
(***************************************************************************)
CONSTANTS
  Keys, Columns, Values,
  Aspects,  \* sets of columns that one request changes together
  NoRow,    \* a row that is not there yet
  Lost      \* a row of which nothing is promised any more

VARIABLE rows

Row == [Columns -> Values]

RowsInit == rows \in [Keys -> Row \cup {NoRow}]

Insert(k) ==
  /\ rows[k] = NoRow /\ rows'[k] \in Row
  /\ rows' = [rows EXCEPT ![k] = rows'[k]]

\* The rows that are there after the step and are not what they were.
Changed == {k \in Keys : rows'[k] \notin {rows[k], Lost}}

\* One request reaches as many rows as it likes, and all of them alike.
Change(columns) ==
  /\ rows' \in [Keys -> Row \cup {NoRow, Lost}]
  /\ \A k \in Keys : rows[k] \in {NoRow, Lost} => rows'[k] = rows[k]
  /\ \A k \in Changed :
       /\ \A c \in Columns \ columns : rows'[k][c] = rows[k][c]
       /\ \A j \in Changed, c \in columns : rows'[j][c] = rows'[k][c]

RowsNext == \/ \E k \in Keys : Insert(k)
            \/ \E columns \in Aspects : Change(columns)

RowsSpec == RowsInit /\ [][RowsNext]_rows

=============================================================================
