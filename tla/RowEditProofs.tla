---------------------------- MODULE RowEditProofs ----------------------------
(***************************************************************************)
(* What every way to change a row preserves, for Accounts and RoomRecords  *)
(* alike.                                                                  *)
(***************************************************************************)
EXTENDS RowEdits, TLAPS

\* An object that was read is what the row is, but for the columns that its request
\* changes, as long as something is promised of the row; and what save has compared
\* it will write or need not.
InStep(s) ==
  LET edit == edits[s] IN
  due[edit.key] # Unknown =>
    \A c \in Columns :
      /\ c \notin edit.asked => edit.mine[c] = table[edit.key][c]
      /\ c \in edit.asked \ (edit.left \cup edit.dirty) => edit.mine[c] = table[edit.key][c]

RowInv ==
  /\ RowTypes
  /\ AcknowledgedChangesLast
  /\ \A s \in Slots : Editing(s) => edits[s].mine \in Row /\ InStep(s)

\* What is written is a row again.
LEMMA OverwriteIsRow ==
  ASSUME NEW row \in Row, NEW new \in Row, NEW columns
  PROVE  Overwrite(row, new, columns) \in Row
BY DEF Overwrite, Row

\* Other requests and stuttering leave the rows in order.
LEMMA UnchangedKeeps ==
  ASSUME RowInv, UNCHANGED rowVars
  PROVE  RowInv'
BY DEF RowInv, RowTypes, AcknowledgedChangesLast, Editing, InStep, rowVars

\* A reading is in step with its row.
LEMMA ReadKeeps ==
  ASSUME RowInv, NEW s \in Slots, NEW k \in Keys, NEW mine \in Row,
         NEW columns \in SUBSET Columns, NEW asked \in SUBSET columns,
         \A c \in Columns \ asked : mine[c] = table[k][c],
         ReadRow(s, k, mine, asked, columns)
  PROVE  RowInv'
<1> DEFINE new == [key |-> k, mine |-> mine, asked |-> asked, left |-> columns, dirty |-> {}]
<1>1. new \in Edit
  BY DEF Edit
<1>2. edits' = [edits EXCEPT ![s] = new] /\ table' = table /\ due' = due
  BY DEF ReadRow
<1>3. RowTypes'
  BY <1>1, <1>2 DEF RowInv, RowTypes
<1>4. AcknowledgedChangesLast'
  BY <1>2 DEF RowInv, AcknowledgedChangesLast
<1>5. ASSUME NEW t \in Slots, Editing(t)'
      PROVE  (edits[t].mine \in Row)' /\ InStep(t)'
  <2>1. CASE t = s
    BY <1>2, <2>1 DEF InStep, RowInv, RowTypes
  <2>2. CASE t # s
    BY <1>2, <1>5, <2>2 DEF InStep, Editing, RowInv, RowTypes
  <2> QED BY <2>1, <2>2
<1> QED BY <1>3, <1>4, <1>5 DEF RowInv

\* Comparing moves columns from those left to those known to differ, or drops them
\* because the row has them as they are.
LEMMA CompareKeeps ==
  ASSUME RowInv, NEW s \in Slots, Editing(s), NEW columns \in SUBSET Columns,
         CompareColumns(s, columns)
  PROVE  RowInv'
<1> DEFINE edit == edits[s]
           new == [edit EXCEPT
                     !.left = @ \ columns,
                     !.dirty = @ \cup {c \in columns : edit.mine[c] # table[edit.key][c]}]
<1>1. edit \in Edit
  BY DEF RowInv, RowTypes
<1>2. edits' = [edits EXCEPT ![s] = new] /\ table' = table /\ due' = due
  BY <1>1 DEF CompareColumns, RowInv, RowTypes, Edit
<1>3. new \in Edit
  BY <1>1 DEF Edit
<1>4. RowTypes'
  BY <1>2, <1>3 DEF RowInv, RowTypes
<1>5. AcknowledgedChangesLast'
  BY <1>2 DEF RowInv, AcknowledgedChangesLast
<1>6. ASSUME NEW t \in Slots, Editing(t)'
      PROVE  (edits[t].mine \in Row)' /\ InStep(t)'
  <2>1. CASE t = s
    <3>1. /\ edits'[s].key = edit.key /\ edits'[s].mine = edit.mine
          /\ edits'[s].asked = edit.asked /\ edits'[s].left = edit.left \ columns
          /\ edits'[s].dirty = edit.dirty \cup
               {c \in columns : edit.mine[c] # table[edit.key][c]}
      BY <1>1, <1>2 DEF RowInv, RowTypes, Edit
    <3>2. edit.mine \in Row /\ InStep(s)
      BY DEF RowInv
    <3> QED BY <1>2, <2>1, <3>1, <3>2 DEF InStep
  <2>2. CASE t # s
    BY <1>2, <1>6, <2>2 DEF InStep, Editing, RowInv, RowTypes
  <2> QED BY <2>1, <2>2
<1> QED BY <1>4, <1>5, <1>6 DEF RowInv

\* A transaction that is rolled back leaves nothing behind.
LEMMA AbandonKeeps ==
  ASSUME RowInv, NEW s \in Slots, AbandonEdit(s)
  PROVE  RowInv'
<1>1. edits' = [edits EXCEPT ![s] = NoEdit] /\ table' = table /\ due' = due
  BY DEF AbandonEdit, EndEdit
<1>2. NoEdit \in Edit
  BY DEF NoEdit, Edit
<1>3. RowTypes'
  BY <1>1, <1>2 DEF RowInv, RowTypes
<1>4. AcknowledgedChangesLast'
  BY <1>1 DEF RowInv, AcknowledgedChangesLast
<1>5. ASSUME NEW t \in Slots, Editing(t)'
      PROVE  (edits[t].mine \in Row)' /\ InStep(t)'
  <2>1. t # s
    BY <1>1, <1>5 DEF Editing, NoEdit, RowInv, RowTypes
  <2> QED BY <1>1, <1>5, <2>1 DEF InStep, Editing, RowInv, RowTypes
<1> QED BY <1>3, <1>4, <1>5 DEF RowInv

\* So does one whose failure nobody is told of, since nothing is due any more.
LEMMA LoseKeeps ==
  ASSUME RowInv, NEW s \in Slots, Editing(s), LoseEdit(s)
  PROVE  RowInv'
<1>1. /\ edits' = [edits EXCEPT ![s] = NoEdit] /\ table' = table
      /\ due' = [due EXCEPT ![edits[s].key] = Unknown]
  BY DEF LoseEdit, EndEdit
<1>2. NoEdit \in Edit
  BY DEF NoEdit, Edit
<1>3. RowTypes'
  BY <1>1, <1>2 DEF RowInv, RowTypes
<1>4. \A k \in Keys : due'[k] # Unknown => due[k] # Unknown /\ due'[k] = due[k]
  BY <1>1 DEF RowInv, RowTypes
<1>5. AcknowledgedChangesLast'
  BY <1>1, <1>4 DEF RowInv, AcknowledgedChangesLast
<1>6. ASSUME NEW t \in Slots, Editing(t)'
      PROVE  (edits[t].mine \in Row)' /\ InStep(t)'
  <2>1. t # s /\ edits'[t] = edits[t]
    BY <1>1, <1>6 DEF Editing, NoEdit, RowInv, RowTypes
  <2>2. edits[t].key \in Keys /\ edits[t].mine \in Row /\ InStep(t)
    BY <1>6, <2>1 DEF Editing, RowInv, RowTypes, Edit
  <2> QED BY <1>1, <1>4, <2>1, <2>2 DEF InStep
<1> QED BY <1>3, <1>5, <1>6 DEF RowInv

\* What is promised is of the right type.
LEMMA PromiseType ==
  ASSUME RowTypes, NEW s \in Slots, NEW keys, NEW new \in Row, NEW columns,
         Promise(s, keys, new, columns)
  PROVE  due' \in [Keys -> Row \cup {Unknown}]
<1>1. \A k \in Keys : due[k] # Unknown => Overwrite(due[k], new, columns) \in Row
  BY OverwriteIsRow DEF RowTypes
<1> QED BY <1>1 DEF Promise, RowTypes

\* An edit that is promised writes what it was asked to, and nothing else changes.
LEMMA SaveKeeps ==
  ASSUME RowInv, NEW s \in Slots, Editing(s), edits[s].left = {}, SaveRow(s)
  PROVE  RowInv'
<1> DEFINE edit == edits[s]
           k0 == edit.key
<1>1. edit \in Edit /\ k0 \in Keys /\ edit.mine \in Row /\ InStep(s)
  BY DEF RowInv, RowTypes, Edit, Editing
<1>2. /\ edits' = [edits EXCEPT ![s] = NoEdit]
      /\ table' = [table EXCEPT ![k0] = Overwrite(@, edit.mine, edit.dirty)]
      /\ Promise(s, {k0}, edit.mine, edit.asked)
  BY DEF SaveRow, EndEdit
<1>3. NoEdit \in Edit
  BY DEF NoEdit, Edit
<1>4. RowTypes'
  <2>1. Overwrite(table[k0], edit.mine, edit.dirty) \in Row
    BY <1>1, OverwriteIsRow DEF RowInv, RowTypes
  <2>2. table' \in [Keys -> Row]
    BY <1>1, <1>2, <2>1 DEF RowInv, RowTypes
  <2>3. due' \in [Keys -> Row \cup {Unknown}]
    BY <1>1, <1>2, PromiseType DEF RowInv
  <2> QED BY <1>2, <1>3, <2>2, <2>3 DEF RowInv, RowTypes
<1>5. ASSUME NEW k \in Keys, due'[k] # Unknown
      PROVE  due[k] # Unknown /\ (k = k0 => ~Overtakes(s, k0)) /\ table'[k] = due'[k]
  <2>1. CASE k = k0
    <3>1. /\ due[k] # Unknown /\ ~Overtakes(s, k)
          /\ due'[k] = Overwrite(due[k], edit.mine, edit.asked)
      BY <1>2, <1>5, <2>1 DEF Promise
    <3>2. due[k] = table[k]
      BY <3>1 DEF RowInv, AcknowledgedChangesLast
    <3>3. table'[k] = Overwrite(table[k], edit.mine, edit.dirty)
      BY <1>1, <1>2, <2>1 DEF RowInv, RowTypes
    <3>4. \A c \in Columns : (IF c \in edit.dirty THEN edit.mine[c] ELSE table[k][c])
                              = (IF c \in edit.asked THEN edit.mine[c] ELSE table[k][c])
      BY <1>1, <2>1, <3>1 DEF InStep
    <3> QED BY <2>1, <3>1, <3>2, <3>3, <3>4 DEF Overwrite
  <2>2. CASE k # k0
    BY <1>1, <1>2, <1>5, <2>2 DEF Promise, RowInv, RowTypes, AcknowledgedChangesLast
  <2> QED BY <2>1, <2>2
<1>6. AcknowledgedChangesLast'
  BY <1>5 DEF AcknowledgedChangesLast
<1>7. ASSUME NEW t \in Slots, Editing(t)'
      PROVE  (edits[t].mine \in Row)' /\ InStep(t)'
  <2>1. t # s /\ edits'[t] = edits[t]
    BY <1>2, <1>7 DEF Editing, NoEdit, RowInv, RowTypes
  <2>2. edits[t].key \in Keys /\ edits[t].mine \in Row /\ InStep(t)
    BY <1>7, <2>1 DEF Editing, RowInv, RowTypes, Edit
  <2>3. ASSUME due'[edits[t].key] # Unknown
        PROVE  /\ edits[t].key # k0 /\ due[edits[t].key] # Unknown
               /\ table'[edits[t].key] = table[edits[t].key]
    <3>1. edits[t].key # k0
      BY <1>5, <2>1, <2>2, <2>3 DEF Overtakes
    <3> QED BY <1>1, <1>2, <1>5, <2>2, <2>3, <3>1 DEF RowInv, RowTypes
  <2> QED BY <2>1, <2>2, <2>3 DEF InStep
<1> QED BY <1>4, <1>6, <1>7 DEF RowInv

\* An update reaches the rows that nobody is editing, and due with them; of those
\* that somebody edits nothing is promised any more.
LEMMA UpdateKeeps ==
  ASSUME RowInv, NEW s \in Slots, ~Editing(s), NEW keys, NEW new \in Row, NEW columns,
         UpdateRows(s, keys, new, columns)
  PROVE  RowInv'
<1>1. /\ table' = [k \in Keys |-> IF k \in keys THEN Overwrite(table[k], new, columns)
                                                 ELSE table[k]]
      /\ Promise(s, keys, new, columns)
      /\ edits' = edits
  BY DEF UpdateRows
<1>2. RowTypes'
  <2>1. \A k \in Keys : Overwrite(table[k], new, columns) \in Row
    BY OverwriteIsRow DEF RowInv, RowTypes
  <2>2. table' \in [Keys -> Row]
    BY <1>1, <2>1 DEF RowInv, RowTypes
  <2>3. due' \in [Keys -> Row \cup {Unknown}]
    BY <1>1, PromiseType DEF RowInv
  <2> QED BY <1>1, <2>2, <2>3 DEF RowInv, RowTypes
<1>3. AcknowledgedChangesLast'
  BY <1>1 DEF Promise, RowInv, AcknowledgedChangesLast
<1>4. ASSUME NEW t \in Slots, Editing(t)'
      PROVE  (edits[t].mine \in Row)' /\ InStep(t)'
  <2>1. t # s /\ edits[t].key \in Keys /\ edits[t].mine \in Row /\ InStep(t)
    BY <1>1, <1>4 DEF Editing, RowInv, RowTypes, Edit
  <2>2. ASSUME due'[edits[t].key] # Unknown
        PROVE  /\ due[edits[t].key] # Unknown
               /\ table'[edits[t].key] = table[edits[t].key]
    <3>1. Overtakes(s, edits[t].key)
      BY <2>1 DEF Overtakes
    <3>2. edits[t].key \notin keys
      BY <1>1, <2>1, <2>2, <3>1 DEF Promise
    <3> QED BY <1>1, <2>1, <2>2, <3>2 DEF Promise
  <2> QED BY <1>1, <2>1, <2>2 DEF InStep
<1> QED BY <1>2, <1>3, <1>4 DEF RowInv

\* A new row is due as it is, and nobody is editing it yet.
LEMMA InsertKeeps ==
  ASSUME RowInv, NEW k \in Keys, NEW row \in Row, \A t \in Slots : edits[t].key # k,
         InsertRow(k, row)
  PROVE  RowInv'
<1>1. /\ table' = [table EXCEPT ![k] = row] /\ due' = [due EXCEPT ![k] = row]
      /\ edits' = edits
  BY DEF InsertRow
<1>2. RowTypes'
  BY <1>1 DEF RowInv, RowTypes
<1>3. AcknowledgedChangesLast'
  BY <1>1 DEF RowInv, RowTypes, AcknowledgedChangesLast
<1>4. ASSUME NEW t \in Slots, Editing(t)'
      PROVE  (edits[t].mine \in Row)' /\ InStep(t)'
  <2>1. edits[t].key \in Keys \ {k} /\ edits[t].mine \in Row /\ InStep(t)
    BY <1>1, <1>4 DEF Editing, RowInv, RowTypes, Edit
  <2>2. /\ table'[edits[t].key] = table[edits[t].key]
        /\ due'[edits[t].key] = due[edits[t].key]
    BY <1>1, <2>1 DEF RowInv, RowTypes
  <2> QED BY <1>1, <2>1, <2>2 DEF InStep
<1> QED BY <1>2, <1>3, <1>4 DEF RowInv
-----------------------------------------------------------------------------
(* Single changes *)

\* Of the rows that something is promised of, a step changes these columns and no
\* others, and to the same values wherever it changes them.
Lasts(columns) ==
  \E keys \in SUBSET Keys, new \in Row : \A k \in Keys :
    due'[k] # Unknown =>
      /\ due[k] # Unknown
      /\ table'[k] = IF k \in keys THEN Overwrite(table[k], new, columns) ELSE table[k]

\* An update is such a step by what it does.
LEMMA UpdateLasts ==
  ASSUME NEW s \in Slots, NEW keys \in SUBSET Keys, NEW new \in Row, NEW columns,
         UpdateRows(s, keys, new, columns)
  PROVE  Lasts(columns)
<1>1. ASSUME NEW k \in Keys, due'[k] # Unknown
      PROVE  /\ due[k] # Unknown
             /\ table'[k] = IF k \in keys THEN Overwrite(table[k], new, columns) ELSE table[k]
  BY <1>1 DEF UpdateRows, Promise
<1> QED BY <1>1 DEF Lasts

\* A save is, since the columns that it writes are those that the client asked for,
\* or have the value that is written already.
LEMMA SaveLasts ==
  ASSUME RowInv, NEW s \in Slots, Editing(s), edits[s].left = {}, SaveRow(s)
  PROVE  Lasts(edits[s].asked)
<1> DEFINE edit == edits[s]
<1>1. edit \in Edit /\ edit.key \in Keys /\ edit.mine \in Row /\ InStep(s)
  BY DEF RowInv, RowTypes, Edit, Editing
<1>2. /\ table' = [table EXCEPT ![edit.key] = Overwrite(@, edit.mine, edit.dirty)]
      /\ Promise(s, {edit.key}, edit.mine, edit.asked)
  BY DEF SaveRow
<1>3. ASSUME NEW k \in Keys, due'[k] # Unknown
      PROVE  /\ due[k] # Unknown
             /\ table'[k] = IF k \in {edit.key} THEN Overwrite(table[k], edit.mine, edit.asked)
                                                ELSE table[k]
  <2>1. due[k] # Unknown
    BY <1>2, <1>3 DEF Promise
  <2>2. CASE k = edit.key
    <3>1. table'[k] = Overwrite(table[k], edit.mine, edit.dirty)
      BY <1>1, <1>2, <2>2 DEF RowInv, RowTypes
    <3>2. \A c \in Columns : (IF c \in edit.dirty THEN edit.mine[c] ELSE table[k][c])
                              = (IF c \in edit.asked THEN edit.mine[c] ELSE table[k][c])
      BY <1>1, <2>1, <2>2 DEF InStep
    <3> QED BY <2>1, <2>2, <3>1, <3>2 DEF Overwrite
  <2>3. CASE k # edit.key
    BY <1>1, <1>2, <2>1, <2>3 DEF RowInv, RowTypes
  <2> QED BY <2>2, <2>3
<1>4. {edit.key} \in SUBSET Keys
  BY <1>1
<1> QED BY <1>1, <1>3, <1>4 DEF Lasts

\* A failure that is hidden changes no column; it only takes a promise back.
LEMMA LoseLasts ==
  ASSUME RowInv, NEW s \in Slots, Editing(s), LoseEdit(s), NEW columns
  PROVE  Lasts(columns)
<1>1. /\ edits[s].mine \in Row /\ table' = table
      /\ due' = [due EXCEPT ![edits[s].key] = Unknown]
  BY DEF RowInv, LoseEdit
<1>2. \A k \in Keys : due'[k] # Unknown => due[k] # Unknown
  BY <1>1 DEF RowInv, RowTypes
<1> DEFINE none == {}
<1>3. ASSUME NEW k \in Keys, due'[k] # Unknown
      PROVE  /\ due[k] # Unknown
             /\ table'[k] = IF k \in none THEN Overwrite(table[k], edits[s].mine, columns)
                                          ELSE table[k]
  BY <1>1, <1>2, <1>3
<1>4. none \in SUBSET Keys
  OBVIOUS
<1> HIDE DEF none
<1> QED BY <1>1, <1>3, <1>4 DEF Lasts

\* What clients can rely on before and after such a step: nothing lost comes back,
\* and what changes does so in these columns, and alike.
LEMMA ReliableChange ==
  ASSUME RowTypes, RowTypes', NEW columns \in SUBSET Columns, Lasts(columns),
         NEW there, NEW old, old = Reliable(there),
         NEW next, next = [k \in Keys |-> IF k \notin there THEN NoKey
                                          ELSE IF due'[k] = Unknown THEN Unknown
                                          ELSE table'[k]]
  PROVE  /\ next \in [Keys -> Row \cup {NoKey, Unknown}]
         /\ \A k \in Keys : old[k] \in {NoKey, Unknown} => next[k] = old[k]
         /\ \A j, k \in Keys :
              next[j] \notin {old[j], Unknown} /\ next[k] \notin {old[k], Unknown} =>
                /\ \A c \in Columns \ columns : next[k][c] = old[k][c]
                /\ \A c \in columns : next[j][c] = next[k][c]
<1>1. PICK keys \in SUBSET Keys, new \in Row : \A k \in Keys :
        due'[k] # Unknown =>
          /\ due[k] # Unknown
          /\ table'[k] = IF k \in keys THEN Overwrite(table[k], new, columns) ELSE table[k]
  BY DEF Lasts
<1>2. next \in [Keys -> Row \cup {NoKey, Unknown}]
  BY DEF RowTypes
<1>3. ASSUME NEW k \in Keys
      PROVE  /\ old[k] = IF k \notin there THEN NoKey
                         ELSE IF due[k] = Unknown THEN Unknown ELSE table[k]
             /\ next[k] = IF k \notin there THEN NoKey
                          ELSE IF due'[k] = Unknown THEN Unknown ELSE table'[k]
  BY DEF Reliable
<1>4. ASSUME NEW k \in Keys, old[k] \in {NoKey, Unknown} PROVE next[k] = old[k]
  BY <1>1, <1>3, <1>4, RowAssumption DEF RowTypes
<1>5. ASSUME NEW k \in Keys, next[k] \notin {old[k], Unknown}
      PROVE  /\ old[k] = table[k]
             /\ next[k] = Overwrite(table[k], new, columns)
  BY <1>1, <1>3, <1>5
<1>6. ASSUME NEW j \in Keys, NEW k \in Keys,
             next[j] \notin {old[j], Unknown}, next[k] \notin {old[k], Unknown}
      PROVE  /\ \A c \in Columns \ columns : next[k][c] = old[k][c]
             /\ \A c \in columns : next[j][c] = next[k][c]
  <2>1. /\ old[k] = table[k] /\ next[k] = Overwrite(table[k], new, columns)
        /\ next[j] = Overwrite(table[j], new, columns)
    BY <1>5, <1>6
  <2>2. \A c \in Columns :
          /\ next[k][c] = IF c \in columns THEN new[c] ELSE table[k][c]
          /\ next[j][c] = IF c \in columns THEN new[c] ELSE table[j][c]
    BY <2>1 DEF Overwrite
  <2> QED BY <2>1, <2>2
<1>7. \A k \in Keys : old[k] \in {NoKey, Unknown} => next[k] = old[k]
  BY <1>4
<1> QED BY <1>2, <1>6, <1>7
=============================================================================
