---------------------------- MODULE AccountProofs ----------------------------
(***************************************************************************)
(* That the accounts stay well typed, that acknowledged changes of them    *)
(* last, that a code resets one password once and that accounts with an    *)
(* email or a phone number in common signed up at the same time: for any   *)
(* accounts, clients, codes and numbers of requests at once.               *)
(***************************************************************************)
EXTENDS Accounts, RowEditProofs

-----------------------------------------------------------------------------
(* The inductive invariant *)

\* What a request has learnt, and still holds.
Informed(call) ==
  /\ call.op # "none" => call.who \in Identity
  /\ call.op = "reset" => call.code # NoCode
  /\ call.op \in {"checked", "named", "inserted"} =>
       /\ call.before \subseteq exists
       /\ \A a \in call.before : /\ identity[a].email # call.who.email
                                 /\ identity[a].phone # call.who.phone

CallInv == \A s \in Slots : Informed(calls[s])

\* Edits are of accounts that exist, and of their profile or one of their services.
Editable == {{"profile"}} \cup {{service} : service \in Services}
EditInv ==
  \A s \in Slots : Editing(s) =>
    /\ edits[s].key \in exists /\ calls[s].op = "none"
    /\ edits[s].asked \in Editable

\* No account has a code that was used, unless an edit put it back.
CodeInv ==
  /\ NoCode \notin spent
  /\ \A a \in exists : due[a] # Unknown => table[a]["otp"] \notin spent

AccountInv == TypeOK /\ RowInv /\ CallInv /\ EditInv /\ CodeInv

\* The columns and what they can hold.
LEMMA ColumnsAre ==
  /\ {"password", "otp", "verified", "profile"} \cup Services \subseteq Columns
  /\ {Yes, No, NoCode} \cup Passwords \cup Codes \cup Profiles \subseteq Values
  /\ "password" # "otp" /\ "profile" \notin AuthColumns
  /\ Columns = AuthColumns \cup {"profile"}
BY AccountAssumption DEF AuthColumns

LEMMA EditableSpares ==
  ASSUME NEW asked \in Editable
  PROVE  /\ asked \subseteq Columns \ {"password", "otp"}
         /\ asked \in Aspects
BY ColumnsAre, AccountAssumption DEF Editable, Aspects

LEMMA NoCallIsCall == NoCall \in Call /\ Informed(NoCall)
BY ColumnsAre DEF NoCall, Call, Informed

-----------------------------------------------------------------------------
(* Steps that only move a request on *)

LEMMA CallKeeps ==
  ASSUME AccountInv, NEW s \in Slots, NEW new \in Call,
         calls' = [calls EXCEPT ![s] = new], UNCHANGED <<rowVars, exists, identity, spent>>,
         Informed(new), ~Editing(s)
  PROVE  AccountInv'
<1>1. RowInv'
  BY UnchangedKeeps DEF AccountInv
<1>2. TypeOK'
  BY <1>1 DEF AccountInv, TypeOK, RowInv
<1>3. calls'[s] = new /\ \A t \in Slots \ {s} : calls'[t] = calls[t]
  BY DEF AccountInv, TypeOK
<1>4. CallInv'
  BY <1>3 DEF AccountInv, CallInv, Informed
<1>5. EditInv'
  BY <1>3 DEF AccountInv, EditInv, Editing, rowVars
<1>6. CodeInv'
  BY DEF AccountInv, CodeInv, rowVars
<1> QED BY <1>1, <1>2, <1>4, <1>5, <1>6 DEF AccountInv

\* A request that is under way is no edit.
LEMMA AwaitingIsNoEdit ==
  ASSUME AccountInv, NEW s \in Slots, calls[s].op # "none"
  PROVE  ~Editing(s) /\ calls[s] \in Call /\ Informed(calls[s])
BY DEF AccountInv, EditInv, CallInv, TypeOK

LEMMA DoneKeeps ==
  ASSUME AccountInv, NEW s \in Slots, calls[s].op # "none", Done(s),
         UNCHANGED <<rowVars, exists, identity, spent>>
  PROVE  AccountInv'
BY NoCallIsCall, AwaitingIsNoEdit, CallKeeps DEF Done

LEMMA CreateAccountKeeps ==
  ASSUME AccountInv, NEW s \in Slots, CreateAccount(s)
  PROVE  AccountInv'
<1>1. PICK email \in Emails, phone \in Phones :
        /\ ~Known(email, phone)
        /\ calls' = [calls EXCEPT
             ![s] = [NoCall EXCEPT
               !.op = "checked", !.before = exists,
               !.who = [email |-> email, phone |-> phone, userId |-> NoUserId]]]
  BY DEF CreateAccount
<1> DEFINE who == [email |-> email, phone |-> phone, userId |-> NoUserId]
           new == [NoCall EXCEPT !.op = "checked", !.before = exists, !.who = who]
<1>2. new \in Call /\ new.op = "checked" /\ new.before = exists /\ new.who = who
  BY NoCallIsCall DEF Call, Identity, AccountInv, TypeOK
<1>3. calls' = [calls EXCEPT ![s] = new]
  BY <1>1
<1> HIDE DEF new
<1>4. Informed(new)
  BY <1>1, <1>2 DEF Informed, Known, Identity
<1> QED BY <1>2, <1>3, <1>4, CallKeeps DEF CreateAccount, Idle

LEMMA GenerateUniqueIDKeeps ==
  ASSUME AccountInv, NEW s \in Slots, GenerateUniqueID(s)
  PROVE  AccountInv'
<1>1. PICK id \in UserIds :
        calls' = [calls EXCEPT ![s].op = "named", ![s].who.userId = id]
  BY DEF GenerateUniqueID
<1>2. ~Editing(s) /\ calls[s] \in Call /\ Informed(calls[s]) /\ calls[s].op = "checked"
  BY AwaitingIsNoEdit DEF GenerateUniqueID
<1> DEFINE new == [calls[s] EXCEPT !.op = "named", !.who = [@ EXCEPT !.userId = id]]
<1>3. calls' = [calls EXCEPT ![s] = new]
  BY <1>1 DEF AccountInv, TypeOK
<1>4. calls[s].who \in Identity
  BY <1>2 DEF Informed
<1>5. [calls[s].who EXCEPT !.userId = id] \in Identity
  BY <1>4 DEF Identity
<1>6. new \in Call
  BY <1>2, <1>5 DEF Call
<1>7. Informed(new)
  BY <1>2, <1>4, <1>5 DEF Informed, Identity, Call
<1> QED BY <1>2, <1>3, <1>6, <1>7, CallKeeps DEF GenerateUniqueID

LEMMA InsertAuthKeeps ==
  ASSUME AccountInv, NEW s \in Slots, InsertAuth(s)
  PROVE  AccountInv'
<1> DEFINE new == [calls[s] EXCEPT !.op = "inserted"]
<1>1. ~Editing(s) /\ calls[s] \in Call /\ Informed(calls[s]) /\ calls[s].op = "named"
  BY AwaitingIsNoEdit DEF InsertAuth
<1>2. calls' = [calls EXCEPT ![s] = new]
  BY DEF InsertAuth, AccountInv, TypeOK
<1>3. new \in Call /\ Informed(new)
  BY <1>1 DEF Call, Informed
<1> QED BY <1>1, <1>2, <1>3, CallKeeps DEF InsertAuth

\* The three requests about a code.
LEMMA BecomeKeeps ==
  ASSUME AccountInv, NEW s \in Slots, Idle(s), NEW op \in {"verify", "issue", "reset"},
         NEW a \in exists, NEW code \in Values, NEW password \in Values,
         op = "reset" => code # NoCode,
         Become(s, op, identity[a], code, password), UNCHANGED <<rowVars, exists, identity, spent>>
  PROVE  AccountInv'
<1> DEFINE new == [NoCall EXCEPT !.op = op, !.who = identity[a],
                                 !.code = code, !.password = password]
<1>1. identity[a] \in Identity
  BY DEF AccountInv, TypeOK
<1>2. new \in Call /\ new.op = op /\ new.who = identity[a] /\ new.code = code
  BY <1>1, NoCallIsCall DEF Call
<1>3. calls' = [calls EXCEPT ![s] = new]
  BY DEF Become
<1> HIDE DEF new
<1>4. Informed(new)
  BY <1>1, <1>2 DEF Informed
<1> QED BY <1>2, <1>3, <1>4, CallKeeps DEF Idle

LEMMA RequestsKeep ==
  ASSUME AccountInv, NEW s \in Slots,
         VerifyAccount(s) \/ ResendOtp(s) \/ RequestResetPassword(s) \/ ResetPassword(s)
  PROVE  AccountInv'
<1>1. CASE VerifyAccount(s)
  BY <1>1, BecomeKeeps, ColumnsAre DEF VerifyAccount
<1>2. CASE ResendOtp(s) \/ RequestResetPassword(s)
  BY <1>2, BecomeKeeps, ColumnsAre DEF ResendOtp, RequestResetPassword, RequestCode
<1>3. CASE ResetPassword(s)
  <2>1. PICK a \in exists, password \in Passwords :
          table[a]["otp"] # NoCode /\ Become(s, "reset", identity[a], table[a]["otp"], password)
    BY <1>3 DEF ResetPassword
  <2>2. table[a]["otp"] \in Values
    BY ColumnsAre DEF AccountInv, TypeOK, RowTypes, Row
  <2> QED BY <1>3, <2>1, <2>2, BecomeKeeps, ColumnsAre DEF ResetPassword
<1> QED BY <1>1, <1>2, <1>3

LEMMA CallStepsKeep ==
  ASSUME AccountInv, NEW s \in Slots,
         UserIdTaken(s) \/ SignUpFailed(s) \/ CallFailed(s)
  PROVE  AccountInv'
BY DoneKeeps DEF UserIdTaken, SignUpFailed, CallFailed, SigningUp

-----------------------------------------------------------------------------
(* Edits *)

LEMMA EditKeeps ==
  ASSUME AccountInv, UNCHANGED <<exists, identity, calls, spent>>, RowInv', EditInv',
         \A a \in Keys : due'[a] # Unknown =>
           due[a] # Unknown /\ table'[a]["otp"] = table[a]["otp"]
  PROVE  AccountInv'
<1>1. TypeOK'
  BY DEF AccountInv, TypeOK, RowInv
<1>2. CallInv'
  BY DEF AccountInv, CallInv, Informed
<1>3. CodeInv'
  BY DEF AccountInv, CodeInv, TypeOK
<1> QED BY <1>1, <1>2, <1>3 DEF AccountInv

LEMMA ReadingKeeps ==
  ASSUME AccountInv, NEW s \in Slots, Idle(s), NEW a \in exists, NEW mine \in Row,
         NEW columns \in SUBSET Columns, NEW asked \in SUBSET columns,
         asked \in Editable,
         \A c \in Columns \ asked : mine[c] = table[a][c],
         ReadRow(s, a, mine, asked, columns), UNCHANGED <<exists, identity, calls, spent>>
  PROVE  AccountInv'
<1>1. a \in Keys
  BY DEF AccountInv, TypeOK
<1>2. RowInv'
  BY <1>1, ReadKeeps DEF AccountInv
<1>3. EditInv'
  BY DEF AccountInv, EditInv, Editing, Idle, ReadRow, TypeOK, RowTypes
<1> QED BY <1>2, <1>3, EditKeeps DEF ReadRow

LEMMA ReadsKeep ==
  ASSUME AccountInv, NEW s \in Slots, UpdateUser(s) \/ UpdateUserAidService(s)
  PROVE  AccountInv'
<1>1. \A a \in exists : table[a] \in [Columns -> Values]
  BY DEF AccountInv, TypeOK, RowTypes, Row
<1>2. CASE UpdateUser(s)
  <2>1. PICK a \in exists, profile \in Profiles, named \in BOOLEAN :
          ReadRow(s, a, [table[a] EXCEPT !["profile"] = profile], {"profile"},
                  IF named THEN (AuthColumns \ Services) \cup {"profile"} ELSE {"profile"})
    BY <1>2 DEF UpdateUser
  <2> DEFINE mine == [table[a] EXCEPT !["profile"] = profile]
             columns == IF named THEN (AuthColumns \ Services) \cup {"profile"}
                                 ELSE {"profile"}
  <2>2. mine \in Row /\ \A c \in Columns \ {"profile"} : mine[c] = table[a][c]
    BY <1>1, ColumnsAre DEF Row
  <2>3. columns \in SUBSET Columns /\ {"profile"} \in SUBSET columns
    BY ColumnsAre
  <2>4. {"profile"} \in Editable
    BY DEF Editable
  <2> HIDE DEF mine, columns
  <2>5. ReadRow(s, a, mine, {"profile"}, columns)
    BY <2>1 DEF mine, columns
  <2> QED BY <1>2, <2>2, <2>3, <2>4, <2>5, ReadingKeeps DEF UpdateUser
<1>3. CASE UpdateUserAidService(s)
  <2>1. PICK a \in exists, service \in Services :
          ReadRow(s, a, [table[a] EXCEPT ![service] = Offered(a, service)], {service},
                  AuthColumns)
    BY <1>3 DEF UpdateUserAidService
  <2> DEFINE mine == [table[a] EXCEPT ![service] = Offered(a, service)]
  <2>2. Offered(a, service) \in Values
    BY ColumnsAre DEF Offered
  <2>3. mine \in Row /\ \A c \in Columns \ {service} : mine[c] = table[a][c]
    BY <1>1, <2>2, ColumnsAre DEF Row
  <2>4. AuthColumns \in SUBSET Columns /\ {service} \in SUBSET AuthColumns
    BY ColumnsAre DEF AuthColumns
  <2>5. {service} \in Editable
    BY DEF Editable
  <2> HIDE DEF mine
  <2>6. ReadRow(s, a, mine, {service}, AuthColumns)
    BY <2>1 DEF mine
  <2> QED BY <1>3, <2>3, <2>4, <2>5, <2>6, ReadingKeeps DEF UpdateUserAidService
<1> QED BY <1>2, <1>3

LEMMA ComparesKeep ==
  ASSUME AccountInv, NEW s \in Slots, AuthCompared(s) \/ ProfileCompared(s)
  PROVE  AccountInv'
<1>1. Editing(s) /\ edits[s] \in Edit /\ EditInv
  BY DEF AuthCompared, ProfileCompared, AccountInv, TypeOK, RowTypes
<1>2. PICK columns \in SUBSET Columns : CompareColumns(s, columns)
  BY <1>1, ColumnsAre DEF AuthCompared, ProfileCompared, Edit
<1>3. RowInv'
  BY <1>1, <1>2, CompareKeeps DEF AccountInv
<1>4. \A t \in Slots : edits'[t].key = edits[t].key /\ edits'[t].asked = edits[t].asked
  BY <1>1, <1>2 DEF CompareColumns, AccountInv, TypeOK, RowTypes, Edit
<1>5. EditInv'
  BY <1>1, <1>4 DEF EditInv, Editing, AuthCompared, ProfileCompared
<1> QED BY <1>2, <1>3, <1>5, EditKeeps DEF CompareColumns, AuthCompared, ProfileCompared

\* Saving an edit gives nobody another password or code, while the row is promised.
LEMMA SaveSparesCodes ==
  ASSUME AccountInv, NEW s \in Slots, EditCommitted(s), NEW a \in Keys
  PROVE  /\ due'[a] # Unknown => due[a] # Unknown
         /\ due[a] # Unknown => /\ table'[a]["otp"] = table[a]["otp"]
                                /\ table'[a]["password"] = table[a]["password"]
<1> DEFINE edit == edits[s]
<1>1. /\ edit.key \in exists /\ edit.asked \subseteq Columns \ {"password", "otp"}
      /\ InStep(s) /\ edit.key \in Keys
  BY EditableSpares DEF EditCommitted, AccountInv, EditInv, RowInv, TypeOK
<1>2. /\ table' = [table EXCEPT ![edit.key] = Overwrite(@, edit.mine, edit.dirty)]
      /\ Promise(s, {edit.key}, edit.mine, edit.asked)
  BY DEF EditCommitted, SaveRow
<1>3. due'[a] # Unknown => due[a] # Unknown
  BY <1>2 DEF Promise
<1>4. ASSUME due[a] # Unknown, NEW c \in {"password", "otp"}
      PROVE  table'[a][c] = table[a][c]
  <2>1. c \in Columns
    BY ColumnsAre
  <2>2. CASE a = edit.key
    <3>1. edit.mine[c] = table[a][c]
      BY <1>1, <1>4, <2>1, <2>2 DEF InStep
    <3>2. table'[a] = Overwrite(table[a], edit.mine, edit.dirty)
      BY <1>1, <1>2, <2>2 DEF AccountInv, TypeOK, RowTypes
    <3> QED BY <2>1, <3>1, <3>2 DEF Overwrite
  <2>3. CASE a # edit.key
    BY <1>2, <2>3 DEF AccountInv, TypeOK, RowTypes
  <2> QED BY <2>2, <2>3
<1> QED BY <1>3, <1>4

LEMMA EndsKeep ==
  ASSUME AccountInv, NEW s \in Slots,
         EditCommitted(s) \/ EditRefused(s) \/ EditFailed(s)
  PROVE  AccountInv'
<1>1. EditInv'
  BY DEF EditCommitted, EditRefused, EditFailed, SaveRow, AbandonEdit, EndEdit, NoEdit,
         Editing, AccountInv, EditInv, TypeOK, RowTypes
<1>2. CASE EditCommitted(s)
  <2>1. RowInv'
    BY <1>2, SaveKeeps DEF EditCommitted, AccountInv
  <2> QED BY <1>1, <1>2, <2>1, SaveSparesCodes, EditKeeps DEF EditCommitted
<1>3. CASE EditRefused(s) \/ EditFailed(s)
  <2>1. RowInv'
    BY <1>3, AbandonKeeps DEF EditRefused, EditFailed, AccountInv
  <2> QED BY <1>1, <1>3, <2>1, EditKeeps DEF EditRefused, EditFailed, AbandonEdit
<1> QED BY <1>2, <1>3

-----------------------------------------------------------------------------
(* Statements that change rows                                               *)

\* What the three updates have in common: they end a call, and give new codes.
LEMMA UpdateStepKeeps ==
  ASSUME AccountInv, NEW s \in Slots, calls[s].op # "none", Done(s),
         NEW keys, NEW new \in Row, NEW columns, UpdateRows(s, keys, new, columns),
         UNCHANGED <<exists, identity>>, CodeInv', spent' \subseteq Values
  PROVE  AccountInv'
<1>1. ~Editing(s)
  BY AwaitingIsNoEdit
<1>2. RowInv'
  BY <1>1, UpdateKeeps DEF AccountInv
<1>3. calls'[s] = NoCall /\ \A t \in Slots \ {s} : calls'[t] = calls[t]
  BY DEF Done, AccountInv, TypeOK
<1>4. TypeOK'
  BY <1>2, NoCallIsCall DEF Done, AccountInv, TypeOK, RowInv
<1>5. CallInv'
  BY <1>3, NoCallIsCall DEF AccountInv, CallInv, Informed
<1>6. EditInv'
  BY <1>1, <1>3 DEF AccountInv, EditInv, Editing, UpdateRows
<1> QED BY <1>2, <1>4, <1>5, <1>6 DEF AccountInv

LEMMA AccountVerifiedKeeps ==
  ASSUME AccountInv, NEW s \in Slots, AccountVerified(s)
  PROVE  AccountInv'
<1> DEFINE new == [c \in Columns |-> Yes]
<1>1. new \in Row /\ UpdateRows(s, AccountsOf(calls[s].who.email), new, {"verified"})
  BY ColumnsAre DEF AccountVerified, Row
<1> HIDE DEF new
<1>2. ASSUME NEW a \in exists, due'[a] # Unknown
      PROVE  due[a] # Unknown /\ table'[a]["otp"] = table[a]["otp"]
  <2>1. a \in Keys /\ "otp" \in Columns /\ "otp" # "verified"
    BY ColumnsAre DEF AccountInv, TypeOK
  <2> QED BY <1>1, <1>2, <2>1 DEF UpdateRows, Promise, Overwrite
<1>3. CodeInv'
  BY <1>2 DEF CodeInv, AccountInv, AccountVerified
<1> QED BY <1>1, <1>3, UpdateStepKeeps DEF AccountVerified, AccountInv, TypeOK

LEMMA CodeIssuedKeeps ==
  ASSUME AccountInv, NEW s \in Slots, CodeIssued(s)
  PROVE  AccountInv'
<1>1. PICK code \in Codes :
        /\ UpdateRows(s, AccountsOf(calls[s].who.email), [c \in Columns |-> code], {"otp"})
        /\ spent' = spent \ {code}
  BY DEF CodeIssued
<1> DEFINE new == [c \in Columns |-> code]
<1>2. new \in Row /\ new["otp"] = code
  BY ColumnsAre DEF Row
<1>3. UpdateRows(s, AccountsOf(calls[s].who.email), new, {"otp"})
  BY <1>1
<1> HIDE DEF new
<1>4. ASSUME NEW a \in exists, due'[a] # Unknown
      PROVE  due[a] # Unknown /\ table'[a]["otp"] \in {table[a]["otp"], code}
  <2>1. a \in Keys /\ "otp" \in Columns
    BY ColumnsAre DEF AccountInv, TypeOK
  <2> QED BY <1>2, <1>3, <1>4, <2>1 DEF UpdateRows, Promise, Overwrite
<1>5. CodeInv'
  BY <1>1, <1>4 DEF CodeInv, AccountInv, CodeIssued
<1> QED BY <1>1, <1>2, <1>3, <1>5, UpdateStepKeeps DEF CodeIssued, AccountInv, TypeOK

LEMMA PasswordResetKeeps ==
  ASSUME AccountInv, NEW s \in Slots, PasswordReset(s)
  PROVE  AccountInv'
<1> DEFINE new == [c \in Columns |-> IF c = "password" THEN calls[s].password ELSE NoCode]
<1>1. calls[s] \in Call /\ Informed(calls[s]) /\ calls[s].op = "reset"
  BY AwaitingIsNoEdit DEF PasswordReset
<1>2. new \in Row /\ new["otp"] = NoCode
  BY <1>1, ColumnsAre DEF Row, Call
<1>3. UpdateRows(s, HoldersOfCode(s), new, {"password", "otp"})
  BY DEF PasswordReset
<1> HIDE DEF new
<1>4. spent' = spent \cup {calls[s].code} /\ calls[s].code \in Values \ {NoCode}
  BY <1>1 DEF PasswordReset, Informed, Call
<1>5. ASSUME NEW a \in exists, due'[a] # Unknown
      PROVE  table'[a]["otp"] \notin spent'
  <2>1. a \in Keys /\ "otp" \in Columns /\ due[a] # Unknown
    BY <1>3, <1>5, ColumnsAre DEF AccountInv, TypeOK, UpdateRows, Promise
  <2>2. table[a]["otp"] \notin spent /\ NoCode \notin spent
    BY <2>1 DEF AccountInv, CodeInv
  <2>3. CASE a \in HoldersOfCode(s)
    <3>1. table'[a]["otp"] = NoCode
      BY <1>2, <1>3, <2>1, <2>3 DEF UpdateRows, Overwrite
    <3> QED BY <1>4, <2>2, <3>1
  <2>4. CASE a \notin HoldersOfCode(s)
    <3>1. table'[a] = table[a] /\ table[a]["otp"] # calls[s].code
      BY <1>3, <2>1, <2>4 DEF UpdateRows, HoldersOfCode
    <3> QED BY <1>4, <2>2, <3>1
  <2> QED BY <2>3, <2>4
<1>6. CodeInv'
  BY <1>4, <1>5 DEF CodeInv, AccountInv, PasswordReset
<1>7. spent' \subseteq Values
  BY <1>4 DEF AccountInv, TypeOK
<1> QED BY <1>1, <1>2, <1>3, <1>6, <1>7, UpdateStepKeeps DEF PasswordReset

LEMMA AccountCreatedKeeps ==
  ASSUME AccountInv, NEW s \in Slots, AccountCreated(s)
  PROVE  AccountInv'
<1> DEFINE NewRow(code, password, profile) ==
             [c \in Columns |-> CASE c = "password" -> password
                                  [] c = "otp" -> code
                                  [] c = "verified" -> Yes
                                  [] c = "profile" -> profile
                                  [] OTHER -> No]
<1>1. PICK a \in Keys \ exists, code \in Codes, password \in Passwords, profile \in Profiles :
        /\ InsertRow(a, NewRow(code, password, profile))
        /\ identity' = [identity EXCEPT ![a] = [calls[s].who EXCEPT !.email = Lower[@]]]
        /\ exists' = exists \cup {a}
        /\ spent' = spent \ {code}
  BY DEF AccountCreated
<1> DEFINE row == NewRow(code, password, profile)
           who == [calls[s].who EXCEPT !.email = Lower[@]]
<1>2. row \in Row /\ row["otp"] = code
  BY ColumnsAre DEF Row
<1> HIDE DEF row
<1>3. /\ table' = [table EXCEPT ![a] = row] /\ due' = [due EXCEPT ![a] = row]
      /\ edits' = edits /\ InsertRow(a, row)
  BY <1>1 DEF InsertRow, row
<1>4. calls[s] \in Call /\ Informed(calls[s]) /\ ~Editing(s) /\ calls[s].op = "inserted"
  BY AwaitingIsNoEdit DEF AccountCreated
<1>5. who \in Identity
  BY <1>4, AccountAssumption DEF Informed, Identity
<1>6. \A t \in Slots : edits[t].key # a
  BY RowAssumption DEF AccountInv, EditInv, Editing
<1>7. RowInv'
  BY <1>2, <1>3, <1>6, InsertKeeps DEF AccountInv
<1>8. calls'[s] = NoCall /\ \A t \in Slots \ {s} : calls'[t] = calls[t]
  BY DEF AccountCreated, Done, AccountInv, TypeOK
<1> HIDE DEF who
<1>9. identity' = [identity EXCEPT ![a] = who]
  BY <1>1 DEF who
<1>10. TypeOK'
  <2>1. calls' \in [Slots -> Call]
    BY NoCallIsCall DEF AccountCreated, Done, AccountInv, TypeOK
  <2>2. identity' \in [Keys -> Identity \cup {NoKey}] /\ exists' \subseteq Keys
    BY <1>1, <1>5, <1>9 DEF AccountInv, TypeOK
  <2>3. \A b \in exists' : identity'[b] \in Identity
    BY <1>1, <1>5, <1>9 DEF AccountInv, TypeOK
  <2> QED BY <1>1, <1>7, <2>1, <2>2, <2>3 DEF AccountInv, TypeOK, RowInv
<1>11. CallInv'
  <2>1. \A b \in exists : identity'[b] = identity[b]
    BY <1>1, <1>9 DEF AccountInv, TypeOK
  <2>2. ASSUME NEW t \in Slots \ {s} PROVE Informed(calls[t])'
    BY <1>1, <1>8, <2>1 DEF AccountInv, CallInv, Informed
  <2>3. Informed(calls[s])'
    BY <1>8 DEF NoCall, Informed
  <2> QED BY <2>2, <2>3 DEF CallInv
<1>12. EditInv'
  BY <1>1, <1>3, <1>4, <1>8 DEF AccountInv, EditInv, Editing
<1>13. CodeInv'
  <2>1. ASSUME NEW b \in exists', due'[b] # Unknown
        PROVE  table'[b]["otp"] \notin spent'
    <3>1. CASE b = a
      BY <1>1, <1>2, <1>3, <3>1 DEF AccountInv, TypeOK, RowTypes
    <3>2. CASE b # a
      BY <1>1, <1>3, <2>1, <3>2 DEF AccountInv, CodeInv, TypeOK, RowTypes
    <3> QED BY <3>1, <3>2
  <2> QED BY <1>1, <2>1 DEF AccountInv, CodeInv
<1> QED BY <1>7, <1>10, <1>11, <1>12, <1>13 DEF AccountInv

-----------------------------------------------------------------------------
(* The theorems                                                              *)

LEMMA InitGivesAccountInv == Init => AccountInv
<1> SUFFICES ASSUME Init PROVE AccountInv
  OBVIOUS
<1>1. PICK password \in Passwords, profile \in Profiles, verified \in SUBSET exists :
        table = [a \in Keys |-> OldRow(password, IF a \in verified THEN Yes ELSE No, profile)]
  BY DEF Init
<1>2. \A value \in {Yes, No} : OldRow(password, value, profile) \in Row
  BY ColumnsAre DEF OldRow, Row
<1>3. table \in [Keys -> Row]
  BY <1>1, <1>2
<1>4. NoEdit \in Edit
  BY DEF NoEdit, Edit
<1>5. RowInv
  BY <1>3, <1>4 DEF Init, RowInv, RowTypes, AcknowledgedChangesLast, Editing, NoEdit
<1>6. PICK email \in [exists -> Emails], phone \in [exists -> Phones], id \in [exists -> UserIds] :
        identity = [a \in Keys |->
          IF a \in exists THEN [email |-> Lower[email[a]], phone |-> phone[a], userId |-> id[a]]
                          ELSE NoKey]
  BY DEF Init
<1>7. \A a \in exists :
        [email |-> Lower[email[a]], phone |-> phone[a], userId |-> id[a]] \in Identity
  BY AccountAssumption DEF Identity
<1>8. exists \subseteq Keys
  BY AccountAssumption DEF Init
<1>9. /\ identity \in [Keys -> Identity \cup {NoKey}]
      /\ \A a \in exists : identity[a] \in Identity
  BY <1>6, <1>7, <1>8
<1>10. TypeOK
  BY <1>5, <1>8, <1>9, NoCallIsCall DEF Init, TypeOK, RowInv
<1>11. CallInv /\ EditInv /\ CodeInv
  BY NoCallIsCall DEF Init, CallInv, EditInv, CodeInv, Editing, NoEdit
<1> QED BY <1>5, <1>10, <1>11 DEF AccountInv

LEMMA NextKeepsAccountInv == AccountInv /\ [Next]_vars => AccountInv'
<1> SUFFICES ASSUME AccountInv, [Next]_vars PROVE AccountInv'
  OBVIOUS
<1>1. CASE UNCHANGED vars
  <2>1. RowInv'
    BY <1>1, UnchangedKeeps DEF AccountInv, vars
  <2> QED BY <1>1, <2>1 DEF vars, rowVars, AccountInv, TypeOK, RowInv, CallInv, Informed,
                           EditInv, Editing, CodeInv
<1>2. CASE Next
  <2>1. PICK s \in Slots : Start(s) \/ Answered(s) \/ Failed(s)
    BY <1>2 DEF Next
  <2>2. CASE Start(s)
    BY <2>2, CreateAccountKeeps, RequestsKeep, ReadsKeep DEF Start
  <2>3. CASE Answered(s)
    BY <2>3, GenerateUniqueIDKeeps, InsertAuthKeeps, CallStepsKeep, AccountCreatedKeeps,
       AccountVerifiedKeeps, CodeIssuedKeeps, PasswordResetKeeps, ComparesKeep, EndsKeep
       DEF Answered
  <2>4. CASE Failed(s)
    BY <2>4, CallStepsKeep, EndsKeep DEF Failed
  <2> QED BY <2>1, <2>2, <2>3, <2>4
<1> QED BY <1>1, <1>2

\* The accounts never leave their inductive invariant.
THEOREM AccountInvariant == Spec => []AccountInv
BY InitGivesAccountInv, NextKeepsAccountInv, PTL DEF Spec

\* Every variable keeps its type.
THEOREM AccountTypeCorrect == Spec => []TypeOK
<1>1. AccountInv => TypeOK
  BY DEF AccountInv
<1> QED BY <1>1, AccountInvariant, PTL

\* What was acknowledged of an account is in its row until it is changed again,
\* unless requests that overlap on the row undo it.
THEOREM AccountChangesLast == Spec => []AcknowledgedChangesLast
<1>1. AccountInv => AcknowledgedChangesLast
  BY DEF AccountInv, RowInv
<1> QED BY <1>1, AccountInvariant, PTL

-----------------------------------------------------------------------------
\* Only three actions write to a row that exists, only one adds one.
LEMMA WhatWrites ==
  ASSUME [Next]_vars
  PROVE  \/ UNCHANGED <<table, due, exists>>
         \/ \E s \in Slots :
              \/ AccountCreated(s) \/ AccountVerified(s) \/ CodeIssued(s)
              \/ PasswordReset(s) \/ EditCommitted(s)
BY DEF Next, Start, Answered, Failed, vars, rowVars, CreateAccount, GenerateUniqueID,
   InsertAuth, UserIdTaken, SignUpFailed, VerifyAccount, ResendOtp, RequestResetPassword,
   RequestCode, ResetPassword, UpdateUser, UpdateUserAidService, ReadRow, AuthCompared,
   ProfileCompared, CompareColumns, EditRefused, EditFailed, AbandonEdit, CallFailed

\* A password changes when a reset shows the code that its account holds, and each
\* code does this once for each time that it is issued.
THEOREM ResetsUseTheirCode == Spec => CodesResetOnce
<1>1. ASSUME AccountInv, [Next]_vars, NEW a \in exists,
             due[a] # Unknown, table'[a]["password"] # table[a]["password"]
      PROVE  \E s \in Slots :
               /\ calls[s].op = "reset" /\ calls'[s] = NoCall
               /\ calls[s].code = table[a]["otp"] /\ calls[s].code \notin spent
  <2>1. a \in Keys /\ "password" \in Columns /\ table[a] \in [Columns -> Values]
    BY <1>1, ColumnsAre DEF AccountInv, TypeOK, RowTypes, Row
  <2>2. PICK s \in Slots :
          \/ AccountCreated(s) \/ AccountVerified(s) \/ CodeIssued(s)
          \/ PasswordReset(s) \/ EditCommitted(s)
    BY <1>1, WhatWrites
  <2>3. ~AccountCreated(s)
    BY <1>1, <2>1 DEF AccountCreated, InsertRow, AccountInv, TypeOK, RowTypes
  <2>4. ~AccountVerified(s) /\ ~CodeIssued(s)
    <3>1. ASSUME NEW keys, NEW new, NEW columns, "password" \notin columns,
                 UpdateRows(s, keys, new, columns)
          PROVE  FALSE
      BY <1>1, <2>1, <3>1 DEF UpdateRows, Overwrite
    <3>2. "password" \notin {"verified"} /\ "password" \notin {"otp"}
      OBVIOUS
    <3> QED BY <3>1, <3>2 DEF AccountVerified, CodeIssued
  <2>5. ~EditCommitted(s)
    BY <1>1, <2>1, SaveSparesCodes
  <2>6. PasswordReset(s)
    BY <2>2, <2>3, <2>4, <2>5
  <2>7. a \in HoldersOfCode(s)
    BY <1>1, <2>1, <2>6 DEF PasswordReset, UpdateRows
  <2>8. calls[s].op = "reset" /\ calls'[s] = NoCall
    BY <1>1, <2>6 DEF PasswordReset, Done, AccountInv, TypeOK
  <2> QED BY <1>1, <2>7, <2>8 DEF HoldersOfCode, AccountInv, CodeInv
<1>2. AccountInv /\ [Next]_vars => [ResetsShowTheCode]_vars
  BY <1>1 DEF ResetsShowTheCode
<1> QED BY <1>2, AccountInvariant, PTL DEF CodesResetOnce, Spec

\* Accounts with an email or a phone number in common signed up at the same time, or
\* the second spelled the email with capitals.
THEOREM AccountTwinsOverlap == Spec => TwinsOverlap
<1>1. ASSUME AccountInv, [Next]_vars, NEW a \in exists, NEW b \in exists' \ exists
      PROVE  \E s \in Slots :
               /\ Completes(s, b)
               /\ a \in calls[s].before =>
                    /\ identity[a].phone # identity'[b].phone
                    /\ identity[a].email = identity'[b].email =>
                         calls[s].who.email # Lower[calls[s].who.email]
  <2>1. PICK s \in Slots : AccountCreated(s)
    <3>1. exists' # exists
      BY <1>1
    <3> QED BY <1>1, <3>1, WhatWrites
            DEF AccountVerified, CodeIssued, PasswordReset, EditCommitted
  <2>2. PICK c \in Keys \ exists :
          /\ identity' = [identity EXCEPT ![c] = [calls[s].who EXCEPT !.email = Lower[@]]]
          /\ exists' = exists \cup {c}
    BY <2>1 DEF AccountCreated
  <2>3. c = b
    BY <2>2
  <2>4. identity'[b] = [calls[s].who EXCEPT !.email = Lower[@]]
    BY <1>1, <2>2, <2>3 DEF AccountInv, TypeOK
  <2>5. Completes(s, b)
    BY <1>1, <2>1, <2>4 DEF Completes, AccountCreated, Done, AccountInv, TypeOK
  <2>6. calls[s].who \in Identity /\ Informed(calls[s]) /\ calls[s].op = "inserted"
    BY <1>1, <2>1, AwaitingIsNoEdit DEF AccountCreated, Informed
  <2>7. /\ identity'[b].phone = calls[s].who.phone
        /\ identity'[b].email = Lower[calls[s].who.email]
    BY <2>4, <2>6 DEF Identity
  <2> QED BY <2>5, <2>6, <2>7 DEF Informed
<1>2. AccountInv /\ [Next]_vars => [NewAccountsDiffer]_vars
  BY <1>1 DEF NewAccountsDiffer
<1> QED BY <1>2, AccountInvariant, PTL DEF TwinsOverlap, Spec

-----------------------------------------------------------------------------
(* The accounts implement AtomicRows *)

LEMMA AspectsAreColumns == \A columns \in Aspects : columns \in SUBSET Columns
BY ColumnsAre DEF Aspects

LEMMA PromisedStart ==
  ASSUME AccountInv, due = table
  PROVE  Promised!RowsInit
BY RowAssumption DEF Promised!RowsInit, Promised!Row, Row, Reliable, AccountInv, TypeOK, RowTypes

\* A change of one aspect of rows that exist is one of AtomicRows.
LEMMA LastingChange ==
  ASSUME AccountInv, AccountInv', exists' = exists, NEW columns \in Aspects, Lasts(columns)
  PROVE  Promised!Change(columns)
<1> DEFINE old == Reliable(exists)
           next == [k \in Keys |-> IF k \notin exists THEN NoKey
                                  ELSE IF due'[k] = Unknown THEN Unknown ELSE table'[k]]
<1>1. columns \in SUBSET Columns /\ RowTypes /\ RowTypes'
  BY AspectsAreColumns DEF AccountInv, TypeOK
<1>2. next = Reliable(exists)'
  BY DEF Reliable
<1>3. /\ old = Reliable(exists)
      /\ next = [k \in Keys |-> IF k \notin exists THEN NoKey
                                ELSE IF due'[k] = Unknown THEN Unknown ELSE table'[k]]
  OBVIOUS
<1> HIDE DEF old, next
<1>4. /\ next \in [Keys -> Row \cup {NoKey, Unknown}]
      /\ \A k \in Keys : old[k] \in {NoKey, Unknown} => next[k] = old[k]
      /\ \A j, k \in Keys :
           next[j] \notin {old[j], Unknown} /\ next[k] \notin {old[k], Unknown} =>
             /\ \A c \in Columns \ columns : next[k][c] = old[k][c]
             /\ \A c \in columns : next[j][c] = next[k][c]
  BY <1>1, <1>3, ReliableChange
<1> QED BY <1>2, <1>3, <1>4 DEF Promised!Change, Promised!Changed, Promised!Row, Row

\* Statements reach accounts that exist.
LEMMA AddressedExist ==
  ASSUME AccountInv
  PROVE  /\ \A email : AccountsOf(email) \in SUBSET Keys
         /\ \A s \in Slots : HoldersOfCode(s) \in SUBSET Keys
BY DEF AccountInv, TypeOK, AccountsOf, HoldersOfCode

LEMMA PromisedStep ==
  ASSUME AccountInv, AccountInv', [Next]_vars
  PROVE  [Promised!RowsNext]_(Reliable(exists))
<1>1. CASE UNCHANGED <<table, due, exists>>
  BY <1>1 DEF Reliable
<1>2. ASSUME NEW s \in Slots, AccountCreated(s) PROVE Promised!RowsNext
  <2>1. PICK a, row : /\ a \in Keys \ exists
                      /\ InsertRow(a, row) /\ exists' = exists \cup {a}
    BY <1>2 DEF AccountCreated
  <2>2. /\ Reliable(exists)[a] = NoKey /\ Reliable(exists)'[a] = table'[a]
        /\ table'[a] \in Row
    BY <2>1, RowAssumption DEF Reliable, InsertRow, AccountInv, TypeOK, RowTypes
  <2>3. \A k \in Keys \ {a} : Reliable(exists)'[k] = Reliable(exists)[k]
    BY <2>1 DEF Reliable, InsertRow, AccountInv, TypeOK, RowTypes
  <2>4. Reliable(exists)' = [Reliable(exists) EXCEPT ![a] = Reliable(exists)'[a]]
    BY <2>3 DEF Reliable
  <2> QED BY <2>1, <2>2, <2>4 DEF Promised!RowsNext, Promised!Insert, Promised!Row, Row
<1>3. ASSUME NEW s \in Slots, AccountVerified(s) PROVE Promised!RowsNext
  <2> DEFINE new == [c \in Columns |-> Yes]
  <2>1. Lasts({"verified"})
    <3>1. new \in Row /\ UpdateRows(s, AccountsOf(calls[s].who.email), new, {"verified"})
      BY <1>3, ColumnsAre DEF AccountVerified, Row
    <3> HIDE DEF new
    <3> QED BY <3>1, AddressedExist, UpdateLasts
  <2>2. {"verified"} \in Aspects
    BY DEF Aspects
  <2> QED BY <1>3, <2>1, <2>2, LastingChange DEF AccountVerified, Promised!RowsNext
<1>4. ASSUME NEW s \in Slots, CodeIssued(s) PROVE Promised!RowsNext
  <2>1. Lasts({"otp"})
    <3>1. PICK code \in Codes :
            UpdateRows(s, AccountsOf(calls[s].who.email), [c \in Columns |-> code], {"otp"})
      BY <1>4 DEF CodeIssued
    <3> DEFINE new == [c \in Columns |-> code]
    <3>2. new \in Row /\ UpdateRows(s, AccountsOf(calls[s].who.email), new, {"otp"})
      BY <3>1, ColumnsAre DEF Row
    <3> HIDE DEF new
    <3> QED BY <3>2, AddressedExist, UpdateLasts
  <2>2. {"otp"} \in Aspects
    BY DEF Aspects
  <2> QED BY <1>4, <2>1, <2>2, LastingChange DEF CodeIssued, Promised!RowsNext
<1>5. ASSUME NEW s \in Slots, PasswordReset(s) PROVE Promised!RowsNext
  <2>1. Lasts({"password", "otp"})
    <3> DEFINE new == [c \in Columns |-> IF c = "password" THEN calls[s].password ELSE NoCode]
    <3>1. calls[s].password \in Values
      BY <1>5, AwaitingIsNoEdit DEF PasswordReset, Call
    <3>2. new \in Row /\ UpdateRows(s, HoldersOfCode(s), new, {"password", "otp"})
      BY <1>5, <3>1, ColumnsAre DEF PasswordReset, Row
    <3> HIDE DEF new
    <3> QED BY <3>2, AddressedExist, UpdateLasts
  <2>2. {"password", "otp"} \in Aspects
    BY DEF Aspects
  <2> QED BY <1>5, <2>1, <2>2, LastingChange DEF PasswordReset, Promised!RowsNext
<1>6. ASSUME NEW s \in Slots, EditCommitted(s) PROVE Promised!RowsNext
  <2>1. Lasts(edits[s].asked)
    BY <1>6, SaveLasts DEF EditCommitted, AccountInv
  <2>2. edits[s].asked \in Aspects
    BY <1>6, EditableSpares DEF EditCommitted, AccountInv, EditInv
  <2> QED BY <1>6, <2>1, <2>2, LastingChange DEF EditCommitted, Promised!RowsNext
<1> QED BY <1>1, <1>2, <1>3, <1>4, <1>5, <1>6, WhatWrites

\* Whatever the edits read and save, a request changes what it is about and nothing
\* else of an account, unless requests overlap on the account: AtomicRows.
THEOREM AccountsChangeAtomically == Spec => OneChangeAtATime
<1>1. Init => Promised!RowsInit
  BY InitGivesAccountInv, PromisedStart DEF Init
<1>2. AccountInv /\ AccountInv' /\ [Next]_vars => [Promised!RowsNext]_(Reliable(exists))
  BY PromisedStep
<1> QED BY <1>1, <1>2, AccountInvariant, PTL DEF Spec, OneChangeAtATime, Promised!RowsSpec
=============================================================================
