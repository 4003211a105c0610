------------------------------- MODULE Accounts -------------------------------
(***************************************************************************)
(* The Auth table: sign-up, one-time codes and password resets             *)
(* (src/src/auth/auth.service.ts), and the two services that edit its rows *)
(* (user.service.ts, updateUserAidService in aid-service.service.ts).      *)
(*                                                                         *)
(* A request runs until it needs the database, bcrypt or the mail server,  *)
(* and others run meanwhile; each step below goes from one such await to   *)
(* the next.  A request that is refused changes nothing, and is left out.  *)
(* A code may be in time or not when it is checked: the ten minutes of a   *)
(* code are left to chance, since all that comes of them is a refusal.     *)
(***************************************************************************)
EXTENDS RowEdits, Naturals, FiniteSets

CONSTANTS
  Emails,     \* as clients spell them
  Lower,      \* Lower[e]: toLowerCase
  Phones,
  UserIds,
  Passwords,
  Codes,      \* one-time passwords; six digits, so two may coincide
  Profiles,   \* what a client can tell of a user: names, avatar, gender
  Services,   \* aid services that a user can offer
  Old,        \* accounts that the table may hold to begin with
  Yes, No, NoCode, NoUserId

AuthColumns == {"password", "otp", "verified"} \cup Services

ASSUME AccountAssumption ==
  /\ Columns = AuthColumns \cup {"profile"}
  /\ {Yes, No, NoCode} \cup Passwords \cup Codes \cup Profiles \subseteq Values
  /\ Yes # No /\ NoCode \notin Codes /\ NoUserId \notin UserIds
  /\ {"password", "otp", "verified", "profile"} \cap Services = {}
  /\ Lower \in [Emails -> Emails] /\ \A e \in Emails : Lower[Lower[e]] = Lower[e]
  /\ Old \subseteq Keys /\ IsFiniteSet(Keys)

VARIABLES
  exists,    \* keys of the accounts that exist
  identity,  \* identity[a]: what of account a never changes
  calls,     \* calls[s]: the request that slot s is at, when it is no edit
  spent      \* history: codes that reset a password since they were last issued

vars == <<rowVars, exists, identity, calls, spent>>

Identity == [email : Emails, phone : Phones, userId : UserIds \cup {NoUserId}]

\* "checked", "named" and "inserted" are the stages of a sign-up.
Call == [op : {"none", "checked", "named", "inserted", "verify", "issue", "reset"},
         who : Identity \cup {NoKey}, code : Values, password : Values,
         before : SUBSET Keys]  \* history: the accounts that a sign-up's check saw

TypeOK ==
  /\ RowTypes
  /\ exists \subseteq Keys
  /\ identity \in [Keys -> Identity \cup {NoKey}]
  /\ \A a \in exists : identity[a] \in Identity
  /\ calls \in [Slots -> Call]
  /\ spent \subseteq Values

SigningUp(s) == calls[s].op \in {"checked", "named", "inserted"}
Idle(s)      == calls[s].op = "none" /\ ~Editing(s)
Taken        == {identity[a].userId : a \in exists}

NoCall == [op |-> "none", who |-> NoKey, code |-> NoCode, password |-> No, before |-> {}]

Become(s, op, who, code, password) ==
  calls' = [calls EXCEPT ![s] = [NoCall EXCEPT !.op = op, !.who = who,
                                               !.code = code, !.password = password]]

Done(s) == calls' = [calls EXCEPT ![s] = NoCall]

-----------------------------------------------------------------------------
(* createAccount *)

\* Mistake: a phone number may be used again.
KnownEmail(email, phone) == \E a \in exists : identity[a].email = email

\* findOneBy with the email as it is spelled, though it is stored in lower case.
Known(email, phone) ==
  \E a \in exists : identity[a].email = email \/ identity[a].phone = phone

\* The bound on accounts.
Room == Cardinality(exists) + Cardinality({s \in Slots : SigningUp(s)}) < Cardinality(Keys)

CreateAccount(s) ==
  /\ Idle(s) /\ Room
  /\ \E email \in Emails, phone \in Phones :
       /\ ~Known(email, phone)
       /\ calls' = [calls EXCEPT
            ![s] = [NoCall EXCEPT
              !.op = "checked", !.before = exists,
              !.who = [email |-> email, phone |-> phone, userId |-> NoUserId]]]
  /\ UNCHANGED <<rowVars, exists, identity, spent>>

\* generateUniqueID asks through the repository, outside the transaction.
GenerateUniqueID(s) ==
  /\ calls[s].op = "checked"
  /\ \E id \in UserIds \ Taken :
       calls' = [calls EXCEPT ![s].op = "named", ![s].who.userId = id]
  /\ UNCHANGED <<rowVars, exists, identity, spent>>

\* The row goes into the unique index, or waits there for a transaction that
\* has put the same user id into it.
InsertAuth(s) ==
  /\ calls[s].op = "named"
  /\ calls[s].who.userId \notin Taken
  /\ \A t \in Slots : calls[t].op = "inserted" => calls[t].who.userId # calls[s].who.userId
  /\ calls' = [calls EXCEPT ![s].op = "inserted"]
  /\ UNCHANGED <<rowVars, exists, identity, spent>>

UserIdTaken(s) ==
  /\ calls[s].op = "named" /\ calls[s].who.userId \in Taken
  /\ Done(s)
  /\ UNCHANGED <<rowVars, exists, identity, spent>>

\* The mail is sent and the transaction commits.
AccountCreated(s) ==
  /\ calls[s].op = "inserted"
  /\ \E a \in Keys \ exists, code \in Codes, password \in Passwords, profile \in Profiles :
       /\ InsertRow(a, [c \in Columns |-> CASE c = "password" -> password
                                            [] c = "otp" -> code
                                            [] c = "verified" -> Yes
                                            [] c = "profile" -> profile
                                            [] OTHER -> No])
       /\ identity' = [identity EXCEPT ![a] = [calls[s].who EXCEPT !.email = Lower[@]]]
       /\ exists' = exists \cup {a}
       /\ spent' = spent \ {code}
  /\ Done(s)

\* A query or the mail fails: the transaction is rolled back.
SignUpFailed(s) ==
  /\ SigningUp(s)
  /\ Done(s)
  /\ UNCHANGED <<rowVars, exists, identity, spent>>

-----------------------------------------------------------------------------
(* One-time codes *)

\* What a client says in an OTP request is looked up with `email` as it is;
\* where several accounts have it, the database returns any.
AccountsOf(email) == {a \in exists : identity[a].email = email}

\* The code is not compared with what the client sends.
VerifyAccount(s) ==
  /\ Idle(s)
  /\ \E a \in exists : /\ table[a]["verified"] = No
                       /\ Become(s, "verify", identity[a], NoCode, No)
  /\ UNCHANGED <<rowVars, exists, identity, spent>>

\* Mistake: `undefined` is stored.
AccountVerifiedUndefined(s) ==
  /\ calls[s].op = "verify"
  /\ UpdateRows(s, AccountsOf(calls[s].who.email),
                [c \in Columns |-> IF c = "otp" THEN Unknown ELSE Yes], {"verified", "otp"})
  /\ Done(s)
  /\ UNCHANGED <<exists, identity, spent>>

\* `otp: undefined` is no change of the column.
AccountVerified(s) ==
  /\ calls[s].op = "verify"
  /\ UpdateRows(s, AccountsOf(calls[s].who.email), [c \in Columns |-> Yes], {"verified"})
  /\ Done(s)
  /\ UNCHANGED <<exists, identity, spent>>

\* resendOtp is for accounts that are not verified, requestResetPassword for
\* those that are.
RequestCode(s, verified) ==
  /\ Idle(s)
  /\ \E a \in exists : /\ table[a]["verified"] = verified
                       /\ Become(s, "issue", identity[a], NoCode, No)
  /\ UNCHANGED <<rowVars, exists, identity, spent>>

ResendOtp(s)            == RequestCode(s, No)
RequestResetPassword(s) == RequestCode(s, Yes)

\* Mistake: with a new code the account has to be verified anew.
CodeIssuedUnverified(s) ==
  /\ calls[s].op = "issue"
  /\ \E code \in Codes :
       /\ UpdateRows(s, AccountsOf(calls[s].who.email),
                     [c \in Columns |-> IF c = "verified" THEN No ELSE code],
                     {"otp", "verified"})
       /\ spent' = spent \ {code}
  /\ Done(s)
  /\ UNCHANGED <<exists, identity>>

CodeIssued(s) ==
  /\ calls[s].op = "issue"
  /\ \E code \in Codes :
       /\ UpdateRows(s, AccountsOf(calls[s].who.email), [c \in Columns |-> code], {"otp"})
       /\ spent' = spent \ {code}
  /\ Done(s)
  /\ UNCHANGED <<exists, identity>>

\* The client gave the account's code; bcrypt hashes the new password.
ResetPassword(s) ==
  /\ Idle(s)
  /\ \E a \in exists, password \in Passwords :
       /\ table[a]["verified"] = Yes
       /\ table[a]["otp"] # NoCode
       /\ Become(s, "reset", identity[a], table[a]["otp"], password)
  /\ UNCHANGED <<rowVars, exists, identity, spent>>

\* Mistake: the account is found by its email.
ResetByEmail(s) == AccountsOf(calls[s].who.email)

\* update({otp: auth.otp}): whichever accounts hold the code by now, if any.
HoldersOfCode(s) == {a \in exists : table[a]["otp"] = calls[s].code}

PasswordReset(s) ==
  /\ calls[s].op = "reset"
  /\ UpdateRows(s, HoldersOfCode(s),
                [c \in Columns |-> IF c = "password" THEN calls[s].password ELSE NoCode],
                {"password", "otp"})
  /\ spent' = spent \cup {calls[s].code}
  /\ Done(s)
  /\ UNCHANGED <<exists, identity>>

-----------------------------------------------------------------------------
(* Edits *)

\* Mistake: the account is made anew, with the defaults of its columns.
UpdateUserAnew(s) ==
  /\ Idle(s)
  /\ \E a \in exists \cap Edited, profile \in Profiles :
       ReadRow(s, a, [table[a] EXCEPT !["profile"] = profile, !["verified"] = No],
               {"profile"}, (AuthColumns \ Services) \cup {"profile"})
  /\ UNCHANGED <<exists, identity, calls, spent>>

\* Auth has a copy of the names, and is saved, whole as it was read, when the
\* request has a name in it; the Profile is saved in any case.
UpdateUser(s) ==
  /\ Idle(s)
  /\ \E a \in exists \cap Edited, profile \in Profiles, named \in BOOLEAN :
       ReadRow(s, a, [table[a] EXCEPT !["profile"] = profile], {"profile"},
               IF named THEN (AuthColumns \ Services) \cup {"profile"} ELSE {"profile"})
  /\ UNCHANGED <<exists, identity, calls, spent>>

Offered(a, service) == IF table[a][service] = No THEN Yes ELSE No

\* `action` is "add" for a service that the user does not offer, "remove" for
\* one that he does; else the request is refused.
UpdateUserAidService(s) ==
  /\ Idle(s)
  /\ \E a \in exists \cap Edited, service \in Services :
       ReadRow(s, a, [table[a] EXCEPT ![service] = Offered(a, service)], {service}, AuthColumns)
  /\ UNCHANGED <<exists, identity, calls, spent>>

\* save(Auth, ...)
AuthCompared(s) ==
  /\ Editing(s) /\ edits[s].left \cap AuthColumns # {}
  /\ CompareColumns(s, edits[s].left \cap AuthColumns)
  /\ UNCHANGED <<exists, identity, calls, spent>>

\* save(Profile, ...), after that of Auth
ProfileCompared(s) ==
  /\ Editing(s) /\ edits[s].left = {"profile"}
  /\ CompareColumns(s, {"profile"})
  /\ UNCHANGED <<exists, identity, calls, spent>>

EditCommitted(s) ==
  /\ Editing(s) /\ edits[s].left = {} /\ ~Conflict(s, Services, Yes)
  /\ SaveRow(s)
  /\ UNCHANGED <<exists, identity, calls, spent>>

EditRefused(s) ==
  /\ Editing(s) /\ edits[s].left = {} /\ Conflict(s, Services, Yes)
  /\ AbandonEdit(s)
  /\ UNCHANGED <<exists, identity, calls, spent>>

EditFailed(s) ==
  /\ Editing(s)
  /\ AbandonEdit(s)
  /\ UNCHANGED <<exists, identity, calls, spent>>

\* The one statement of an OTP request fails.
CallFailed(s) ==
  /\ calls[s].op \in {"verify", "issue", "reset"}
  /\ Done(s)
  /\ UNCHANGED <<rowVars, exists, identity, spent>>

-----------------------------------------------------------------------------
OldRow(password, verified, profile) ==
  [c \in Columns |-> CASE c = "password" -> password
                       [] c = "otp" -> NoCode
                       [] c = "verified" -> verified
                       [] c = "profile" -> profile
                       [] OTHER -> No]

\* The column isVerified is FALSE unless it is given; createAccount gives TRUE
\* ("TODO: Remove"), but the table may hold accounts from before.
Init ==
  /\ exists \in SUBSET Old
  /\ \E password \in Passwords, profile \in Profiles, verified \in SUBSET exists :
       table = [a \in Keys |-> OldRow(password, IF a \in verified THEN Yes ELSE No, profile)]
  /\ due = table
  /\ \E email \in [exists -> Emails], phone \in [exists -> Phones], id \in [exists -> UserIds] :
       /\ \A a, b \in exists : id[a] = id[b] => a = b
       /\ identity = [a \in Keys |->
            IF a \in exists THEN [email |-> Lower[email[a]], phone |-> phone[a], userId |-> id[a]]
                            ELSE NoKey]
  /\ edits = [s \in Slots |-> NoEdit]
  /\ calls = [s \in Slots |-> NoCall]
  /\ spent = {}

Start(s) ==
  \/ CreateAccount(s) \/ VerifyAccount(s) \/ ResendOtp(s) \/ RequestResetPassword(s)
  \/ ResetPassword(s) \/ UpdateUser(s) \/ UpdateUserAidService(s)

Answered(s) ==
  \/ GenerateUniqueID(s) \/ InsertAuth(s) \/ UserIdTaken(s) \/ AccountCreated(s)
  \/ AccountVerified(s) \/ CodeIssued(s) \/ PasswordReset(s)
  \/ AuthCompared(s) \/ ProfileCompared(s) \/ EditCommitted(s) \/ EditRefused(s)

Failed(s) == SignUpFailed(s) \/ CallFailed(s) \/ EditFailed(s)

Next == \E s \in Slots : Start(s) \/ Answered(s) \/ Failed(s)

Spec == Init /\ [][Next]_vars

-----------------------------------------------------------------------------
(* Properties *)

\* Slot s ends a sign-up that makes account a.
Completes(s, a) ==
  /\ calls[s].op = "inserted" /\ calls'[s] = NoCall
  /\ identity'[a] = [calls[s].who EXCEPT !.email = Lower[@]]

NewAccountsDiffer ==
  \A a \in exists, b \in exists' \ exists :
    \E s \in Slots :
      /\ Completes(s, b)
      /\ a \in calls[s].before =>
           /\ identity[a].phone # identity'[b].phone
           /\ identity[a].email = identity'[b].email =>
                calls[s].who.email # Lower[calls[s].who.email]

\* Two accounts have an email or a phone number in common only if both signed up
\* at the same time, or if the second spelled the email with capitals
\* ("Email already / Phone number exists", auth.service.ts:54).
TwinsOverlap == [][NewAccountsDiffer]_vars

ResetsShowTheCode ==
  \A a \in exists :
    due[a] # Unknown /\ table'[a]["password"] # table[a]["password"] =>
      \E s \in Slots :
        /\ calls[s].op = "reset" /\ calls'[s] = NoCall
        /\ calls[s].code = table[a]["otp"] /\ calls[s].code \notin spent

\* A password changes when a reset shows the code that its account holds at that
\* moment, and each code does this once for each time that it is issued, however
\* many resets are under way and whoever else has the same code.  (An edit that
\* was overtaken may put back the password that it read, and the code with it.)
CodesResetOnce == [][ResetsShowTheCode]_vars

\* What one request is about: a code, a reset, the verification, the profile, or
\* one of the services.
Aspects == {{"otp"}, {"password", "otp"}, {"verified"}, {"profile"}}
           \cup {{service} : service \in Services}

Promised == INSTANCE AtomicRows WITH
  rows <- Reliable(exists), NoRow <- NoKey, Lost <- Unknown

\* A request changes what it is about and nothing else of an account, all of it at
\* once: although an edit reads the account in one step, compares it in others and
\* writes it in the last, from an object that has every column.
OneChangeAtATime == Promised!RowsSpec

=============================================================================
