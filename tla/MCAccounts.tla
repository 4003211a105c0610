------------------------------ MODULE MCAccounts ------------------------------
(***************************************************************************)
(* An instance of the accounts for TLC: one email, spelled in two ways.    *)
(***************************************************************************)
EXTENDS Accounts, TLC

CONSTANTS small, CAPITALS

MCEmails == {small, CAPITALS}
MCLower == [e \in MCEmails |-> small]
MCColumns == {"password", "otp", "verified", "profile"} \cup Services
MCValues == {Yes, No, NoCode} \cup Passwords \cup Codes \cup Profiles
Alike == Permutations(Slots) \cup Permutations(Phones) \cup Permutations(UserIds)
         \cup Permutations(Passwords) \cup Permutations(Codes)
=============================================================================
