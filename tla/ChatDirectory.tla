----------------------------- MODULE ChatDirectory -----------------------------
(***************************************************************************)
(* What the chat desk promises who asks to chat: the answer goes to where  *)
(* they asked last.                                                        *)
(***************************************************************************)
CONSTANTS Callers, Places, Nowhere

VARIABLES
  at,    \* at[p]: where p asked last, Nowhere before that
  told   \* told[p]: where the last answer to p went, Nowhere before that

directoryVars == <<at, told>>

DirectoryInit == at = [p \in Callers |-> Nowhere] /\ told = at

Ask(p, place) == at' = [at EXCEPT ![p] = place] /\ UNCHANGED told

Answer(p) == told' = [told EXCEPT ![p] = at[p]] /\ UNCHANGED at

DirectoryNext == \E p \in Callers : Answer(p) \/ \E place \in Places : Ask(p, place)

DirectorySpec == DirectoryInit /\ [][DirectoryNext]_directoryVars

=============================================================================
