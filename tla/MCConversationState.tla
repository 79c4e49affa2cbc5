-------------------------- MODULE MCConversationState --------------------------
(***************************************************************************)
(* Instances of ConversationState for TLC.                                  *)
(***************************************************************************)
EXTENDS ConversationState, TLC

CONSTANTS w1, w2, m1, m2, m3

TasksAndMessages == Permutations({w1, w2}) \cup Permutations({m1, m2, m3})
=============================================================================
