------------------------- MODULE MCConversationTurn -------------------------
(* Instances of ConversationTurn for TLC. *)
EXTENDS ConversationTurn, TLC

CONSTANTS p1

NormalProject == (p1 :> "normal")
Symmetry == Permutations(Requests) \cup Permutations(Docs)
=============================================================================
