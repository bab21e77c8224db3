-------------------------- MODULE MCPersonalMemory --------------------------
(* Instances of PersonalMemory for TLC. *)
EXTENDS PersonalMemory, TLC

CONSTANTS tea, Tea, fact, goal

(* two spellings of one text *)
Spellings == (tea :> tea) @@ (Tea :> tea)

TeaOfEachKind == {[kind |-> k, content |-> tea, weight |-> 1] : k \in {fact, goal}}

Nothing == [kind |-> Unset, content |-> Unset, active |-> Unset, weight |-> Unset]
(* another spelling; another kind with the return of what was revoked *)
Rewordings ==
    {[Nothing EXCEPT !.content = Tea],
     [Nothing EXCEPT !.kind = goal, !.active = TRUE]}

MemorySymmetry == Permutations(Requests) \cup Permutations(Memories)
=============================================================================
