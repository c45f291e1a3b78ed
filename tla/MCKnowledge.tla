---------------------------- MODULE MCKnowledge ----------------------------
(* Two articles: one is withdrawn for a version, the other may expire.      *)
EXTENDS Knowledge, TLC

CONSTANTS a, b

MCLast == (a :> 2) @@ (b :> 1)
MCWithdrawn == {<<a, 2>>}
MCExpiring == {<<b, 1>>}

Symmetric == {p @@ q : p \in Permutations(Generations), q \in Permutations(Admins)}

=============================================================================
