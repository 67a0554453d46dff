----------------------------- MODULE MCApiGate -----------------------------
(* An instance of ApiGate for TLC. *)
EXTENDS ApiGateProofs, TLC

MCPaths == {"auth", "admin"}

MCLimit == [g \in Groups |-> CASE g = "auth" -> 2 [] g = "default" -> 1 [] OTHER -> 0]

MCSymmetry == Permutations(Calls)
=============================================================================
