--------------------------- MODULE MCSemanticCache ---------------------------
(***************************************************************************)
(* Instances of SemanticCache for TLC: two prompts near enough to answer   *)
(* for one another, and one model that the deployment upgrades.            *)
(***************************************************************************)
EXTENDS SemanticCache, TLC

CONSTANTS c1, c2, a, x

MCPrompts == {a, x}
MCWords == a :> {1, 2, 3} @@ x :> {1, 2, 3, 4}
MCSemantic == a :> (a :> 100 @@ x :> 95) @@ x :> (a :> 95 @@ x :> 100)

MCOpenAiUpgraded == "openai" :> {"g1", "g2"} @@ "claude" :> {"s1"}

CallSymmetry == Permutations(Calls)
=============================================================================
