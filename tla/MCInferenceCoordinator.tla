------------------------ MODULE MCInferenceCoordinator ------------------------
(* Small instances of InferenceCoordinator: an agy route and another one.   *)
EXTENDS InferenceCoordinator, TLC

CONSTANTS a, b, c, agy, other

\* Either route alone, and a plan in both orders.
MCPlan == {<<agy>>, <<agy, other>>, <<other, agy>>}
MCAgyPlan == {<<agy>>}

MCSymmetry == Permutations(Account)

===============================================================================
