------------------------------ MODULE MCLadder ------------------------------
(***************************************************************************)
(* The ladder alone: two owners, and a rule that refuses calls, which may  *)
(* be moved up to the delivery gate, or down to the tool grant.            *)
(***************************************************************************)
EXTENDS Proposals, TLC

CONSTANTS ann, bob

MCPeople == {ann, bob}
MCRoleOf == ann :> "lead" @@ bob :> "lead"
MCRank == "lead" :> 3
MCRules == {[rung |-> 3, predicate |-> "args", withholds |-> FALSE, enabled |-> TRUE]}
MCMoves == [rule : {1}, to : {0, 1, 4}, predicate : {""}]
MCChains == {<<"lead">>}

Alike == Permutations(MCPeople)
=============================================================================
