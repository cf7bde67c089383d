---------------------------- MODULE MCModelRouter ----------------------------
(***************************************************************************)
(* ModelRouter for TLC.  The fallback chain is empty or lists every        *)
(* provider; routeWithFallback moves the initial provider to the front.    *)
(***************************************************************************)
EXTENDS ModelRouter, FiniteSets, Functions, TLC

MCFullChain == CHOOSE s \in Bijection(1..Cardinality(Provider), Provider) : TRUE
MCChains == {<<>>, MCFullChain}
MCNoChain == {<<>>}

ThreadSymmetry == Permutations(Thread)
=============================================================================
