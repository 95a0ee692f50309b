------------------------- MODULE MCInferenceMarket -------------------------
(***************************************************************************)
(* Small instances of InferenceMarket: interchangeable jobs and accounts,  *)
(* amounts of a few units, windows of one or two blocks.                   *)
(***************************************************************************)
EXTENDS InferenceMarket, TLC

CONSTANT MaxEth   \* BOUND: ETH in the contract (reclaims and tips add to it)

EthBound == eth <= MaxEth

MarketSymmetry == Permutations(Jobs) \cup Permutations(Accounts)

OneSize == {512}
OneTier == [t \in {512} |-> 25]
BigTier == [t \in {512} |-> 4]
=============================================================================
