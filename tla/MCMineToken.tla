---------------------------- MODULE MCMineToken ----------------------------
(* Small instances of MineToken.                                           *)
EXTENDS MineToken, TLC

Wallets == Permutations(Miners)

\* BOUND: a restarted chain is cut short.
FewBlocks == head.number + 2 * head.chain <= 4

\* BOUND: transactions that wait at the same time.
FewWaiting == Cardinality(pool \cup batch.aside) <= 2
=============================================================================
