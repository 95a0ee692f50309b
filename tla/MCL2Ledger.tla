----------------------------- MODULE MCL2Ledger -----------------------------
(***************************************************************************)
(* A small instance of L2Ledger: a client and a miner, one job of two      *)
(* shards whose fee does not divide evenly, one deposit.                   *)
(***************************************************************************)
EXTENDS L2Ledger

CONSTANTS client, miner

SmallBalance == [a \in Accounts |-> IF a = client THEN 4 ELSE 0]
SmallStake   == [a \in Accounts |-> IF a = miner THEN 4 ELSE 0]
SmallDeposit == [d \in Deposits |-> [to |-> client, amount |-> 1]]

\* BOUND: wallet transactions that are pending or in the chain, together.
FewSubmitted ==
    Cardinality(state.accepted \cup {tx \in pool \cup block.aside : tx.sender # NoOne}) <= 2
=============================================================================
