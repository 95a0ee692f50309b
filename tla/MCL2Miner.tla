----------------------------- MODULE MCL2Miner -----------------------------
(***************************************************************************)
(* A small instance of L2Miner: a job without context whose two shards     *)
(* fall on one miner, and a pipeline of two stages, on two miners with     *)
(* room for two shards.                                                    *)
(***************************************************************************)
EXTENDS L2Miner

CONSTANTS m1, m2, j1, j2

SmallAssigned == [j \in Jobs |-> IF j = j1 THEN <<m1, m1>> ELSE <<m1, m2>>]
SmallContext  == [j \in Jobs |-> IF j = j1 THEN NoContext ELSE j]
SmallTakes    == [m \in Miners |-> Jobs]

\* BOUND: one first shard is offered more than once.
FewOffers == /\ \A k \in Keys : offered[k] > 1 => k[2] = 1
             /\ Cardinality({k \in Keys : offered[k] > 1}) <= 1
=============================================================================
