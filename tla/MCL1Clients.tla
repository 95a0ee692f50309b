---------------------------- MODULE MCL1Clients ----------------------------
(* One request of a client, one miner and one other account.               *)
EXTENDS L1Clients

JobIdsMC == {1, 2}
OneSize  == {512}
OneTier  == [t \in {512} |-> 25]
=============================================================================
