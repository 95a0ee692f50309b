-------------------------- MODULE MCShardProtocol --------------------------
(***************************************************************************)
(* Small instances of ShardProtocol: the jobs, their modes and shard       *)
(* counts are definitions here, the miners are interchangeable.            *)
(* FourModes has a job of every mode; with OneJobPosted a run explores     *)
(* them one at a time.                                                     *)
(***************************************************************************)
EXTENDS ShardProtocol, TLC

CONSTANTS j1, j2, j3, j4, m1, m2, m3

ThreeShards == {0, 1, 2}
OneShard  == {0}

RaceMode  == [j \in Jobs |-> "parallel_sample"]
EachMode  == [j \in Jobs |-> CASE j = j1 -> "parallel_sample"
                               [] j = j2 -> "context_split"
                               [] OTHER  -> "pipeline_parallel"]

Singles == [j \in Jobs |-> 1]

\* j4 has one shard and may be dispatched twice.
FourModes == [j \in Jobs |-> IF j = j4 THEN "parallel_sample" ELSE EachMode[j]]
\* The race takes every miner, so that a reassignment finds none left.
OneToThree == [j \in Jobs |-> CASE j = j4 -> 1 [] j = j1 -> 3 [] OTHER -> 2]

\* BOUND: only j4 is dispatched a second time, with two messages in flight.
OneRecovered ==
    /\ \A j \in Jobs \ {j4}, d \in Dispatches : d > 1 => task[j][d].pc = "idle"
    /\ task[j4][2].pc # "idle" => Cardinality(offers) + Cardinality(answers) <= 2

NoParents == [j \in Jobs |-> NoJob]
Chained   == [j \in Jobs |-> IF j = j1 THEN NoJob ELSE j1]

\* BOUND: offers nobody took yet and results on their way, together.
FewInFlight == Cardinality(offers) + Cardinality(answers) <= 3

\* BOUND: jobs that are posted in one behaviour.
OneJobPosted ==
    Cardinality({j \in Jobs : Posted(j) \/ chain[j].status # "none"}) <= 1

MinerSymmetry == Permutations(Miners)
=============================================================================
