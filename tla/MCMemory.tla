------------------------------ MODULE MCMemory ------------------------------
(***************************************************************************)
(* A small overlay: the sequencer and two miners that dial it, as in the   *)
(* deployed configurations (l2/config_l2.json, l2/test_local), both        *)
(* running a shard of one job.                                             *)
(***************************************************************************)
EXTENDS Memory

CONSTANTS s, m1, m2, j1

Star == {<<m1, s>>, <<m2, s>>}
Both == {<<m1, j1>>, <<m2, j1>>}

Traffic == \E n \in Nodes : seen[n] # {}

\* BOUND: a behaviour uses the overlay for the memory or for a benchmark,
\* and its messages meet either two sockets of the first link or a broken
\* one; sockets break and are dialled at will while nothing is sent.
OneUse ==
    /\ finished = {} \/ \A b \in Benchmarks : bench[b].phase = "idle"
    /\ Traffic => \A l \in Links, k \in Sockets \ {1} :
                     socket[l][k] # "none" => /\ k = 2 /\ l = <<m1, s>> /\ breaks = 0
=============================================================================
