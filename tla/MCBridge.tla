------------------------------ MODULE MCBridge ------------------------------
(***************************************************************************)
(* A small instance of Bridge: two deposits, one withdrawal that several   *)
(* roots prove, four L2 blocks with a root every second one.               *)
(***************************************************************************)
EXTENDS Bridge

SmallRoots == {W : W \in SUBSET Withdrawals}
SmallRoot  == {}
SmallWorth == [w \in Withdrawals |-> 1]

\* BOUND: at most two commitments at a time; a second deposit and relays
\* that go wrong only while the rollup is left alone.
Smooth    == Len(deposits) <= 1 /\ Total(unanswered) = 0 /\ refused \cup forgotten = {}
FewThings ==
    /\ Smooth \/ (eth = 0 /\ latestCommitted = 0)
    /\ Cardinality({n \in Numbers : commitment[n].known}) <= 2
=============================================================================
