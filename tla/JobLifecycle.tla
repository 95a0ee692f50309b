---------------------------- MODULE JobLifecycle ----------------------------
(***************************************************************************)
(* What the L2 promises the client of a job: a posted job waits for its    *)
(* parent, or is pending; it gets results only when it is pending; enough  *)
(* of them complete it; it never goes back and no result is taken away.    *)
(* One step is a block, which may move any number of jobs.                 *)
(***************************************************************************)
EXTENDS FiniteSets

CONSTANTS
    Jobs, NoJob,
    Parent,       \* [Jobs -> Jobs \cup {NoJob}]
    Shards,
    Sufficient    \* [Jobs -> SUBSET SUBSET Shards]: results that complete a job

VARIABLES
    status,       \* "none", "waiting", "pending" or "complete"
    results       \* shards whose result is on the chain

vars == <<status, results>>

Init ==
    /\ status = [j \in Jobs |-> "none"]
    /\ results = [j \in Jobs |-> {}]

Free(j) == Parent[j] = NoJob \/ (Parent[j] \in Jobs /\ status'[Parent[j]] = "complete")

Gains(j) == results[j] \subseteq results'[j] /\ results'[j] \subseteq Shards

Keeps(j)    == status'[j] = status[j] /\ results'[j] = results[j]
Posted(j)   == status[j] = "none" /\ status'[j] \in {"waiting", "pending"}
Wakes(j)    == status[j] = "waiting" /\ status'[j] = "pending"
Starts(j)   == status'[j] = "pending" => Free(j)
Serves(j)   == status[j] \in {"pending", "complete"} /\ status'[j] = status[j] /\ Gains(j)
Completes(j) ==
    /\ status[j] \in {"pending", "complete"} /\ status'[j] = "complete"
    /\ Gains(j) /\ results'[j] \in Sufficient[j]

Block ==
    \A j \in Jobs :
        \/ Keeps(j)
        \/ (Posted(j) \/ Wakes(j)) /\ Starts(j) /\ results'[j] = results[j]
        \/ Serves(j)
        \/ Completes(j)

Spec == Init /\ [][Block]_vars
=============================================================================
