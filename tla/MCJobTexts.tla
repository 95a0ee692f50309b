----------------------------- MODULE MCJobTexts -----------------------------
(***************************************************************************)
(* An instance of JobTexts: a chain that starts with a job of two shards   *)
(* in any mode, or with a prompt that is split among all shards.           *)
(***************************************************************************)
EXTENDS JobTexts

AllShards == [mode |-> "context_split", n |-> NShards]
Race      == [mode |-> "parallel_sample", n |-> 1]
Chain     == [j \in Jobs |-> IF j > 1 THEN {Race}
                             ELSE {[mode |-> m, n |-> 2] : m \in Modes} \cup {AllShards}]

\* BOUND: the last step has a short prompt and is followed until it is answered;
\* a job of more than two shards is dispatched once.
FewTexts ==
    /\ job[NSteps].said = <<>>
    /\ \A d \in Dispatches : task[NSteps][d].len <= Overlap
    /\ \A j \in Jobs : chain[j].asked.n > 2 => \A d \in Dispatches \ {1} : task[j][d].pc = "idle"
=============================================================================
