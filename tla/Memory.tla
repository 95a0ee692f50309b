------------------------------- MODULE Memory -------------------------------
(***************************************************************************)
(* What the overlay is used for besides shards: the shared memory of past  *)
(* inferences and the benchmarks.                                          *)
(*                                                                         *)
(*  - A miner that finished an inference stores the THOUGHT in its sidecar *)
(*    database and gossips it with its embedding; whoever receives it      *)
(*    stores it (l2_miner.py, p2p/thought_protocol.py, the tables of       *)
(*    peerbit-sidecar/src/routes.ts).                                      *)
(*  - The sequencer consolidates thoughts into a ROLLUP through a map and  *)
(*    a reduce job, stores it and gossips it (rpc/handlers.py).            *)
(*  - The sequencer measures a miner with a BENCHMARK: a challenge with a  *)
(*    nonce, the response with the nonce, a score on the chain             *)
(*    (benchmark/runner.py, state.py).                                     *)
(*                                                                         *)
(* A question, its answer and its embedding are the miner that produced    *)
(* them: the miners of one job are asked different slices of it.           *)
(***************************************************************************)
EXTENDS Overlay

CONSTANTS
    Seq0,           \* the sequencer's node
    Thinkers,       \* pairs <<miner, job>>: the miner runs a shard of the job
    Benchmarks,     \* the nonces of benchmarks; BOUND
    NoMiner

MinerNodes  == Nodes \ {Seq0}
ThoughtJobs == {t[2] : t \in Thinkers}

Thought(m, j)   == [topic |-> "thought", from |-> m, ref |-> j]
RollupMsg       == [topic |-> "rollup", from |-> Seq0, ref |-> 0]
Challenge(b, m) == [topic |-> "challenge", from |-> m, ref |-> b]   \* for m
Response(b, m)  == [topic |-> "response", from |-> m, ref |-> b]

AllEnvelopes ==
    {Thought(t[1], t[2]) : t \in Thinkers} \cup {RollupMsg}
      \cup {Challenge(b, m) : b \in Benchmarks, m \in MinerNodes}
      \cup {Response(b, m) : b \in Benchmarks, m \in MinerNodes}

ASSUME MemoryInputs ==
    /\ Seq0 \in Nodes /\ Thinkers \subseteq MinerNodes \X ThoughtJobs
    /\ NoMiner \notin MinerNodes
    /\ Envelopes = AllEnvelopes /\ NoEnvelope \notin Envelopes

VARIABLES
    stage,      \* per task: statements its handlers have left
    thoughts,   \* per node and job: whose thought is stored, whose embedding
    finished,   \* pairs <<m, j>> whose inference ended
    rollup,     \* the consolidation: its phase, the jobs it is made of
    rolled,     \* per node: the model the stored rollup is filed under
    bench,      \* per nonce: the miner asked and how far it got
    inferred,   \* pairs <<nonce, m>>: m ran the model on the challenge
    scores,     \* per miner: the nonce of its score on the chain, or 0
    audience    \* per envelope: nodes its origin had a socket to (history)

memVars == <<thoughts, finished, rollup, rolled, bench, inferred, scores>>
memoryVars == <<netVars, stage, memVars, audience>>

NoThought == [by |-> NoMiner, emb |-> NoMiner]

MemoryInit ==
    /\ OverlayInit
    /\ stage = [t \in Tasks |-> 0]
    /\ thoughts = [n \in Nodes |-> [j \in ThoughtJobs |-> NoThought]]
    /\ finished = {}
    /\ rollup = [phase |-> "idle", jobs |-> {}]
    /\ rolled = [n \in Nodes |-> "none"]
    /\ bench = [b \in Benchmarks |-> [phase |-> "idle", miner |-> NoMiner]]
    /\ inferred = {}
    /\ scores = [m \in MinerNodes |-> 0]
    /\ audience = [e \in Envelopes |-> {}]

\* Every miner subscribes to thoughts, rollups and challenges, the sequencer
\* to thoughts and responses.
Subscribes(n, e) ==
    e.topic \in IF n = Seq0 THEN {"thought", "response"}
                            ELSE {"thought", "rollup", "challenge"}

\* Statements of the handlers of a topic that touch the state: the row and
\* the embedding of a thought, the model run and the answer of a challenge.
Statements(e) == IF e.topic \in {"thought", "challenge"} THEN 2 ELSE 1

Peers(n) ==
    {p \in Nodes : \E l \in Links, k \in Sockets :
        l \in {<<n, p>>, <<p, n>>} /\ socket[l][k] = "open"}
Heard(n, e) == audience' = [audience EXCEPT ![e] = Peers(n)]

\* The next envelope of a wire: to the handlers if the node subscribes to
\* its topic, else passed on at once.
Receive(w) ==
    \/ Drop(w) /\ UNCHANGED <<stage, memVars, audience>>
    \/ /\ Take(w)
       /\ stage' = [stage EXCEPT ![w] = IF Subscribes(Receiver(w), Head(wire[w]))
                                        THEN Statements(Head(wire[w])) ELSE 0]
       /\ UNCHANGED <<memVars, audience>>

\* The handlers have run: the envelope goes on.
PassOn(t) ==
    /\ stage[t] = 0
    /\ Return(t)
    /\ IF t \in Wires THEN UNCHANGED audience ELSE Heard(At(t), task[t])
    /\ UNCHANGED <<stage, memVars>>

\* One statement of the handlers of task t.
Statement(t, topic) ==
    /\ stage[t] > 0
    /\ task[t].topic = topic
    /\ stage' = [stage EXCEPT ![t] = @ - 1]

-----------------------------------------------------------------------------
(* Thoughts.                                                               *)

\* POST /thoughts: an upsert by job; the embedding column is left alone.
Ingested(n, j, m) == [thoughts EXCEPT ![n][j].by = m]
\* POST /thoughts/embedding: an UPDATE by job, nothing when there is no row.
Embedded(n, j, m) ==
    IF thoughts[n][j].by = NoMiner THEN thoughts
    ELSE [thoughts EXCEPT ![n][j].emb = m]

\* _ingest_and_gossip: the row and its vector are stored, then broadcast,
\* which the node's own subscription handles before it fans out: the same
\* two statements once more, each on its own.  The embedder is assumed to
\* answer; when it does not, the code stores and sends a thought without one.
Think(m, j) ==
    /\ <<m, j>> \in Thinkers \ finished
    /\ finished' = finished \cup {<<m, j>>}
    /\ thoughts' = [thoughts EXCEPT ![m][j] = [by |-> m, emb |-> m]]
    /\ BroadcastSelf(m, Thought(m, j))
    /\ stage' = [stage EXCEPT ![Local(m)] = 2]
    /\ UNCHANGED <<rollup, rolled, bench, inferred, scores, audience>>

\* handle_thought_broadcast awaits the sidecar at every call: the row and
\* the embedding are steps of their own.
RowFirst(s) == s = 2

StoreThought(t) ==
    LET n == At(t)  e == task[t]
    IN  /\ Statement(t, "thought")
        /\ thoughts' = IF RowFirst(stage[t]) THEN Ingested(n, e.ref, e.from)
                                            ELSE Embedded(n, e.ref, e.from)
        /\ UNCHANGED <<netVars, finished, rollup, rolled, bench, inferred, scores, audience>>

-----------------------------------------------------------------------------
(* Rollups.                                                                *)

\* inft_rollupMemory: the thoughts with an embedding; without one it fails.
\* The map and the reduce job then run like any other job.
BeginRollup ==
    /\ rollup.phase = "idle"
    /\ LET hits == {j \in ThoughtJobs : thoughts[Seq0][j].emb # NoMiner}
       IN  /\ hits # {}
           /\ rollup' = [phase |-> "waiting", jobs |-> hits]
    /\ UNCHANGED <<netVars, stage, thoughts, finished, rolled, bench, inferred, scores, audience>>

\* The awaited job fails or does not complete in time.
RollupFails ==
    /\ rollup.phase = "waiting"
    /\ rollup' = [rollup EXCEPT !.phase = "failed"]
    /\ UNCHANGED <<netVars, stage, thoughts, finished, rolled, bench, inferred, scores, audience>>

\* It completes: the rollup is stored under the model the caller named, if
\* any, and only then sent out, under the model that was used.
Upserted(n, model) == [rolled EXCEPT ![n] = model]

StoreRollup(model) ==
    /\ rollup.phase = "waiting"
    /\ rollup' = [rollup EXCEPT !.phase = "stored"]
    /\ rolled' = Upserted(Seq0, model)
    /\ UNCHANGED <<netVars, stage, thoughts, finished, bench, inferred, scores, audience>>

Sendable == rollup.phase = "stored"

SendRollup ==
    /\ Sendable
    /\ rollup' = [rollup EXCEPT !.phase = "sent"]
    /\ Broadcast(Seq0, RollupMsg)
    /\ Heard(Seq0, RollupMsg)
    /\ UNCHANGED <<stage, thoughts, finished, rolled, bench, inferred, scores>>

\* _on_rollup_broadcast at a miner.
ReceiveRollup(t) ==
    /\ Statement(t, "rollup")
    /\ rolled' = Upserted(At(t), "used")
    /\ UNCHANGED <<netVars, thoughts, finished, rollup, bench, inferred, scores, audience>>

-----------------------------------------------------------------------------
(* Benchmarks.                                                             *)

Ask(b, m) ==
    /\ bench[b].phase = "idle"
    /\ bench' = [bench EXCEPT ![b] = [phase |-> "waiting", miner |-> m]]
    /\ Broadcast(Seq0, Challenge(b, m))
    /\ Heard(Seq0, Challenge(b, m))
    /\ UNCHANGED <<stage, thoughts, finished, rollup, rolled, inferred, scores>>

\* _on_benchmark_challenge: not addressed to this miner.
\* Mutant of Addressed: every miner runs every challenge.
Addressed_All(n, e) == TRUE

Addressed(n, e) == e.from = n

IgnoreChallenge(t) ==
    /\ stage[t] = 2 /\ task[t].topic = "challenge"
    /\ ~Addressed(At(t), task[t])
    /\ stage' = [stage EXCEPT ![t] = 0]
    /\ UNCHANGED <<netVars, memVars, audience>>

\* It runs the model, or declines or fails without a word.
RunBenchmark(t) ==
    LET n == At(t)  e == task[t]
    IN  /\ stage[t] = 2 /\ e.topic = "challenge" /\ Addressed(n, e)
        /\ \/ /\ inferred' = inferred \cup {<<e.ref, n>>}
              /\ stage' = [stage EXCEPT ![t] = 1]
           \/ /\ stage' = [stage EXCEPT ![t] = 0]
              /\ UNCHANGED inferred
        /\ UNCHANGED <<netVars, thoughts, finished, rollup, rolled, bench, scores, audience>>

Respond(t) ==
    LET n == At(t)  e == task[t]
    IN  /\ stage[t] = 1 /\ e.topic = "challenge"
        /\ stage' = [stage EXCEPT ![t] = 0]
        /\ Broadcast(n, Response(e.ref, n))
        /\ Heard(n, Response(e.ref, n))
        /\ UNCHANGED memVars

\* on_benchmark_response: resolves the future of its nonce, if it is still
\* pending; who answered is not looked at.
Pending(b) == bench[b].phase = "waiting"

Answered(t) ==
    LET b == task[t].ref
    IN  /\ Statement(t, "response")
        /\ bench' = IF Pending(b) THEN [bench EXCEPT ![b].phase = "answered"] ELSE bench
        /\ UNCHANGED <<netVars, thoughts, finished, rollup, rolled, inferred, scores, audience>>

\* wait_for: the time-out takes the nonce off the pending ones.
Timeout(b) ==
    /\ bench[b].phase = "waiting"
    /\ bench' = [bench EXCEPT ![b].phase = "timed out"]
    /\ UNCHANGED <<netVars, stage, thoughts, finished, rollup, rolled, inferred, scores, audience>>

\* The BENCHMARK_COMMIT, and its application by the next block.
Commit(b) ==
    /\ bench[b].phase = "answered"
    /\ bench' = [bench EXCEPT ![b].phase = "committed"]
    /\ scores' = [scores EXCEPT ![bench[b].miner] = b]
    /\ UNCHANGED <<netVars, stage, thoughts, finished, rollup, rolled, inferred, audience>>

-----------------------------------------------------------------------------
MemoryNext ==
    \/ LinkStep /\ UNCHANGED <<stage, memVars, audience>>
    \/ \E w \in Wires : Receive(w)
    \/ \E t \in Tasks : \/ PassOn(t) \/ StoreThought(t) \/ ReceiveRollup(t)
                         \/ IgnoreChallenge(t) \/ RunBenchmark(t) \/ Respond(t)
                         \/ Answered(t)
    \/ \E th \in Thinkers : Think(th[1], th[2])
    \/ BeginRollup \/ RollupFails \/ SendRollup
    \/ \E model \in {"named", "any"} : StoreRollup(model)
    \/ \E b \in Benchmarks : \/ \E m \in MinerNodes : Ask(b, m)
                             \/ Timeout(b) \/ Commit(b)

MemorySpec == MemoryInit /\ [][MemoryNext]_memoryVars

\* The event loops keep running: dials return, broken sockets are noticed,
\* the discovery timer of every peer fires, handlers return.
MemoryFairness ==
    /\ \A l \in Links :
        /\ WF_memoryVars((Connected(l) \/ Refused(l)) /\ UNCHANGED <<stage, memVars, audience>>)
        /\ WF_memoryVars(Refresh(l) /\ UNCHANGED <<stage, memVars, audience>>)
        /\ \A k \in Sockets : WF_memoryVars(LoopEnds(l, k) /\ UNCHANGED <<stage, memVars, audience>>)
    /\ WF_memoryVars(\E t \in Tasks :
           \/ PassOn(t) \/ StoreThought(t) \/ ReceiveRollup(t) \/ IgnoreChallenge(t)
           \/ RunBenchmark(t) \/ Respond(t) \/ Answered(t))

MemoryFairSpec == MemorySpec /\ MemoryFairness

-----------------------------------------------------------------------------
ThoughtRec == [by : MinerNodes \cup {NoMiner}, emb : MinerNodes \cup {NoMiner}]
BenchRec   == [phase : {"idle", "waiting", "answered", "timed out", "committed"},
               miner : MinerNodes \cup {NoMiner}]

MemoryTypeOK ==
    /\ OverlayTypeOK
    /\ stage \in [Tasks -> 0..2]
    /\ thoughts \in [Nodes -> [ThoughtJobs -> ThoughtRec]]
    /\ finished \subseteq Thinkers
    /\ rollup \in [phase : {"idle", "waiting", "failed", "stored", "sent"}, jobs : SUBSET ThoughtJobs]
    /\ rolled \in [Nodes -> {"none", "named", "any", "used"}]
    /\ bench \in [Benchmarks -> BenchRec]
    /\ inferred \subseteq Benchmarks \X MinerNodes
    /\ scores \in [MinerNodes -> Benchmarks \cup {0}]
    /\ audience \in [Envelopes -> SUBSET Nodes]

(* A node that stores a thought can find it by meaning once its handlers   *)
(* are through: no row is left without a vector, in whatever order the     *)
(* thoughts of one job arrive (thought_protocol.py:192-197).               *)
Indexed ==
    Quiet => \A n \in Nodes, j \in ThoughtJobs :
        thoughts[n][j].by # NoMiner => thoughts[n][j].emb # NoMiner

(* While no socket breaks, whatever a node broadcasts is handled by every  *)
(* node it had a socket to when it sent it: those it dialled and those     *)
(* that dialled it (node.py:122-142).                                      *)
PeersHear ==
    Quiet /\ breaks = 0 =>
        \A e \in Envelopes : \A n \in audience[e] : delivered[n][e] = 1

(* Gossip reaches every peer of its origin and no handler twice, through   *)
(* doubled sockets, echoes and entries forgotten late.                     *)
HeardOnce == MemoryTypeOK /\ HandledOnce /\ PeersHear

(* A miner never holds a rollup the sequencer has not stored: it is stored *)
(* before it is sent (handlers.py:1396-1406).                              *)
RollupMirrored ==
    (\E m \in MinerNodes : rolled[m] # "none") => rolled[Seq0] # "none"

(* A score on the chain is of a benchmark the sequencer asked of that      *)
(* miner, whose challenge that miner ran the model on, and which was not   *)
(* reported as timed out, although the response is matched by its nonce    *)
(* alone and may come at any time (runner.py:53-58, 107-116).              *)
ScoreMeasured ==
    \A m \in MinerNodes : scores[m] # 0 =>
        LET b == scores[m]
        IN  /\ bench[b] = [phase |-> "committed", miner |-> m]
            /\ <<b, m>> \in inferred

(* What the stores and the chain hold has its ground: a thought its        *)
(* vector, a rollup its original, a score its run, in whatever order the   *)
(* messages are handled.                                                   *)
MemoryIsGrounded == Indexed /\ RollupMirrored /\ ScoreMeasured
=============================================================================
