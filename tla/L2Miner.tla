------------------------------ MODULE L2Miner ------------------------------
(***************************************************************************)
(* The L2 miners (miner/l2_miner.py) with the context-load phase of the    *)
(* sequencer (chain/shard/protocol.py), which gives each miner its piece   *)
(* of a job's context before the shards are offered.                       *)
(*                                                                         *)
(* A miner is one asyncio event loop: its handlers do not suspend before   *)
(* they are done, a task suspends while the model generates.  Messages are *)
(* gossiped: each is handled at most once by each node, late, out of order *)
(* or never.  What the sequencer does with results is in ShardProtocol;    *)
(* here it only stops offering a shard again.                              *)
(***************************************************************************)
EXTENDS Integers, FiniteSets, Sequences, SequencesExt

CONSTANTS
    Miners, Jobs,
    Assigned,       \* [Jobs -> sequences of miners]: select_miners, per shard
    PipelineJobs,
    Context,        \* [Jobs -> contexts]: context_hash
    NoContext,      \* the context_hash of a job without context_text
    Takes,          \* [Miners -> SUBSET Jobs]: the models it has loaded
    RpcMiners,      \* miners whose rpc-server runs
    NoPiece,
    MaxShards,      \* max_concurrent_shards
    MaxOffers       \* BOUND: offers of one shard

Contexts  == {Context[j] : j \in Jobs} \ {NoContext}
ShardsOf(j) == DOMAIN Assigned[j]
Keys      == UNION {{<<j, s>> : s \in ShardsOf(j)} : j \in Jobs}

\* Pieces are named by their shard; a pipeline's workers get the empty one,
\* which is kept like any other.  NoPiece: nothing is kept.
Piece(j, s) == <<j, IF j \in PipelineJobs /\ s # 1 THEN 0 ELSE s>>
Pieces      == {Piece(k[1], k[2]) : k \in Keys}

\* A miner names a shard by its key; re marks an offer of a reassignment.
Offer == [key : Keys, re : BOOLEAN]
Job(o) == o.key[1]

ASSUME MinerInputs ==
    /\ Assigned \in [Jobs -> Seq(Miners)] /\ PipelineJobs \subseteq Jobs
    /\ Takes \in [Miners -> SUBSET Jobs] /\ RpcMiners \subseteq Miners
    /\ NoPiece \notin Pieces /\ MaxShards \in Nat \ {0} /\ MaxOffers \in Nat \ {0}

VARIABLES
    phase,      \* how far dispatch_job is, and how the phase ended
    responded,  \* _ctx_load[job]["results"]: who answered
    commits,    \* CONTEXT_LOAD_COMMITs: <<job, miner>>
    spec,       \* assigned_miner of the shards
    offered,    \* how often a shard was offered
    ctxOffers, loads, offers,   \* messages on their way
    answers,    \* shards with a result
    node,       \* _active_shards, _pending_offers, and whether MINE mining runs
    chunk,      \* _context_chunks
    cached,     \* contexts with a cache file
    running,    \* tasks whose generation started
    drains,     \* _drain_pending_offers tasks
    loaded, ran, lastEnd  \* histories: pieces confirmed, shards run, last end

sequencer == <<phase, responded, commits, spec, offered>>
network   == <<ctxOffers, loads, offers, answers>>
miner     == <<node, chunk, cached, running, drains, loaded, ran, lastEnd>>
vars      == <<sequencer, network, miner>>
-----------------------------------------------------------------------------
IdleNode == [active |-> {}, queue |-> <<>>, mining |-> TRUE]

Init ==
    /\ phase = [j \in Jobs |-> "new"]
    /\ responded = [j \in Jobs |-> {}]
    /\ commits = {}
    /\ spec = Assigned
    /\ offered = [k \in Keys |-> 0]
    /\ ctxOffers = {} /\ loads = {} /\ offers = {} /\ answers = {}
    /\ node = [m \in Miners |-> IdleNode]
    /\ chunk = [m \in Miners |-> [j \in Jobs |-> NoPiece]]
    /\ cached = [m \in Miners |-> {}]
    /\ running = [m \in Miners |-> {}]
    /\ drains = [m \in Miners |-> 0]
    /\ loaded = [m \in Miners |-> {}]
    /\ ran = [m \in Miners |-> {}]
    /\ lastEnd = [m \in Miners |-> "ok"]
-----------------------------------------------------------------------------
(* The sequencer's context-load phase.                                     *)

StartLoad(j) ==
    /\ phase[j] = "new" /\ Context[j] # NoContext
    /\ phase' = [phase EXCEPT ![j] = "loading"]
    /\ ctxOffers' = ctxOffers \cup {<<j, s>> : s \in ShardsOf(j)}
    /\ UNCHANGED <<responded, commits, spec, offered, loads, offers, answers, miner>>

\* on_context_load_result: by an assigned miner, whose signature is checked.
OnLoadResult(j, m) ==
    /\ <<j, m>> \in loads
    /\ loads' = loads \ {<<j, m>>}
    /\ responded' = [responded EXCEPT ![j] = @ \cup {m}]
    /\ UNCHANGED <<phase, commits, spec, offered, ctxOffers, offers, answers, miner>>

\* Mutant of AllResponded: one answer too few will do.
AllResponded_OneShort(j) == Cardinality(responded[j]) + 1 >= Len(Assigned[j])

\* Answers are kept by miner and compared with the number of shards.
AllResponded(j) == Cardinality(responded[j]) >= Len(Assigned[j])

Respondents(j) == responded[j]

\* The wait is over, or there is no context: answers are committed, shards
\* are offered.
EndLoad(j, how) ==
    /\ IF Context[j] = NoContext THEN phase[j] = "new" /\ how = "none"
       ELSE phase[j] = "loading" /\ how \in {"all", "timeout"}
    /\ how = "all" => AllResponded(j)
    /\ phase' = [phase EXCEPT ![j] = how]
    /\ commits' = commits \cup {<<j, m>> : m \in Respondents(j)}
    /\ offers' = offers \cup {<<Assigned[j][s], [key |-> <<j, s>>, re |-> FALSE]>> : s \in ShardsOf(j)}
    /\ offered' = [k \in Keys |-> IF k[1] = j THEN 1 ELSE offered[k]]
    /\ UNCHANGED <<responded, spec, ctxOffers, loads, answers, miner>>

\* Offer and result time-outs of a shard without a result.
CanOffer(k) == offered[k] \in 1 .. (MaxOffers - 1) /\ k \notin answers    \* BOUND

Rebroadcast(k) ==
    /\ CanOffer(k)
    /\ offers' = offers \cup {<<spec[k[1]][k[2]], [key |-> k, re |-> FALSE]>>}
    /\ offered' = [offered EXCEPT ![k] = @ + 1]
    /\ UNCHANGED <<phase, responded, commits, spec, ctxOffers, loads, answers, miner>>

\* To a miner that no shard of the job is assigned to: it has no piece.
ReassignShard(k, m) ==
    /\ CanOffer(k)
    /\ m \notin ToSet(spec[k[1]])
    /\ spec' = [spec EXCEPT ![k[1]][k[2]] = m]
    /\ offers' = offers \cup {<<m, [key |-> k, re |-> TRUE]>>}
    /\ offered' = [offered EXCEPT ![k] = @ + 1]
    /\ UNCHANGED <<phase, responded, commits, ctxOffers, loads, answers, miner>>
-----------------------------------------------------------------------------
(* _on_context_load_offer: the piece is kept by job, and confirmed.        *)

OnContextOffer(m, k) ==
    /\ k \in ctxOffers /\ m = Assigned[k[1]][k[2]]
    /\ ctxOffers' = ctxOffers \ {k}
    /\ chunk' = [chunk EXCEPT ![m][k[1]] = Piece(k[1], k[2])]
    /\ loads' = loads \cup {<<k[1], m>>}
    /\ loaded' = [loaded EXCEPT ![m] = @ \cup {k}]
    /\ UNCHANGED <<sequencer, offers, answers, node, cached, running, drains, ran, lastEnd>>
-----------------------------------------------------------------------------
(* _on_shard_offer.  Capacity comes first: a duplicate is queued as well.  *)

IsWorker(o) == Job(o) \in PipelineJobs /\ o.key[2] # 1 /\ ~ o.re
Declined(m, o) == Job(o) \notin Takes[m] \/ (IsWorker(o) /\ m \notin RpcMiners)
Active(st, o)  == \E a \in st.active : a.key = o.key

\* Mutant of Full: off by one.
Full_Later(st) == Cardinality(st.active) > MaxShards

Full(st) == Cardinality(st.active) >= MaxShards

Admitted(m, st, o) ==
    IF Full(st) THEN [st EXCEPT !.queue = Append(@, o)]
    ELSE IF Declined(m, o) \/ Active(st, o) THEN st
    ELSE [st EXCEPT !.active = @ \cup {o}, !.mining = FALSE]

OnShardOffer(m, o) ==
    /\ <<m, o>> \in offers
    /\ offers' = offers \ {<<m, o>>}
    /\ node' = [node EXCEPT ![m] = Admitted(m, node[m], o)]
    /\ UNCHANGED <<sequencer, ctxOffers, loads, answers, chunk, cached, running, drains,
                   loaded, ran, lastEnd>>

\* Mutant of Drained: one offer each time, which may be one to ignore.
Drained_One(m) ==
    IF node[m].queue = <<>> THEN node[m]
    ELSE Admitted(m, [node[m] EXCEPT !.queue = Tail(@)], Head(node[m].queue))

\* _drain_pending_offers: offers are taken from the queue until the miner is
\* full, and an offer that meets a full miner is queued: the same thing.
Drained(m) ==
    LET queue == node[m].queue
        after[i \in 0 .. Len(queue)] ==
            IF i = 0 THEN [node[m] EXCEPT !.queue = <<>>]
            ELSE Admitted(m, after[i - 1], queue[i])
    IN  after[Len(queue)]

Drain(m) ==
    /\ drains[m] > 0
    /\ node' = [node EXCEPT ![m] = Drained(m)]
    /\ drains' = [drains EXCEPT ![m] = @ - 1]
    /\ UNCHANGED <<sequencer, network, chunk, cached, running, loaded, ran, lastEnd>>
-----------------------------------------------------------------------------
(* The task of a shard: it takes the piece out of the table, generates,    *)
(* broadcasts the result and, unless it failed, has the queue looked at.   *)

Started(m, o) == \E r \in running[m] : r.offer = o

\* Mutant of Popped: a run empties the table.
Popped_All(m, j) == [i \in Jobs |-> NoPiece]

\* _pop_context_chunk.
Popped(m, j) == [chunk[m] EXCEPT ![j] = NoPiece]

StartRun(m, o) ==
    /\ o \in node[m].active /\ ~ Started(m, o) /\ ~ IsWorker(o)
    /\ running' = [running EXCEPT ![m] = @ \cup
           {[offer |-> o, piece |-> chunk[m][Job(o)], had |-> o.key \in loaded[m],
             first |-> \A k \in ran[m] : k[1] # Job(o)]}]
    /\ chunk' = [chunk EXCEPT ![m] = Popped(m, Job(o))]
    /\ ran' = [ran EXCEPT ![m] = @ \cup {o.key}]
    /\ UNCHANGED <<sequencer, network, node, cached, drains, loaded, lastEnd>>

Resumes(active) == active = {}

Ended(m, o, how) ==
    /\ node' = [node EXCEPT ![m].active = @ \ {o},
                            ![m].mining = @ \/ Resumes(node[m].active \ {o})]
    /\ running' = [running EXCEPT ![m] = {r \in @ : r.offer # o}]
    /\ lastEnd' = [lastEnd EXCEPT ![m] = how]

\* A pipeline run that had a piece may have left a cache file: it does if
\* the backend runs on rpc-servers.
CachedAfter(m, o) ==
    {cached[m]} \cup {cached[m] \cup {Context[Job(o)]} :
        r \in {q \in running[m] : q.offer = o /\ q.piece # NoPiece /\ Job(o) \in PipelineJobs}}

Completes(m, o) ==
    /\ Started(m, o)
    /\ Ended(m, o, "ok")
    /\ answers' = answers \cup {o.key}
    /\ drains' = [drains EXCEPT ![m] = @ + 1]
    /\ \E files \in CachedAfter(m, o) : cached' = [cached EXCEPT ![m] = files]
    /\ UNCHANGED <<sequencer, ctxOffers, loads, offers, chunk, loaded, ran>>

\* A pipeline worker answers with a placeholder and returns.
WorkerAnswers(m, o) ==
    /\ o \in node[m].active /\ IsWorker(o)
    /\ Ended(m, o, "worker")
    /\ answers' = answers \cup {o.key}
    /\ UNCHANGED <<sequencer, ctxOffers, loads, offers, chunk, cached, drains, loaded, ran>>

Fails(m, o) ==
    /\ Started(m, o)
    /\ Ended(m, o, "failed")
    /\ UNCHANGED <<sequencer, network, chunk, cached, drains, loaded, ran>>

\* ContextKVCache: a file is deleted when it is too old.
Expire(m, c) ==
    /\ c \in cached[m]
    /\ cached' = [cached EXCEPT ![m] = @ \ {c}]
    /\ UNCHANGED <<sequencer, network, node, chunk, running, drains, loaded, ran, lastEnd>>
-----------------------------------------------------------------------------
Sequencer ==
    \/ \E j \in Jobs : StartLoad(j) \/ \E how \in {"none", "all", "timeout"} : EndLoad(j, how)
    \/ \E j \in Jobs, m \in Miners : OnLoadResult(j, m)
    \/ \E k \in Keys : Rebroadcast(k) \/ \E m \in Miners : ReassignShard(k, m)

Miner(m) ==
    \/ \E k \in Keys : OnContextOffer(m, k)
    \/ \E o \in Offer :
          OnShardOffer(m, o) \/ StartRun(m, o) \/ Completes(m, o) \/ WorkerAnswers(m, o) \/ Fails(m, o)
    \/ Drain(m)
    \/ \E c \in Contexts : Expire(m, c)

Next == Sequencer \/ \E m \in Miners : Miner(m)

Spec == Init /\ [][Next]_vars

-----------------------------------------------------------------------------
NodeRec == [active : SUBSET Offer, queue : Seq(Offer), mining : BOOLEAN]
RunRec  == [offer : Offer, piece : Pieces \cup {NoPiece}, had : BOOLEAN, first : BOOLEAN]

(* Every variable has its type.                                            *)
TypeOK ==
    /\ phase \in [Jobs -> {"new", "loading", "none", "all", "timeout"}]
    /\ responded \in [Jobs -> SUBSET Miners] /\ commits \subseteq Jobs \X Miners
    /\ spec \in [Jobs -> Seq(Miners)] /\ offered \in [Keys -> 0 .. MaxOffers]
    /\ ctxOffers \subseteq Keys /\ loads \subseteq Jobs \X Miners
    /\ offers \subseteq Miners \X Offer /\ answers \subseteq Keys
    /\ node \in [Miners -> NodeRec] /\ chunk \in [Miners -> [Jobs -> Pieces \cup {NoPiece}]]
    /\ cached \in [Miners -> SUBSET Contexts] /\ running \in [Miners -> SUBSET RunRec]
    /\ drains \in [Miners -> Nat] /\ loaded \in [Miners -> SUBSET Keys]
    /\ ran \in [Miners -> SUBSET Keys] /\ lastEnd \in [Miners -> {"ok", "worker", "failed"}]

(* A miner never works on more shards than it may, and not twice on one at *)
(* a time, whatever is offered again, reassigned or taken from the queue.  *)
CapacityKept ==
    \A m \in Miners :
        /\ Cardinality(node[m].active) <= MaxShards
        /\ \A o, p \in node[m].active : o.key = p.key => o = p

(* MINE is mined if and only if the miner has no shard to work on.         *)
MiningYields == \A m \in Miners : node[m].mining <=> node[m].active = {}

(* The miner's tasks, its limit and its mining agree, through offers that  *)
(* are repeated, reassigned, queued, drained, answered and failed.         *)
MinerIsConsistent == TypeOK /\ CapacityKept /\ MiningYields

\* With two shards of a job on one miner the later piece replaces the other.
OnlyPiece(m, k) == \A l \in loaded[m] : l[1] = k[1] => l = k

(* A miner that confirmed its piece of the context, and no other of that   *)
(* job, generates with it when the shard is the job's first there: other   *)
(* jobs, other orders of messages and the queue do not take it away.       *)
ConfirmedPieceIsUsed ==
    \A m \in Miners : \A r \in running[m] :
        r.first /\ r.had /\ OnlyPiece(m, r.offer.key)
          => r.piece = Piece(r.offer.key[1], r.offer.key[2])

(* A CONTEXT_LOAD_COMMIT names a miner that holds or held its piece.       *)
CommitMeansLoaded ==
    \A c \in commits : \E k \in loaded[c[2]] : k[1] = c[1]

(* The wait for the context ends early only when every assigned miner has  *)
(* confirmed.                                                              *)
WaitedForAll ==
    \A j \in Jobs : phase[j] = "all" => \A s \in ShardsOf(j) : <<j, s>> \in loaded[Assigned[j][s]]

(* What the sequencer tells the chain and itself about a context that is   *)
(* loaded is true, although answers come late, twice or not at all.        *)
WaitIsHonest == CommitMeansLoaded /\ WaitedForAll

(* After a shard that succeeded, an offer waits only for a full miner.     *)
NoIdleQueue ==
    \A m \in Miners :
        lastEnd[m] = "ok" /\ drains[m] = 0 /\ node[m].queue # <<>> => Full(node[m])
=============================================================================
