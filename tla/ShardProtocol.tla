--------------------------- MODULE ShardProtocol ---------------------------
(***************************************************************************)
(* The shard orchestrator of the L2 sequencer (chain/shard/protocol.py),   *)
(* with the part of the chain it talks to: the mempool it injects          *)
(* transactions into and the job table the block builder updates.          *)
(*                                                                         *)
(* The sequencer is one asyncio event loop: a step of this module is what  *)
(* the loop runs between two suspensions.  The suspensions that matter are *)
(*   - a dispatch task before it registers its job (it awaits the thought  *)
(*     store and the context-load phase),                                  *)
(*   - every p2p.broadcast (a send to a peer may wait for the socket),     *)
(*   - the sleeps of the timers.                                           *)
(* mempool.add never suspends (its lock is never contended), so accepting  *)
(* the result that completes a job and assembling the job is one step.     *)
(*                                                                         *)
(* A Python JobState object is obj[j][d], the one the d-th dispatch of j   *)
(* made; cur[j] says which of them self._jobs[j] points to.  A timer task  *)
(* started for a shard by dispatch d is replaced by at most one other when *)
(* it ends, so timer[j][d][s] holds the only live one of that chain.       *)
(***************************************************************************)
EXTENDS Integers, FiniteSets

CONSTANTS
    Jobs,         \* job identifiers
    Miners,       \* staked validators; none is ever slashed to a zero stake
    Shards,       \* shard indices 0 .. the largest shard count - 1
    MaxDispatch,  \* BOUND: dispatch tasks ever started for one job
    Mode,         \* [Jobs -> Modes]: shard_mode of the JOB_POST payload
    NShards,      \* [Jobs -> Nat]: n_shards of the JOB_POST payload
    Parent,       \* [Jobs -> Jobs \cup {NoJob}]: parent_job_id
    NoJob, NoMiner

Modes == {"parallel_sample", "context_split", "speculative", "pipeline_parallel"}

ASSUME ShardsAssumption == Shards \subseteq Nat /\ 0 \in Shards
ASSUME MinersAssumption == IsFiniteSet(Miners) /\ NoMiner \notin Miners
ASSUME JobsAssumption   == IsFiniteSet(Jobs) /\ NoJob \notin Jobs
ASSUME BoundAssumption  == MaxDispatch \in Nat \ {0}
ASSUME JobAssumption ==
    /\ Mode \in [Jobs -> Modes]
    /\ NShards \in [Jobs -> Nat \ {0}]
    /\ \A j \in Jobs : 0 .. (NShards[j] - 1) \subseteq Shards
    /\ \A j \in Jobs : Mode[j] = "speculative" => NShards[j] = 1 \/ 1 \in Shards
    /\ Parent \in [Jobs -> Jobs \cup {NoJob}]

VARIABLES
    mempool,  \* transactions waiting for a block
    chain,    \* StateDB._jobs and what SHARD_COMMIT has paid, per job
    task,     \* the dispatch_job tasks, per job and dispatch
    obj,      \* the JobState objects those tasks created
    cur,      \* self._jobs: 0 = absent, d = the object of dispatch d
    timer,    \* the timer tasks, one chain per job, dispatch and shard
    offers,   \* ShardOffers a miner may still take: <<job, shard, miner>>
    answers   \* ShardResults on their way to the sequencer

vars == <<mempool, chain, task, obj, cur, timer, offers, answers>>
-----------------------------------------------------------------------------
Dispatches == 1 .. MaxDispatch
Addressed  == Jobs \X Shards \X Miners

PostTx(j)         == <<"JOB_POST", j>>
CommitTx(j, s, m) == <<"SHARD_COMMIT", j, s, m>>
HistoryTx(j)      == <<"HISTORY_COMMIT", j>>
SlashTx(j, s, m)  == <<"SLASH_HARD", j, s, m>>

Posts     == {PostTx(j) : j \in Jobs}
Commits   == {CommitTx(a[1], a[2], a[3]) : a \in Addressed}
Histories == {HistoryTx(j) : j \in Jobs}
Slashes   == {SlashTx(a[1], a[2], a[3]) : a \in Addressed}

\* The mode and the number of shards dispatch_job works with.
ProtoMode(j) ==
    IF NShards[j] = 1 /\ Mode[j] # "pipeline_parallel" THEN "parallel_sample" ELSE Mode[j]
ProtoShards(j) == IF ProtoMode(j) = "speculative" THEN 2 ELSE NShards[j]

NoTimer == [kind |-> "none", miner |-> NoMiner, tracked |-> FALSE]

\* A JobState that has not been filled in; also what _register_failed_job
\* makes, with status failed: it has no specs.
BlankJob == [status |-> "absent",
             spec   |-> [s \in Shards |-> NoMiner],
             result |-> [s \in Shards |-> NoMiner],
             sstat  |-> [s \in Shards |-> "unassigned"]]

Has(f, s) == f[s] # NoMiner

\* Mutant of Ready: any stage of a pipeline completes it.
Ready_AnyStage(j, spec, result) ==
    IF ProtoMode(j) \in {"parallel_sample", "pipeline_parallel"}
    THEN \E s \in Shards : Has(result, s)
    ELSE \A s \in Shards : Has(spec, s) => Has(result, s)

\* JobState.ready_to_assemble, for a job with the given specs and results.
Ready(j, spec, result) ==
    CASE ProtoMode(j) = "parallel_sample"   -> \E s \in Shards : Has(result, s)
      [] ProtoMode(j) = "pipeline_parallel" -> Has(result, 0)
      [] OTHER -> \A s \in Shards : Has(spec, s) => Has(result, s)

\* The lists select_miners can return for n shards from the live validators:
\* every miner once before any miner is used again.
Assignments(live, n) ==
    {f \in [0 .. (n - 1) -> live] :
        \A a, b \in 0 .. (n - 1) :
            a < b /\ a \div Cardinality(live) = b \div Cardinality(live) => f[a] # f[b]}

\* Pipeline jobs keep a coordinator and the selected miners that advertise an
\* rpc address, so the list is reordered and may be shortened.
PipelineAssignments(live, n) ==
    UNION {{f \in [0 .. (k - 1) -> live] :
              \E g \in Assignments(live, n), p \in [0 .. (k - 1) -> 0 .. (n - 1)] :
                 /\ \A a, b \in 0 .. (k - 1) : a # b => p[a] # p[b]
                 /\ f = [i \in 0 .. (k - 1) |-> g[p[i]]]} : k \in 1 .. n}

Selections(j, live) ==
    IF ProtoMode(j) = "pipeline_parallel"
    THEN PipelineAssignments(live, ProtoShards(j))
    ELSE Assignments(live, ProtoShards(j))
-----------------------------------------------------------------------------
\* Mutant of ChainDone: one commit too many is waited for.
ChainDone_OneMore(j, results) == Cardinality(results) = NShards[j] + 1

(* StateDB._apply_shard_commit's completion test, on the n_shards and mode *)
(* of the JOB_POST payload.                                                *)
ChainDone(j, results) ==
    \/ Cardinality(results) = NShards[j]
    \/ Mode[j] = "parallel_sample" /\ results # {}
    \/ Mode[j] = "pipeline_parallel" /\ 0 \in results

NewChainJob == [status |-> "none", results |-> {}, paid |-> [s \in Shards |-> 0], history |-> 0]

Init ==
    /\ mempool = {}
    /\ chain   = [j \in Jobs |-> NewChainJob]
    /\ task    = [j \in Jobs |-> [d \in Dispatches |-> [pc |-> "idle", next |-> 0, to |-> NoMiner]]]
    /\ obj     = [j \in Jobs |-> [d \in Dispatches |-> BlankJob]]
    /\ cur     = [j \in Jobs |-> 0]
    /\ timer   = [j \in Jobs |-> [d \in Dispatches |-> [s \in Shards |-> NoTimer]]]
    /\ offers  = {}
    /\ answers = {}

protocol == <<obj, cur, timer>>
network  == <<offers, answers>>

\* asyncio.create_task(dispatch_job(...)) for every job of J: the task is the
\* job's next dispatch.
FreeSlots(j) == {d \in Dispatches : task[j][d].pc = "idle"}
IsNext(j, d) == d \in FreeSlots(j) /\ \A e \in FreeSlots(j) : d <= e
StartTasks(J) ==
    task' = [j \in Jobs |-> [d \in Dispatches |->
                IF j \in J /\ IsNext(j, d)
                THEN [task[j][d] EXCEPT !.pc = "ready"]
                ELSE task[j][d]]]
-----------------------------------------------------------------------------
(* inft_postJob and its variants: the client's JOB_POST enters the pool.   *)
PostJob(j) ==
    /\ chain[j].status = "none"
    /\ mempool' = mempool \cup {PostTx(j)}
    /\ UNCHANGED <<chain, task, protocol, network>>

(* Sequencer._produce_block: the pool is popped, every transaction applied *)
(* (JOB_POST first, it has the higher gas price), the jobs that became     *)
(* pending are dispatched.  No suspension until the block is broadcast.    *)
Posted(j)    == PostTx(j) \in mempool
Committed(j) == {s \in Shards : \E m \in Miners : CommitTx(j, s, m) \in mempool}
ResultsAfter(j) == chain[j].results \cup Committed(j)

CompletesIn(j) == Committed(j) # {} /\ ChainDone(j, ResultsAfter(j))

\* Mutant of StatusAfterPosts: a child does not wait for its parent.
StatusAfterPosts_NoWait(j) == IF Posted(j) THEN "pending" ELSE chain[j].status

StatusAfterPosts(j) ==
    IF ~ Posted(j) THEN chain[j].status
    ELSE IF Parent[j] = NoJob \/ chain[Parent[j]].status = "complete" THEN "pending"
    ELSE "waiting"

\* Mutant of Cascades: a child posted in the block of its parent's commit is
\* overlooked.
Cascades_Earlier(j) == /\ chain[j].status = "waiting"
                       /\ Parent[j] \in Jobs
                       /\ CompletesIn(Parent[j])

Cascades(j) == /\ StatusAfterPosts(j) = "waiting"
               /\ Parent[j] \in Jobs
               /\ CompletesIn(Parent[j])

StatusAfter(j) ==
    IF CompletesIn(j) THEN "complete"
    ELSE IF Cascades(j) THEN "pending"
    ELSE StatusAfterPosts(j)

PaidAfter(j) ==
    [s \in Shards |-> chain[j].paid[s]
                        + Cardinality({m \in Miners : CommitTx(j, s, m) \in mempool})]

ProduceBlock ==
    /\ chain' = [j \in Jobs |->
                    [status  |-> StatusAfter(j),
                     results |-> ResultsAfter(j),
                     paid    |-> PaidAfter(j),
                     history |-> IF HistoryTx(j) \in mempool
                                 THEN chain[j].history + 1 ELSE chain[j].history]]
    /\ mempool' = {}
    /\ StartTasks({j \in Jobs : chain[j].status \in {"none", "waiting"}
                                 /\ StatusAfter(j) = "pending"})
    /\ UNCHANGED <<protocol, network>>

(* P2P inbound connection -> recover_pending_jobs: every job the state has *)
(* as pending and self._jobs does not have is dispatched (again).          *)
Lost(j) == chain[j].status = "pending" /\ cur[j] = 0
PeerConnected ==
    /\ \E j \in Jobs : Lost(j)
    /\ \A j \in Jobs : Lost(j) => FreeSlots(j) # {}     \* BOUND MaxDispatch
    /\ StartTasks({j \in Jobs : Lost(j)})
    /\ UNCHANGED <<mempool, chain, protocol, network>>
-----------------------------------------------------------------------------
(* dispatch_job when no validator passes the liveness or benchmark gate,   *)
(* or no selected miner can serve a pipeline: _register_failed_job.        *)
DispatchFails(j, d) ==
    /\ task[j][d].pc = "ready"
    /\ task' = [task EXCEPT ![j][d].pc = "done"]
    /\ obj'  = [obj EXCEPT ![j][d] = [BlankJob EXCEPT !.status = "failed"]]
    /\ cur'  = [cur EXCEPT ![j] = d]
    /\ UNCHANGED <<mempool, chain, timer, network>>

(* dispatch_job up to the broadcast of the first offer: the miners are     *)
(* selected, the job object is made and put in self._jobs over whatever    *)
(* was there, self._timers[job_id] is a new list.  The suspensions before  *)
(* this point touch no state but the task's own, so the time spent in them *)
(* is the time spent in "ready".                                           *)
DispatchJob(j, d) ==
    /\ task[j][d].pc = "ready"
    /\ \E live \in SUBSET Miners \ {{}} : \E f \in Selections(j, live) :
         /\ obj' = [obj EXCEPT ![j][d] =
                      [status |-> "pending",
                       spec   |-> [s \in Shards |-> IF s \in DOMAIN f THEN f[s] ELSE NoMiner],
                       result |-> BlankJob.result,
                       sstat  |-> [s \in Shards |->
                                     IF s \in DOMAIN f THEN "offered" ELSE "unassigned"]]]
         /\ offers' = offers \cup {<<j, 0, f[0]>>}
         /\ task' = [task EXCEPT ![j][d] = [pc |-> "offering", next |-> 1, to |-> f[0]]]
    /\ cur'   = [cur EXCEPT ![j] = d]
    /\ timer' = [timer EXCEPT ![j] =
                   [e \in Dispatches |-> [s \in Shards |->
                       [timer[j][e][s] EXCEPT !.tracked = FALSE]]]]
    /\ UNCHANGED <<mempool, chain, answers>>

(* The offer loop resumes after a broadcast: it starts the offer timer of  *)
(* the shard just offered, then broadcasts the next offer, if any.         *)
OfferShard(j, d) ==
    /\ task[j][d].pc = "offering"
    /\ timer' = [timer EXCEPT ![j][d][task[j][d].next - 1] =
                   [kind |-> "offer", miner |-> task[j][d].to, tracked |-> TRUE]]
    /\ LET i == task[j][d].next
           m == IF i \in Shards THEN obj[j][d].spec[i] ELSE NoMiner
       IN  IF m # NoMiner
           THEN /\ task' = [task EXCEPT ![j][d] = [pc |-> "offering", next |-> i + 1, to |-> m]]
                /\ offers' = offers \cup {<<j, i, m>>}
           ELSE /\ task' = [task EXCEPT ![j][d].pc = "done"]
                /\ UNCHANGED offers
    /\ UNCHANGED <<mempool, chain, obj, cur, answers>>
-----------------------------------------------------------------------------
(* A miner takes an offer and broadcasts its result.                       *)
MinerAnswers(j, s, m) ==
    /\ <<j, s, m>> \in offers
    /\ offers'  = offers \ {<<j, s, m>>}
    /\ answers' = answers \cup {<<j, s, m>>}
    /\ UNCHANGED <<mempool, chain, task, protocol>>

(* on_shard_result and _assemble.                                          *)
Current(j) == obj[j][cur[j]]

\* Mutants of Accepts: the COMPLETE test or the assignment test is missing.
Accepts_Late(j, s, m)   == cur[j] # 0 /\ Current(j).spec[s] = m
Accepts_Anyone(j, s, m) == /\ cur[j] # 0
                           /\ Current(j).status # "complete"
                           /\ Has(Current(j).spec, s)

Accepts(j, s, m) == /\ cur[j] # 0
                    /\ Current(j).status # "complete"
                    /\ Current(j).spec[s] = m

ResultIgnored(j, s, m) ==
    /\ <<j, s, m>> \in answers
    /\ ~ Accepts(j, s, m)
    /\ answers' = answers \ {<<j, s, m>>}
    /\ UNCHANGED <<mempool, chain, task, protocol, offers>>

WithResult(j, s, m) == [Current(j).result EXCEPT ![s] = m]

ResultRecorded(j, s, m) ==
    /\ <<j, s, m>> \in answers
    /\ Accepts(j, s, m)
    /\ ~ Ready(j, Current(j).spec, WithResult(j, s, m))
    /\ answers' = answers \ {<<j, s, m>>}
    /\ obj' = [obj EXCEPT ![j][cur[j]] = [@ EXCEPT !.result[s] = m, !.sstat[s] = "submitted"]]
    /\ UNCHANGED <<mempool, chain, task, cur, timer, offers>>

\* Mutant of AssembledTxs: a commit for every assigned shard.
AssembledTxs_Assigned(j, result) ==
    {CommitTx(j, s, Current(j).spec[s]) : s \in {x \in Shards : Has(Current(j).spec, x)}}

\* Only a chained dispatch passes a requester, so only it records history.
AssembledTxs(j, result) ==
    {CommitTx(j, s, result[s]) : s \in {x \in Shards : Has(result, x)}}
      \cup (IF Parent[j] # NoJob THEN {HistoryTx(j)} ELSE {})

ResultCompletes(j, s, m) ==
    /\ <<j, s, m>> \in answers
    /\ Accepts(j, s, m)
    /\ Ready(j, Current(j).spec, WithResult(j, s, m))
    /\ answers' = answers \ {<<j, s, m>>}
    /\ obj' = [obj EXCEPT ![j][cur[j]] =
                 [@ EXCEPT !.result[s] = m, !.sstat[s] = "submitted", !.status = "complete"]]
    /\ timer' = [timer EXCEPT ![j] =
                   [e \in Dispatches |-> [x \in Shards |->
                       IF timer[j][e][x].tracked THEN NoTimer ELSE timer[j][e][x]]]]
    /\ mempool' = mempool \cup AssembledTxs(j, WithResult(j, s, m))
    /\ UNCHANGED <<chain, task, cur, offers>>
-----------------------------------------------------------------------------
(* _offer_timeout: an unanswered offer is sent again, without a slash.     *)
OfferTimeout(j, d, s) ==
    /\ timer[j][d][s].kind = "offer"
    /\ ~ Has(Current(j).result, s) /\ Current(j).sstat[s] = "offered"
    /\ obj' = [obj EXCEPT ![j][cur[j]] = [@ EXCEPT !.sstat[s] = "timeout"]]
    /\ IF Current(j).status = "complete"
       THEN /\ timer' = [timer EXCEPT ![j][d][s] = [@ EXCEPT !.kind = "result", !.tracked = TRUE]]
            /\ UNCHANGED offers
       ELSE /\ timer' = [timer EXCEPT ![j][d][s].kind = "resend"]
            /\ offers' = offers \cup {<<j, s, Current(j).spec[s]>>}
    /\ UNCHANGED <<mempool, chain, task, cur, answers>>

\* A timer that finds the result in, or an offer timer that finds the shard
\* already timed out, ends.
TimerEnds(j, d, s) ==
    /\ \/ timer[j][d][s].kind = "offer"
          /\ (Has(Current(j).result, s) \/ Current(j).sstat[s] # "offered")
       \/ timer[j][d][s].kind = "result" /\ Has(Current(j).result, s)
    /\ timer' = [timer EXCEPT ![j][d][s] = NoTimer]
    /\ UNCHANGED <<mempool, chain, task, obj, cur, network>>

\* The broadcast of _rebroadcast_shard or _reassign_shard is done: the result
\* timer it leads to is started, on the list self._timers[job_id] now is.
BroadcastDone(j, d, s) ==
    /\ timer[j][d][s].kind \in {"resend", "reoffer"}
    /\ timer' = [timer EXCEPT ![j][d][s] = [@ EXCEPT !.kind = "result", !.tracked = TRUE]]
    /\ UNCHANGED <<mempool, chain, task, obj, cur, network>>

(* _result_timeout: slash the timer's miner, then _reassign_shard.         *)

Fallbacks(j) == Miners \ {Current(j).spec[s] : s \in Shards}

\* Mutant of TimesOut: the timer does not look for the result.
TimesOut_Answered(j, d, s) ==
    /\ timer[j][d][s].kind = "result"
    /\ mempool' = mempool \cup {SlashTx(j, s, timer[j][d][s].miner)}
    /\ UNCHANGED <<chain, task, cur, answers>>

TimesOut(j, d, s) ==
    /\ timer[j][d][s].kind = "result"
    /\ ~ Has(Current(j).result, s)
    /\ mempool' = mempool \cup {SlashTx(j, s, timer[j][d][s].miner)}
    /\ UNCHANGED <<chain, task, cur, answers>>

\* The job is complete, or has no such shard (a KeyError ends the task).
ResultTimeoutStops(j, d, s) ==
    /\ TimesOut(j, d, s)
    /\ \/ Current(j).status = "complete"
       \/ Fallbacks(j) # {} /\ ~ Has(Current(j).spec, s)
    /\ obj' = [obj EXCEPT ![j][cur[j]] = [@ EXCEPT !.sstat[s] = "timeout"]]
    /\ timer' = [timer EXCEPT ![j][d][s] = NoTimer]
    /\ UNCHANGED offers

\* No miner is left that has none of the job's shards.
ResultTimeoutFails(j, d, s) ==
    /\ TimesOut(j, d, s)
    /\ Current(j).status # "complete"
    /\ Fallbacks(j) = {}
    /\ obj' = [obj EXCEPT ![j][cur[j]] = [@ EXCEPT !.sstat[s] = "timeout", !.status = "failed"]]
    /\ timer' = [timer EXCEPT ![j][d][s] = NoTimer]
    /\ UNCHANGED offers

ResultTimeoutReassigns(j, d, s) ==
    /\ TimesOut(j, d, s)
    /\ Current(j).status # "complete"
    /\ Has(Current(j).spec, s)
    /\ \E m \in Fallbacks(j) :
         /\ obj' = [obj EXCEPT ![j][cur[j]] = [@ EXCEPT !.spec[s] = m, !.sstat[s] = "offered"]]
         /\ offers' = offers \cup {<<j, s, m>>}
         /\ timer' = [timer EXCEPT ![j][d][s] = [@ EXCEPT !.kind = "reoffer", !.miner = m]]
-----------------------------------------------------------------------------
ResultTimeout(j, d, s) == \/ ResultTimeoutStops(j, d, s)
                          \/ ResultTimeoutFails(j, d, s)
                          \/ ResultTimeoutReassigns(j, d, s)
TimerFires(j, d, s) == OfferTimeout(j, d, s) \/ ResultTimeout(j, d, s)
TimerStep(j, d, s) == TimerFires(j, d, s) \/ TimerEnds(j, d, s) \/ BroadcastDone(j, d, s)
OnShardResult(j, s, m) == \/ ResultIgnored(j, s, m)
                          \/ ResultRecorded(j, s, m)
                          \/ ResultCompletes(j, s, m)
DispatchStep(j, d) == DispatchFails(j, d) \/ DispatchJob(j, d) \/ OfferShard(j, d)

Next ==
    \/ ProduceBlock
    \/ PeerConnected
    \/ \E j \in Jobs : PostJob(j)
    \/ \E j \in Jobs, d \in Dispatches : DispatchStep(j, d)
    \/ \E j \in Jobs, s \in Shards, m \in Miners : MinerAnswers(j, s, m) \/ OnShardResult(j, s, m)
    \/ \E j \in Jobs, d \in Dispatches, s \in Shards : TimerStep(j, d, s)

Spec == Init /\ [][Next]_vars

\* The event loop runs every ready task and every expired timer.
SchedulerFairness ==
    /\ WF_vars(ProduceBlock)
    /\ \A j \in Jobs, d \in Dispatches : WF_vars(DispatchStep(j, d))
    /\ \A j \in Jobs, d \in Dispatches, s \in Shards : WF_vars(TimerStep(j, d, s))

\* Every miner answers its offers, and a miner that is offered a shard again
\* and again is not always too late: while the shard is still assigned to it,
\* some answer of its is sent and some answer of its arrives.
ResponsiveMiners ==
    \A j \in Jobs, s \in Shards, m \in Miners :
        /\ WF_vars(MinerAnswers(j, s, m))
        /\ SF_vars(MinerAnswers(j, s, m) /\ Accepts(j, s, m))
        /\ WF_vars(OnShardResult(j, s, m))
        /\ SF_vars(ResultRecorded(j, s, m) \/ ResultCompletes(j, s, m))

SchedulerSpec == Spec /\ SchedulerFairness
FairSpec      == SchedulerSpec /\ ResponsiveMiners
-----------------------------------------------------------------------------
TaskPCs   == {"idle", "ready", "offering", "done"}
JobStates == {"absent", "pending", "complete", "failed"}
MinerOrNone == Miners \cup {NoMiner}

ShardStates == {"unassigned", "offered", "timeout", "submitted"}
TimerKinds  == {"none", "offer", "resend", "result", "reoffer"}

ChainRec == [status  : {"none", "waiting", "pending", "complete"},
             results : SUBSET Shards,
             paid    : [Shards -> Nat],
             history : Nat]
TaskRec  == [pc : TaskPCs, next : Nat, to : MinerOrNone]
JobRec   == [status : JobStates,
             spec   : [Shards -> MinerOrNone],
             result : [Shards -> MinerOrNone],
             sstat  : [Shards -> ShardStates]]
TimerRec == [kind : TimerKinds, miner : MinerOrNone, tracked : BOOLEAN]

(* Every variable has its type: the partial maps of the code are total     *)
(* functions here, with NoMiner where the code has no entry.               *)
TypeOK ==
    /\ mempool \subseteq Posts \cup Commits \cup Histories \cup Slashes
    /\ chain \in [Jobs -> ChainRec]
    /\ task \in [Jobs -> [Dispatches -> TaskRec]]
    /\ obj \in [Jobs -> [Dispatches -> JobRec]]
    /\ cur \in [Jobs -> 0 .. MaxDispatch]
    /\ timer \in [Jobs -> [Dispatches -> [Shards -> TimerRec]]]
    /\ offers \subseteq Addressed
    /\ answers \subseteq Addressed

\* Only one dispatch task was ever started for j.
OnceDispatched(j) == \A d \in Dispatches : task[j][d].pc # "idle" => d = 1

(* A recorded result is always the one of the miner the shard is assigned  *)
(* to: on_shard_result checks the assignment when the result arrives, and  *)
(* no later time-out may reassign a shard whose result is in.              *)
ResultFromAssignee ==
    \A j \in Jobs, d \in Dispatches, s \in Shards :
        Has(obj[j][d].result, s) => obj[j][d].result[s] = obj[j][d].spec[s]

(* A SHARD_COMMIT (in the pool or applied) stands for the result a miner   *)
(* delivered to a dispatch of the job that was assembled.                  *)
CommitsAreOfAssembledJobs ==
    \A j \in Jobs, s \in Shards :
        /\ \A m \in Miners : CommitTx(j, s, m) \in mempool =>
              \E d \in Dispatches : obj[j][d].status = "complete" /\ obj[j][d].result[s] = m
        /\ s \in chain[j].results =>
              \E d \in Dispatches : obj[j][d].status = "complete" /\ Has(obj[j][d].result, s)

(* state._apply_shard_commit pays at every commit and remembers nothing:   *)
(* that a shard of a job that was dispatched once is paid at most once     *)
(* rests on the protocol assembling the job only once.                     *)
PaidOnce ==
    \A j \in Jobs : OnceDispatched(j) => \A s \in Shards : chain[j].paid[s] <= 1

(* With re-dispatch after a lost connection the bound is the number of     *)
(* assemblies: a shard is never paid, nor about to be, more often than     *)
(* dispatches of the job were assembled with a result for it.              *)
PaidPerAssembly ==
    \A j \in Jobs, s \in Shards :
        PaidAfter(j)[s] <= Cardinality({d \in Dispatches :
                              obj[j][d].status = "complete" /\ Has(obj[j][d].result, s)})

(* The commits of a job fit its mode. Those of a pipeline job reach the    *)
(* chain with the coordinator's among them, and the workers' placeholders  *)
(* alone never complete it; parallel_sample is a race, of which one shard  *)
(* at most is ever committed when the job was dispatched once, however     *)
(* many results arrive together.                                           *)
CommitsFitTheMode ==
    \A j \in Jobs :
        /\ ProtoMode(j) = "pipeline_parallel" =>
              /\ ResultsAfter(j) # {} => 0 \in ResultsAfter(j)
              /\ chain[j].status = "complete" => 0 \in chain[j].results
        /\ ProtoMode(j) = "parallel_sample" /\ OnceDispatched(j) =>
              Cardinality(chain[j].results \cup Committed(j)) <= 1

(* The 30% slash of a result time-out hits the miner the shard is assigned *)
(* to at that moment, and only while its result is missing (for jobs that  *)
(* were dispatched once: see the README on recovery).                      *)
SlashesTheAssignee ==
    [][\A j \in Jobs, s \in Shards, m \in Miners :
          OnceDispatched(j) /\ SlashTx(j, s, m) \in mempool' \ mempool =>
              Current(j).spec[s] = m /\ ~ Has(Current(j).result, s)]_vars

(* An assembled job keeps its miners, its results and its status, whatever *)
(* timers and late results still reach it.                                 *)
AssembledIsFinal ==
    [][\A j \in Jobs, d \in Dispatches : obj[j][d].status = "complete" =>
          /\ obj'[j][d].status = "complete"
          /\ obj'[j][d].spec = obj[j][d].spec
          /\ obj'[j][d].result = obj[j][d].result]_vars

(* With responsive miners every posted root job is completed on the chain, *)
(* unless the protocol gave it up.                                         *)
GivenUp(j) == cur[j] # 0 /\ Current(j).status = "failed"
RootJobsSettle ==
    \A j \in Jobs : Parent[j] = NoJob =>
        (Posted(j) ~> chain[j].status = "complete" \/ GivenUp(j))

(* ... and so is every job that waits for a posted one, unless the         *)
(* protocol gave up either: the wake-up of the child is never lost.        *)
ChainedJobsSettle ==
    \A j \in Jobs : Parent[j] # NoJob =>
        (chain[j].status = "waiting" /\ chain[Parent[j]].status # "none"
            ~> chain[j].status = "complete" \/ GivenUp(j) \/ GivenUp(Parent[j]))

\* The results that complete a job, by its mode.
Enough == [j \in Jobs |-> {R \in SUBSET Shards : ChainDone(j, R)}]

Lifecycle == INSTANCE JobLifecycle WITH
    Sufficient <- Enough,
    status  <- [j \in Jobs |-> chain[j].status],
    results <- [j \in Jobs |-> chain[j].results]

(* Dispatches, time-outs, reassignments and recovery implement the life of *)
(* a job its client is promised: no result reaches the chain before the    *)
(* job is pending or takes it back, a child never starts early.            *)
ImplementsLifecycle == Lifecycle!Spec
=============================================================================
