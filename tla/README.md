# Verification project for inference-chain

TLA+ models of the programs in `l1/` and `l2/`, the TLC runs that check them on
small instances, and TLAPS proofs of their main properties for every instance.
Paths below are relative to `src/`.

## 1. The system

Two programs sell the same thing, language-model inference, in two ways.

*L1* is an Ethereum contract, `l1/contracts/InferenceToken.sol`: an ERC-20 whose
jobs are posted with a fee, claimed by a miner with a bond, answered, and then
finalised, challenged, or reclaimed after a deadline. `l1/miner` is a miner for it;
`l1/api`, `l1/sdk` and `l1/frontend` are clients.

*L2* is a chain with one sequencer. Clients post jobs by RPC; the sequencer puts
`JOB_POST` in a block, cuts the job into shards, offers them to miners over a
WebSocket overlay, collects the answers, and puts `SHARD_COMMIT`s in the next
block, which pay the miners. A bridge moves INFT between L1 and L2, a rollup
contract receives batches of block headers, and a second token (MINE) is mined by
proof of work on L2 and bridged by its own contract.

| component | state | operations | interacts with |
|---|---|---|---|
| shard orchestrator `l2/chain/shard/protocol.py` | `_jobs`, `_timers`, context-load waiters, heartbeats | dispatch, offer, result, assemble, offer/result time-out, reassign, recover, chain | block production (dispatch, commits), P2P (offers, results), state (job table) |
| miner selection `shard/vrf.py`, modes `shard/modes/*` | none | select, fall back, ready to assemble, assemble | orchestrator |
| block production `sequencer.py`, `block_builder.py`, `block_validator.py` | head | produce block, sequence transaction, restore | mempool, state, orchestrator |
| mempool `mempool.py` | pending heap, seen hashes | add, pop batch | RPC, orchestrator, block production |
| state `state.py` | accounts, validators, jobs, histories, contexts | one `_apply_*` per transaction kind | block production |
| MINE `mine.py`, `mining/mine_cpu.py` | challenge, balances, minted | apply solution, bridge burn | RPC |
| miner `l2/miner/l2_miner.py` | running shards, queue, context chunks | register, offer, execute, drain | P2P |
| P2P `p2p/node.py` | peers, seen messages | accept, broadcast, gossip, recover on connect | orchestrator, miners |
| bridge `contracts/InferenceChainBridge.sol`, `bridge/*.py` | nonces, withdrawals, sqlite queues | deposit, relay, initiate, finalise, challenge | L1 token, L2 pool |
| rollup `contracts/InferenceChainRollup.sol`, `rollup_poster.py` | batches, bonds, head | submit, finalise, challenge, resolve | sequencer |
| MINE on L1 `contracts/MineTokenL1.sol` | balances, withdrawals | deposit, initiate, finalise, challenge | MINE |
| L1 market `l1/contracts/InferenceToken.sol` | jobs, disputes, balances, pending bonds | post, claim, submit, finalise, challenge, resolve, expire, reclaim | L1 miner, clients |
| L1 miner `l1/miner/miner.py`, `nonce.py` | seen jobs, nonce | claim, infer, submit | L1 market |
| stores, registries, front ends, `pg_inft`, `pg_nest`, sidecar | databases | CRUD | everything |

`PROJECT.json` lists every component with its sources and status.

What is hard, and what has to hold:

* **Orchestrator.** One event loop, many tasks that suspend inside broadcasts and
  sleeps; results that race with time-outs, with reassignments, with the assembly
  of the job and with a second dispatch of it. It has to keep only results of the
  present assignee, assemble once, pay once, slash only who owes, and finish.
* **Chain.** The ledger has to conserve tokens, a dependent job has to be woken
  exactly once, a restart must not forget or repeat.
* **Market contract.** Callers in any order, the same address in several roles,
  deadlines that touch; bonds and rewards have to be covered and paid once.
* **Bridge, rollup.** Two ledgers and relays that crash in between: no double mint,
  no release without burn, nothing stuck.
* **MINE.** The supply cap, halvings, and challenges that are replaced.
* **L2 miner and context load.** Queues with limits, duplicates, pieces of context that
  arrive, expire and are taken by several runs, a wait that ends in three ways.
* **P2P overlay, thoughts, benchmarks.** Sockets that are dialled twice, break and are
  forgotten late; a flood that must reach handlers once; answers after a time-out.
* **Prompts and outputs.** Slices that have to cover a prompt, answers that come in any order and
  number, the output of one job in the prompt of the next.
* **L1 miner and clients.** Receipts that come after their sender gave up, retries with a
  new nonce, restarts with bonds at stake.
* **Inference backends.** Guessed tokens that must not change the text.

## 2. Plan

Order: what moves money or work first; within it, what runs concurrently first.

| # | module | models | state |
|---|---|---|---|
| 1 | `ShardProtocol` | orchestrator, with the part of mempool, block production and job table it talks to | checked, safety proved |
| 2 | `InferenceMarket` | the L1 market contract | checked, safety proved |
| 3 | `StateDB`, `L2Ledger` | accounts and transactions; mempool, block builder, snapshots, restarts | checked, safety proved |
| 4 | `JobLifecycle` | abstract: what a client is promised of a job; `ShardProtocol` implements it | checked, refinement proved |
| 5 | `MineToken` | `MineState`, the MINE transactions, the CPU miner, `MineTokenL1.sol`, composed | checked, safety proved |
| 6 | `Rollup`, `Bridge` | rollup contract and poster; bridge contract, watcher, relayer, and L2 as they see it, over `Rollup` | checked, safety proved |
| 7 | `L2Miner` | context-load phase of a dispatch; admission, queue, execution and draining of a miner | checked, safety proved |
| 8 | `Overlay`, `Memory` | sockets, discovery, the flood; thoughts, rollups and benchmarks over it | checked, safety proved |
| 9 | `L1Clients` | the L1 miner daemon and the SDK's `infer()`, over `InferenceMarket` | checked, safety and implementation of `InferenceMarket` proved |
| 10 | `Decoding`, `Lookahead` | abstract: what `generate()` promises; lookahead decoding implements it | checked and proved |
| 11 | `JobTexts` | prompts cut into slices, answers joined to an output, outputs in the prompts of chained jobs | checked, safety proved |
| 12 | composition of 1 and 3 | `AssembledOnce`, which `L2Ledger` assumes, discharged by the orchestrator | open |
| 13 | `pg_inft`, `pg_nest`, model registry | see "Not modelled" | open |

What composes what: `L1Clients` EXTENDS `InferenceMarket` and runs its actions as
transactions; `Bridge` EXTENDS `Rollup`; `Memory` EXTENDS `Overlay`; `L2Ledger` EXTENDS
`StateDB`; `ShardProtocol` and `Lookahead` INSTANCE the abstract modules they implement.

The modules hold no `RECURSIVE` operator: recursion is a recursive function, and sums are
`Totals!Total`, a cardinality (section 5 says why).

## 3. The modules and the code

### ShardProtocol — `l2/chain/shard/protocol.py`

The sequencer is one asyncio loop. A step of the module is what runs between two
suspensions; those that matter are the awaits of a dispatch task before it
registers its job, every `p2p.broadcast`, and the sleeps of timers. `mempool.add`
takes a lock nobody can hold at that time, so "accept the completing result,
cancel timers, assemble, submit the commits" is one step (`ResultCompletes`).

| variable | code |
|---|---|
| `chain` | `StateDB._jobs` and what `_apply_shard_commit` paid |
| `mempool` | transactions the orchestrator or a client added |
| `task[j][d]` | the d-th `dispatch_job` task of job j, with the offer it waits in |
| `obj[j][d]` | the `JobState` that task created; `cur[j]` is which one `_jobs[j]` names |
| `timer[j][d][s]` | the one live timer task of a shard, whom it accuses, and whether it is still in `_timers` |
| `offers`, `answers` | messages to and from miners, in any order |

`ProduceBlock` applies a batch and starts the dispatch tasks, of root jobs at once
and of chained jobs when their parent completes; `PeerConnected` is
`recover_pending_jobs`. A dispatch may find no miners (`DispatchFails`), and
otherwise gets any list the selection can return. A chained dispatch tests that
its job is PENDING when the task starts; nothing can change that between the block
and the start, so the test is not a state of the model.

*Recovery.* `PeerConnected` dispatches every pending job that is not in `_jobs`. A
first dispatch that is still in its awaits has not registered the job, so a job
may be dispatched twice: the second object overwrites the first, and the first's
timers, no longer in `_timers`, act on the object of the second. The properties
that hold only for a job dispatched once (`SlashesTheAssignee`, `PaidOnce`, the race in
`CommitsFitTheMode`) say so; `PaidPerAssembly` is what holds with two dispatches.

`JobLifecycle` is what a client sees of it: status and results per job, one step per
block. `Lifecycle` maps `chain` to it; what is enough to complete a job (`Sufficient`) is
the code's test for the job's mode.

Left to other modules: the context-load phase (`L2Miner`; here it only narrows the choice of
miners, which is left open), prompts and outputs (`JobTexts`) and the thought store (`Memory`). Not
modelled: heartbeats, and `deadline_ms`, which no code reads to enforce anything.

### InferenceMarket — `l1/contracts/InferenceToken.sol`

One action per external function; a call that would revert is a step that is not
enabled. The contract reads timestamps only as distances to `block.timestamp`, so a
job keeps the time since `postedAt` and `submittedAt`, capped one above the largest
distance a comparison separates; `Tick` advances them. `nextJobId++` is the choice
of an unposted job. `pendingBonds` is one pool per address, as in the code.

A miner may challenge its own result; its pool is then counted as the loser's and
the winner's. `Solvent` is stated for behaviours in which nobody does
(`NobodyDisputesItself`).

Not modelled: the miner registry and its score (no other function reads them),
inherited ERC-20 transfers, recipients that refuse ETH.

### StateDB and L2Ledger — `l2/chain/state.py`, `mempool.py`, `block_builder.py`, `sequencer.py`

`apply_transaction` copies the state and returns the copy, so in `StateDB` a state is a
record and each transaction kind an operator on records (`Transferred`, `Staked`,
`ShardCommitted`, ...), written with the code's reads and writes in the code's order:
a transfer to oneself, where the recipient is read before the sender is written,
is an operator of its own.

`L2Ledger` runs them. `state` is `Sequencer._state`, `work` the `new_state` of the block
under construction, `disk` what the snapshot file restores. A step is one round of the
batch loop: the top of the heap is set aside (its nonce does not follow the one in
the batch), refused, or applied to `work`. `EndBlock` publishes `work` and, every
`SNAPSHOT_EVERY` blocks, writes it without the jobs; `DiscardBlock` is a block that
`validate_block` refuses, whose transactions are lost; `Restart` may come at any step,
also inside a block. In the code the whole batch is popped before it is applied; as
nothing runs in between, popping and applying each in turn comes to the same.

Wallets submit any transaction the RPC methods build, with any nonce: a method takes
the account's or the one after the last pending, and a wallet may sign and
submit much later. The orchestrator's commits and slashes and the watcher's deposits
come from an environment that knows only what those components know.

Not modelled: model registration, history, context-load and benchmark commits, which
move no tokens; MINE transactions (`MineToken`); reputation. `int(stake * 0.30)` is the
exact quotient for stakes below 2^50.

`Totals` defines the sum of a function; `TotalsTheorems` proves its laws.

### MineToken — `l2/chain/mine.py`, `mining/mine_cpu.py`, `contracts/MineTokenL1.sol`

`mine`, `work` and `disk` are the published `MineState`, the one of the block under
construction and the one in the snapshot, each with the nonces and withdrawals that go with
it; blocks are built as in `L2Ledger`, a transaction per step. A challenge is the list of
the blocks that were mixed into it, so two challenges are equal only if their histories
are; a digest is named by what is hashed, and `HashNonces` are the nonces that solve. `cpu`
is the local state of each wallet's `CpuMiner.run`: it fetches challenge and target, searches,
and submits under the head of that moment. A hash with an odd number of leading zeros cannot
be parsed in the block (`EndBlock(parses)`, `handlers.py:954`). The target is adjusted by the
code's ratio; the comment at `mine.py:144` ("easier if too slow") has it the other way round.
`l1` is the wrapped token: withdrawals are minted from the published state, `depositToL2`
locks, the emergency release unlocks.

### Rollup and Bridge — `l2/contracts/`, `rollup_poster.py`, `bridge/`

A commitment keeps its age instead of its time stamp. `ChallengerWins` deletes the
commitment and then reads its challenger, as the code does: slash and bond go to
`address(0)` (`InferenceChainRollup.sol:182`). The poster signs another text than the
contract recovers (`PosterPreimage`), so its commitments are refused and logged; roots get
in by `CommitStateRoot`, whoever holds the sequencer's key. `Bridge` adds the bridge contract,
the watcher (relay, record, with a crash or a lost answer in between), the relayer's
round, and L2 as they see it: a pool of deposits, blocks, snapshots at any block, and
restarts. The relayer wants fields L2's records do not have (`relayer.py:92`), so `Synced` is
empty. `unanswered`, `refused` and `forgotten` are histories of what went wrong with a
relay; the properties are stated up to them.

### L2Miner — `l2/miner/l2_miner.py`, context phase of `protocol.py`

One event loop per miner: its handlers do not suspend, a task suspends while the model
generates. `node` is `_active_shards`, `_pending_offers` and whether MINE mining runs; `chunk`
is the table of context pieces, kept by job as in the code. A drain task empties the queue
through the same admission as an offer (`Drained`, a recursive function over the queue). The sequencer's side is the phase before the
offers (load, answers by miner, the three ends of the wait) and what may come later:
the same offer again, or a reassigned one, which carries no role and no context.

### Overlay and Memory — `l2/chain/p2p/`, `benchmark/`, thoughts in `l2_miner.py` and `handlers.py`

A link is a bootstrap peer of a node, dialled at start and again by the discovery timer; every
dial that succeeds opens a socket, and the dialler registers the last. A receive loop takes an
envelope, marks it seen, awaits the handlers and passes it on; `delivered` counts what
handlers got. `Memory` gives the handlers: storing a thought and its embedding (two
statements), storing a rollup, running a benchmark, matching a response by its nonce.
`audience` is a history: the nodes the origin had a socket to when it sent.

### L1Clients — `l1/miner/miner.py`, `nonce.py`, `l1/sdk`

The contract is `InferenceMarket`; the miner, a client and another account call it. A sent
transaction waits in `pool` and is mined in nonce order, also after its sender stopped
waiting (`Stuck`). `proc` is how far `_do_process` of a job is; `Restart` forgets everything and
leaves the pool of the chain alone. `infer()` posts, with retries, and polls.

### Decoding and Lookahead — `l1/miner/backends/`

`Decoding` is the text `generate()` promises: the model's choice at each position, up to an
end-of-text token or the limit. `Lookahead` is one pass of the loop of the lookahead backend: a window of
guesses, the prefix that converged, the pool of continuations. The model is any function of the
last `Depth` tokens.

### JobTexts — `l2/chain/shard/modes/`, `assembler.py`, `inft_postJobChain`, `dispatch_chained_job`

The text side of the orchestrator: what `ShardProtocol` leaves open, with the offers, timers and miners
it has left out (here any shard may be answered, again or by another miner, until the job is complete). A
prompt is its length and, for a chained job, the answers put in the place of `{prev_output}`; a slice is
a pair of positions; an answer is who gave it and what kind of text it is, as the code tells empty, placeholder and
too long for the 200 characters of a preview apart; an output is a sequence of answers.

| variable | code |
|---|---|
| `chain` | `StateDB._jobs`: status, parent, what was asked, results (previews), `parent_output_hash` (as the output it is the hash of) |
| `commits` | the `SHARD_COMMIT`s that wait for a block |
| `task[j][d]` | the d-th dispatch task of job j and the prompt it resolved |
| `job` | `ShardProtocol._jobs`: slices, roles, results, `final_output` |

`PostChain` is `inft_postJobChain`, where any post may be refused; `ProduceBlock` applies posts and commits in the pool's
order, and the first commit that completes a job names the output whose hash its children record. `SplitSlices`
is the loop of `split_prompt`, `Assembled` the four `assemble` functions. A commit that equals one that waits (same
job, shard and miner) is not added again (`mempool.py:36`); miners are left out, so a shard that has a waiting commit may or may not get another. The pool's limit is
`L2Ledger`'s.

## 4. The runs

| run | asks | bounds |
|---|---|---|
| `shard_modes` | results, commits, payments and slashes of each mode, and with a second dispatch | three miners, one of four jobs posted (a race of three, a split and a pipeline of two, one of one shard), three messages in flight, two dispatches of the last |
| `shard_chain` | every posted job settles; a chained job is woken once; the refinement of `JobLifecycle` | two jobs of one shard, two miners, under fairness |
| `market_money` | books, stranded bonds, minting, punishment | two jobs, two accounts, windows of one block, cap and halving reached |
| `ledger` | inflation, replay, pending nonces, draining | two wallet transactions, commits, a slash, a deposit, restarts |
| `mine` | the schedule, one reward per puzzle, wrapped supply | two wallets, three blocks, one restart, a halving, the cap |
| `mine_supply` | the supply across both layers | the same; a violation |
| `bridge` | commitments, finality, custody, repeated and lost deposits | four blocks, two roots at a time, two deposits, one relay that goes wrong |
| `l2_miner` | capacity, pieces of context, the wait, the queue | two miners with room for two shards, two jobs of two shards, one offered twice |
| `memory` | one delivery, stores with ground, reconnection | a sequencer and two miners, three sockets a link, one break |
| `l1_clients` | miner and client act on the contract's state, slots and results come back | two jobs, three accounts, one lost receipt or restart |
| `lookahead` | the refinement of `Decoding` | all 2187 models of two words that see two tokens, texts of nine tokens, a window of four |
| `job_texts` | slices, outputs, what a chained job reads | a job of two shards in any mode or a split in three, a race after it, two dispatches, prompts of 1 and 9 characters with an overlap of 2 |

What each property says is in the comment before it. Several are conjunctions of parts that
have names and comments of their own (`MinerIsConsistent`, `BridgeIsSound`, ...).

*Why the bounds are enough.* `MaxDispatch = 2` is the least with an overwritten job
object, and one shard is enough to pay twice. `FewInFlight` (three messages) admits a stale
and a fresh answer for a shard and one for the other; `OneJobPosted` loses nothing, as
jobs without a parent share no state. Two shards are the least with a coordinator and a worker, three
miners the least with a fallback that is nobody's, and the race of three has no fallback.
In the market two jobs and two accounts
give every overlap of roles, as pools are per address; `MaxEth` admits both jobs with all
their bonds; windows of one block keep every comparison's three sides. In the ledger `FewSubmitted` admits
two wallet transactions, besides commits, a slash and a deposit: enough for both
orders of nonce and of gas, for one transaction set aside, and for one that is in the
snapshot and one that is not. A fee of 3 for two shards does not divide; `MAX_SIZE = 3`
makes the pool refuse; `MAX_TXS = 2` cuts batches; `SNAPSHOT_EVERY = 2` makes a
restart lose a block or none. `MaxAssemblies = 1` is the precondition of `NoInflation`
(below); the action that assembles again is the same action. One transfer to
oneself is allowed, as each would otherwise be followed by another with the same nonce.
In `mine` an interval of two solutions, a cap of 7 and rewards of 4 and 2 reach a halving and a cut
reward within three blocks, and a burn of 3 makes room for another. In `bridge` two commitments at a time are the least with one that is
rolled back under another; relays go wrong only while the rollup is at rest, as the two share
no state but the block number. In `l2_miner` three shards meet two places, so the queue
fills; both shards of one job fall on one miner. In `memory` a behaviour sends thoughts and
rollups or a benchmark, over one double socket or one break: the kinds of message share nothing but the wires. In `l1_clients` one
fault is enough for a late claim, a late post, and a restart at any point, but not for two in a row. In `lookahead` the window of
four and the limit of nine make a last window that is cut, and two tokens of memory make guesses go stale. In `job_texts` a prompt of 1 is shorter than the overlap and one of 9 does not divide; the
second job is followed until it is answered, as its own answers are those of a race that has no child, and the split in three is
dispatched once (`FewTexts`); long answers are cut to previews and empty ones are left out of a join.

*Fairness.* Orchestrator: weak for blocks, dispatch tasks and timers, because the event loop
runs what is ready and timers expire. For liveness also `ResponsiveMiners`: a miner
answers, and one that is offered a shard again and again is not always too late (strong); without
the latter two slow miners alternate for ever (`protocol.py:904`). Market: safety only, without fairness. Ledger: weak for the block loop, which
`Sequencer.run` repeats for ever. `PoolDrains` assumes in its statement that submissions stop: a
wallet that keeps sending at a higher price keeps others in the pool. Bridge: weak for the
watcher's poll and for blocks, both endless loops; a deposit whose transaction L2 refused or forgot is
excepted. Overlay: weak for dials that return, broken sockets that are noticed, discovery timers and handlers.
L1 clients: weak for blocks, for the miner's transactions and for its tasks, and for `resolveExpiredDispute`, which anybody
may call; none for the client, the other account or the owner, who may be absent. Lookahead and the texts of jobs: safety only.

*Preconditions of NoInflation.* The ledger pays at every commit, so it needs each job to be
assembled once (`AssembledOnce`): the orchestrator ensures it for a job dispatched once
(`PaidAtMostOnce`) and not under recovery. A transfer to oneself creates the
amount (`state.py:219`), so `NobodyPaysItself`. It is an inequality because remainders of fees,
the fees of jobs that never complete, slashed stake and unstaked stake (`state.py:251`: the unlock block
is never read) leave circulation.

`CHECK_DEADLOCK FALSE` where the system may stop: `l2_miner` and `memory` (every message was
handled), `l1_clients` (every job is settled), `lookahead` (the text ended), `job_texts` (the chain is complete).

## 5. The proofs

Proofs are in modules of their own, checked by `tlapm` with Z3, Zenon and LS4. Each
theorem holds for all values of the constants that satisfy the named assumptions of the
module it is about (`ASSUME`), which TLC evaluates in the runs. The assumptions say
that sets are finite, that the "nobody" values are not members, the ranges of the
amounts and periods, that what a miner waits for is longer than the challenge period, that a miner's assignments and contexts are for
the jobs there are, and the kinds of text a model may answer with; none speaks about behaviour.

| module | theorem | property |
|---|---|---|
| `ShardProtocolProofs` | `TypeCorrect` | `TypeOK` |
| | `ResultsAreTheAssignees` | `ResultFromAssignee` |
| | `CommitsAreDelivered` | `CommitsAreOfAssembledJobs` |
| | `PaidAtMostOnce` | `PaidOnce` |
| | `AssembledStaysFinal` | `AssembledIsFinal` (action property) |
| | `TimeoutsSlashTheAssignee` | `SlashesTheAssignee` (action property) |
| | `PaidPerAssemblyHolds` | `PaidPerAssembly` |
| | `CommitsFitModes` | `CommitsFitTheMode` |
| | `OrchestratorImplementsLifecycle` | `ImplementsLifecycle` (refinement) |
| `MarketProofs` | `MarketTypeCorrect` | `TypeOK` |
| | `BooksCovered` | `Solvent` |
| | `BondsHaveRoles` | `NoStrandedBond` |
| | `SupplyWithinCap` | `MintedOnceWithinCap` |
| | `BondsLostForCause` | `PunishedForCause` (action property) |
| | `MinerIsHonest` | `MinerActsOnChain` |
| | `ClientIsServed` | `InferIsHonest` |
| | `ClientsImplementMarket` | `Spec` of `InferenceMarket` (refinement) |
| | `ClientsInvariant` | the invariant of both |
| `L2LedgerProofs` | `LedgerTypeCorrect` | `TypeOK` |
| | `NoReplays` | `OncePerNonce` |
| | `NoStaleNonces` | `PendingNoncesAreReal` |
| | `SupplyCovered` | `NoInflation` |
| `MineTokenProofs` | `PuzzlesPayOnce` | `OneRewardPerPuzzle` (action property) |
| | `WrappedIsBacked` | `WrappedWasBurned` |
| | `SupplyFollowsSchedule` | `SupplyIsScheduled` |
| `BridgeProofs` | `CommitmentsAreSound` | `RollupIsSound` |
| | `BooksAreSound` | `BridgeIsSound` |
| | `CreditsHaveRelays` | `CreditsExplained` |
| | `FinalityIsPermanent` | `FinalizedIsPermanent` (action property) |
| `NodeProofs` | `MinersConsistent` | `MinerIsConsistent` |
| | `ConfirmedPiecesUsed` | `ConfirmedPieceIsUsed` |
| | `WaitIsTruthful` | `WaitIsHonest` |
| | `QueuesDrained` | `NoIdleQueue` |
| | `MinerInvariant` | the invariant the four rest on |
| | `GossipIsHeardOnce` | `HeardOnce` |
| | `StoresAreGrounded` | `MemoryIsGrounded` |
| | `MemoryInvariant` | the invariant the two rest on |
| `TextProofs` | `TextIsGreedy` | `EqualsGreedy` |
| | `LookaheadImplementsGenerate` | `ImplementsGenerate` (refinement) |
| | `SplitsAreSound` | `SplitIsSound` |
| | `OutputsAreSound` | `OutputIsSound` |
| | `ChildrenReadTheRecord` | `ChildReadsWhatWasRecorded` |

**Orchestrator.** `IInv` = `TypeOK`, `ResultFromAssignee`, `CommitsAreOfAssembledJobs`
and five strengthenings. `TaskInv`: a task that has not registered owns no timers and
is not the current one. `TimerInv`, `OfferedInv`: a live timer accuses a miner, an
offered shard is assigned. `AssigneeInv`: in a job dispatched once the miner a timer
accuses is the shard's assignee, including the moment between the offer and the start of the
timer, when the task waits in a broadcast. `PaidInv`: what is
paid is assembled and no longer in the pool. The last two need `OnceDispatched`: a
second dispatch breaks both. The step lemmas go action by action; those of
a result and of a time-out use a common lemma for "one job object changes". The
last three theorems rest on `IInv`, on `BlockIsBlock` and on the observation that every other step either assembles
one job or is `Quiet` (pool, job table and assembled objects stay). `PaidForInv` counts, per shard, the payments and
the commits in the pool against the dispatches that assembled it. `ModeInv` says what
the mode makes of a job: a race keeps no result but the winner's, and the commits of a pipeline, pending or
applied, come with the coordinator's. `LifeInv` ties a task that has started to a posted job, so that
each step maps to one step of `JobLifecycle` or to a stutter.

**Market.** `IInv` = `TypeOK`, `RolesOK`, `Solvent`, `NoStrandedBond`,
`MintedOnceWithinCap`. `Solvent` compares ETH with a sum over jobs and a sum over addresses; without
`RolesOK` (a job in progress has its miner, a disputed one its challenger, and a
challenger is never seen earlier) the payments of a dispute could not be tied to the pools they empty.
`PunishedForCause` follows from the same invariant, one action at a time: which pools it lowers, and the cause it has.

**L1 clients.** Every step of `L1Clients` is a step of the market or leaves its variables alone, whatever is in the pools
(`ClientsImplementMarket`), so the market's invariant comes with it. `OwnInv` adds what ties a task to the job it works on: a
task past its claim has a job whose miner is this one, or one that was reclaimed since; the job of a
task in the challenge wait was submitted and is not open again; there are at most as many jobs as `infer()` calls that are past
their post, unless a post came late. `ChainStep` is what the rest of the market may do to a job under the miner's feet; it is proved once for every
market action, and the clients' conjuncts are proved against it.

**Ledger.** `L2LedgerProofs` has one lemma per transaction kind: the type of the new
state and how much it adds to balances, stakes, due shares, withdrawals and supply.
`BecomesFields`, `BecomesUsedOnce` and `BecomesBacked` put them together: a valid transaction keeps the
type, uses the next nonce and makes no tokens; the last needs that a job is posted and
a shard committed for the first time (`FirstOfItsKind`). `L2LedgerProofs` supplies
that from the mempool. `BaseInv`: waiting transactions are well formed, a block starts from the
state, nothing is both in the pool and set aside. `JobsInv`: a waiting `JOB_POST` is for an
unknown job that was never assembled; a waiting commit is for a shard that exists and, if the
job was assembled once, is unpaid; no two waiting transactions post one job or, in a job assembled
once, commit one shard; the snapshot has no jobs. The
same invariant is needed for `state` and for `work`, because a refused block
returns to the former. `StatesStep` says that each of the three states is, after a step, one
that was there before, a snapshot, or the result of one valid transaction: the two
theorems about states are short consequences.

**MINE.** `ChainInv` says what of a challenge survives: one that a wallet works on, or that a
waiting solution answers, was published, so it is no longer than the present one or was mixed from no block of
the present chain (a refused block or a restart dropped it); and a block that minted is
part of every later challenge. A second reward for the same challenge would need it to be
present again. `L1Inv` keeps the wrapped tokens within the withdrawals. `Books` is the
invariant of one state of the token: balances sum to what is minted, what is minted is within the cap, and what is
minted or burned is within the sum of the halvings so far. `SupplyInv` keeps it for the published state,
the one under construction and the snapshot. The reward is `REWARD \div 2^k`; no backend knows that `2^k` is a positive
number, so `PowerOfTwo` derives it from the cardinality of the subsets of `1 .. k`.

**Bridge.** `IInv` adds to the typing of both contracts: a final commitment is known and unchallenged, every bond is
covered by the contract's ETH (`MoneyOK`), known commitments are multiples of the interval apart (`ChainInv`: the
distance is a sum of intervals, because a commitment names the one before it), the credits of a deposit, those still in the pool
included, are at most its relays that went unanswered plus the one that was recorded, in the state and in the snapshot
(`CreditsInv`), and custody is the sum of deposits not released (`BooksInv`).

**L2 miner.** `MinerInv` has four parts. `NodeInv`: a node is within its limits, mines exactly when nothing runs, and has a queue
only when it is full or its drain task is on its way. A drain applies the admission to each offer of the queue in turn; its lemma is an
induction over the position in the queue, with "the queue that is left is non-empty only if the node is full" as what is kept
(`Tight`). `PieceInv`: a confirmed piece stays in the table until the first run of its job at that miner, which takes it; the
pieces that are sent and kept are of jobs that have a context. `LoadInv`: an answer on the wire or counted comes from a miner that holds
a piece, and it holds pieces only of shards it was assigned; together with `SpecShape` (a reassignment keeps
the set of shards) a commitment that counts the answers against the shards is justified.

**Overlay and memory.** `NetInv`: `Counted` says that handlers got exactly what their node has seen, once; `Registered` ties
the dialler's table to the sockets; `Reached` says that while no socket broke an envelope is seen by, or on its way to, every node its
origin had a socket to; `Genuine`, that what travels was broadcast. `MemInv` on top of it: a handler that runs is of an
envelope its node subscribes to; a row without its vector has a handler between the two statements (`BeingStored`); a rollup is with the
sequencer before anybody else has it (`RollupStored`); a benchmark's response is of a run that was asked of that miner
(`Measured`, `ScoreMeasured`).

**Lookahead.** The invariant says that what was emitted is the greedy text and that the first guess of the window is
the token that follows it; the guesses behind it may be anything. A step emits the prefix of the window that
converged: each token of it was computed from tokens already known to be right. So a pass maps to one step of
`Decoding`, whatever the model, the window and the pool are.

**Job texts.** `SplitIsSound` is about the loop that cuts a prompt: every pass starts
within the last slice and, because a chunk is at least twice the overlap, not before its start; the first starts at 0 and the last takes what is left. `TextsInv` keeps, per job, `IsJobOf`: the slices are those of its mode, the results have
one answer a shard, of a kind that shard can give (`Plausible`), a race has one answer or none, and a final output is the
assembly of the results. What the four `assemble` functions make of any such results (`Honest`: increasing shards, only answers that say something,
for a split all of them) is proved about `Sorted`, a recursive function over the shard numbers. For the chain, `StartsFresh`: nobody
has touched a job that is not pending; `PostedTogether`: no block comes between the posts of a chain; `OneOutput`: a job dispatched once has one output, the one
all its commits name; `ChildrenRead`: so what a child reads and what it records are that output.

`TotalsTheorems` has the laws of `Total` (type, update, gain, two emptied, zero, extended, of one), from the library's
facts about cardinality. `Total(f)` is the number of pairs of an argument a and a number in `1 .. f[a]`, which needs no
induction.

*Induction.* The library's induction theorems take the induction hypothesis as an operator, which no installed prover can instantiate. Where a proof
needs induction over numbers (the queue of a miner, the slices of a prompt, a sort by shard, a batch of commits) it is done with sets:
`SetInduction` says that a set of naturals that has 0 and with each n also n + 1 has them all, and follows from the existence of a least
element outside it. `RecursionExists` then shows that the function a recursive definition describes exists, so that the definition's `CHOOSE` satisfies its equations.

### Only model-checked

Liveness (`RootJobsSettle`, `ChainedJobsSettle`, `PoolDrains`, `DepositArrives`, `Reconnects`, `SubmittedIsSettled`,
`SlotsReturn`): fairness and `ENABLED` are out of the prover's reach. Every safety invariant, action property and refinement that a
run checks is also a theorem. What the lookahead pool holds is a fold that no theorem speaks about; the proofs show that the text does not depend
on it.

## 6. Findings

One violation is a run. `mine_supply`: `MineTokenL1.sol:27` says "Total supply across L1 + L2 is
always <= L2 MAX_SUPPLY"; a withdrawal burns on L2, `mine_bridge_burn` lowers `total_minted`, from which the cap is
computed, and what was burned is mined again while the wrapped tokens exist.

Other places where code and comment part, seen while modelling. They are modelled as the code has them, and
no run is spent on them:

| code | says | does |
|---|---|---|
| `l2/chain/shard/protocol.py:743` | cancels pending timeouts of a complete job | the offer loop may start one afterwards, which slashes |
| `l2/chain/shard/protocol.py:849` | the job eventually fails | two slow miners alternate for ever (904) |
| `l2/chain/shard/protocol.py:1174` | recovers jobs that are not known | also jobs whose first dispatch has not registered them: both are assembled and paid (`state.py:314`) |
| `l2/chain/types.py:59` | a complete job's final result is on the chain | a speculative job is cut to two shards (`protocol.py:357`) and with more in its post stays pending |
| `l2/chain/state.py:219` | debits the sender | a transfer to oneself is a credit |
| `l2/chain/mine.py:146` | easier if too slow (144) | the ratio is inverted |
| `l2/chain/rollup_poster.py:103` | signs for the contract | signs the decimal text, which the contract never recovers |
| `l2/contracts/InferenceChainRollup.sol:182` | pays the challenger | pays `address(0)`: the commitment was deleted first |
| `l2/bridge/relayer.py:92` | finalises withdrawals | reads fields that L2's records do not have |
| `l2/chain/shard/modes/context_split.py:59` | pads with empty strings when the prompt ran out | it never runs out: spare shards get the end of the prompt again (54) |
| `l2/chain/shard/modes/pipeline_parallel.py:36` | worker placeholders are ignored | after a second dispatch of the parent a child gets the previews of all its shards, placeholders among them (`protocol.py:1118`) |
| `l2/chain/rpc/handlers.py:349` | each step's output goes into the next step's prompt | the step after a refused one is posted as a root, with `{prev_output}` in its prompt (459) |
| `l2/miner/l2_miner.py:270` | queued offers are retried when shards finish | not after a shard that failed, until another succeeds |
| `l2/miner/l2_miner.py:392` | synchronises thoughts with its peers | the peers it looks at are never there |
| `l2/chain/p2p/thought_protocol.py:192` | every index matches the producer's | a row of one miner may get the vector of another |
| `l2/chain/rpc/handlers.py:1398` | one rollup per model | sequencer and miners may file it under different ids (1409) |
| `l2/chain/p2p/node.py:224` | floods | to dialled peers only: in a star miners do not hear each other |
| `l1/contracts/InferenceToken.sol:506` | the challenger gets both bonds | only its own when another job of the miner emptied its pool |
| `l1/sdk/inference_sdk/client.py:246` | retries a failed post | a post whose receipt was late is paid twice |
| `l1/api/server.py:78` | a client per key | per first ten characters of the key |

## 7. Not modelled

* `pg_inft` and `pg_nest`: database extensions whose concurrency is the database's.
* The model registry: a computation over weight files.
* API servers, SDK encryption, front ends: no protocol state beyond what `L1Clients` has.
* Inference backends besides lookahead decoding: model loading, llama.cpp processes, sampling. The
  backend has no lock around its context; who calls it when is the caller's affair, and the L1 miner
  runs one generation per job task. The hand-over of a KV state is called by nobody.
* The miner registry and reputation of the L1 contract, heartbeats, metrics and statistics.
* The limit of the seen cache, envelope signatures, the thought synchronisation (it never finds a peer).
* Recipients that refuse ETH, snapshot files written halfway.
* Self-reported benchmark scores, ranking and extraction of thoughts.
* The composition of `ShardProtocol` with `L2Ledger`: both are at the limit of what TLC explores alone.
