------------------------------ MODULE L2Ledger ------------------------------
(***************************************************************************)
(* The mempool (chain/mempool.py), the block builder                       *)
(* (chain/block_builder.py) and the sequencer (chain/sequencer.py) with    *)
(* its snapshots and restarts, over the states of StateDB, and the RPC     *)
(* methods that submit transactions.                                       *)
(*                                                                         *)
(* A block is built without a suspension of the event loop; a step of the  *)
(* module is one round of the builder's loop: a transaction is popped, and *)
(* set aside, dropped or applied.  A transaction's hash covers its         *)
(* content, so the heap and the set of seen hashes are one set, pool.      *)
(* The orchestrator (ShardProtocol) and the bridge watcher are the         *)
(* environment that injects transactions without a sender.                 *)
(***************************************************************************)
EXTENDS StateDB

CONSTANTS
    Wallets,        \* accounts whose owners submit transactions
    Miners,         \* accounts that take shards
    Amounts,        \* amounts that are transferred, staked, unstaked, withdrawn
    Fees,           \* values of fee_inft
    ShardCounts,    \* values of n_shards
    GasPrices,
    MAX_SIZE,       \* Mempool max_size
    MAX_TXS,        \* max_txs_per_block
    SNAPSHOT_EVERY, \* blocks between snapshots
    MaxNonce,       \* BOUND: nonces of submitted transactions
    MaxAssemblies,  \* BOUND: assemblies of one job
    MaxSlashes,     \* BOUND: time-outs of shards of one job
    MaxRelays       \* BOUND: relays of one deposit

ASSUME LedgerInputs ==
    /\ Wallets \subseteq Accounts /\ Miners \subseteq Accounts
    /\ Amounts \subseteq Nat /\ Fees \subseteq Nat /\ GasPrices \subseteq Nat
    /\ ShardCounts \subseteq Nat \ {0}
ASSUME LedgerLimits ==
    /\ {MAX_SIZE, MAX_TXS, SNAPSHOT_EVERY} \subseteq Nat \ {0}
    /\ {MaxNonce, MaxAssemblies, MaxSlashes, MaxRelays} \subseteq Nat

VARIABLES
    state,          \* Sequencer._state
    work,           \* new_state of build_next; state while no block is built
    disk,           \* what the snapshot file restores (genesis while there is none)
    height,         \* block number, modulo SNAPSHOT_EVERY
    pool,           \* Mempool._heap and _seen
    pendingNonces,  \* Mempool._pending_nonces
    block,          \* the locals of build_next and pop_batch
    assembled, slashed,  \* assemblies and time-outs of each job, restarts included
    relays          \* how often the watcher sent each deposit

sequencer   == <<state, disk, height>>
mempool     == <<pool, pendingNonces>>
environment == <<assembled, slashed, relays>>
vars == <<sequencer, work, mempool, block, environment>>

\* None: no nonce of the sender is in the batch yet.
None == -1
IdleBlock == [building |-> FALSE, count |-> 0, last |-> [a \in Accounts |-> None], aside |-> {}]

Init ==
    /\ state = Genesis
    /\ work = Genesis
    /\ disk = Genesis
    /\ height = 0
    /\ pool = {}
    /\ pendingNonces = [a \in Accounts |-> {}]
    /\ block = IdleBlock
    /\ assembled = [j \in Jobs |-> 0]
    /\ slashed = [j \in Jobs |-> 0]
    /\ relays = [d \in Deposits |-> 0]
-----------------------------------------------------------------------------
(* Submissions.  Nothing is submitted while a block is built.              *)

UserBodies ==
    {Body("TRANSFER", b, x, NoId, 0) : b \in Accounts, x \in Amounts}
      \cup {Body(k, NoOne, x, NoId, 0) : k \in {"STAKE", "UNSTAKE", "BRIDGE_WITHDRAW"}, x \in Amounts}
      \cup {Body("JOB_POST", NoOne, x, j, n) : x \in Fees, j \in Jobs, n \in ShardCounts}

\* A job id is a fresh uuid.
FreshId(j) == ~ state.jobs[j].known /\ assembled[j] = 0 /\ slashed[j] = 0
                 /\ \A tx \in pool : tx.body.id # j

\* BOUND: one transfer to oneself (it bumps no nonce and could be repeated).
FirstToOneself(a, body) ==
    body.peer = a => \A tx \in state.accepted \cup pool : tx.body.peer # tx.sender

(* submit_transaction.  The RPC methods use the account's nonce or the one *)
(* after the wallet's last pending one, a wallet may have signed long ago, *)
(* and nobody looks at the nonce here.  A duplicate or a full pool is an   *)
(* error to the caller and changes nothing.                                *)
Submit(a, seq, gas, body) ==
    /\ ~ block.building
    /\ FirstToOneself(a, body)                            \* BOUND
    /\ body.kind = "JOB_POST" => FreshId(body.id)
    /\ UserTx(a, seq, gas, body) \notin pool
    /\ Cardinality(pool) < MAX_SIZE
    /\ pool' = pool \cup {UserTx(a, seq, gas, body)}
    /\ pendingNonces' = [pendingNonces EXCEPT ![a] = @ \cup {seq}]
    /\ UNCHANGED <<sequencer, work, block, environment>>

\* mempool.add of transactions nobody waits for: a full pool drops the rest.
Added(T) ==
    \E F \in SUBSET (T \ pool) :
        /\ pool' = pool \cup F
        /\ F = T \ pool \/ Cardinality(pool') >= MAX_SIZE
        /\ F = {} \/ Cardinality(pool') <= MAX_SIZE

(* ShardProtocol._assemble: commits for the shards S, by the miners f.     *)
(* ShardProtocol assembles a job once, and again if it is dispatched again.*)
Assemble(j, S, f) ==
    /\ ~ block.building
    /\ state.jobs[j].known
    /\ assembled[j] < MaxAssemblies                       \* BOUND
    /\ Added({CommitTx(j, s, f[s]) : s \in S})
    /\ assembled' = [assembled EXCEPT ![j] = @ + 1]
    /\ UNCHANGED <<sequencer, work, pendingNonces, block, slashed, relays>>

(* ShardProtocol._result_timeout.                                          *)
SlashMiner(j, m) ==
    /\ ~ block.building
    /\ state.jobs[j].known
    /\ slashed[j] < MaxSlashes                            \* BOUND
    /\ Added({SlashTx(j, m)})
    /\ slashed' = [slashed EXCEPT ![j] = @ + 1]
    /\ UNCHANGED <<sequencer, work, pendingNonces, block, assembled, relays>>

(* BridgeWatcher._relay_to_l2: sent again when the answer of the RPC call  *)
(* or the record of it was lost.                                           *)
RelayDeposit(d) ==
    /\ ~ block.building
    /\ relays[d] < MaxRelays                              \* BOUND
    /\ Added({DepositTx(d)})
    /\ relays' = [relays EXCEPT ![d] = @ + 1]
    /\ UNCHANGED <<sequencer, work, pendingNonces, block, assembled, slashed>>
-----------------------------------------------------------------------------
(* Mempool.pop_batch: highest gas price first, lowest nonce first; ties by *)
(* hash, which may order them either way.                                  *)
Top(tx) == \A u \in pool : u.gas < tx.gas \/ (u.gas = tx.gas /\ u.nonce >= tx.nonce)

\* Mutant of OutOfOrder: compared with the account instead of the batch.
OutOfOrder_Account(tx) == tx.sender # NoOne /\ tx.nonce # work.nonce[tx.sender]

\* Only the order within the batch is looked at.
OutOfOrder(tx) ==
    /\ tx.sender # NoOne
    /\ block.last[tx.sender] # None
    /\ tx.nonce # block.last[tx.sender] + 1

Pops(tx) == block.building /\ block.count < MAX_TXS /\ tx \in pool /\ Top(tx)

\* Mutant of NoncesWithout: the nonce of a popped transaction stays pending.
NoncesWithout_Kept(tx) == pendingNonces

NoncesWithout(tx) ==
    IF tx.sender = NoOne THEN pendingNonces
    ELSE [pendingNonces EXCEPT ![tx.sender] = @ \ {tx.nonce}]

LastWith(tx) ==
    IF tx.sender = NoOne THEN block.last ELSE [block.last EXCEPT ![tx.sender] = tx.nonce]

\* tx leaves the pool for the batch, which build_next applies in this order.
InBatch(tx) ==
    /\ Pops(tx) /\ ~ OutOfOrder(tx)
    /\ pool' = pool \ {tx}
    /\ pendingNonces' = NoncesWithout(tx)
    /\ block' = [block EXCEPT !.count = @ + 1, !.last = LastWith(tx)]
    /\ UNCHANGED <<sequencer, environment>>

SetAside(tx) ==
    /\ Pops(tx) /\ OutOfOrder(tx)
    /\ pool' = pool \ {tx}
    /\ block' = [block EXCEPT !.aside = @ \cup {tx}]
    /\ UNCHANGED <<sequencer, work, pendingNonces, environment>>

RejectTx(tx) == InBatch(tx) /\ ~ Valid(work, tx) /\ UNCHANGED work

Accepts(tx, kind) == tx.body.kind = kind /\ InBatch(tx) /\ Valid(work, tx)

SelfTransfer(tx) ==
    Accepts(tx, "TRANSFER") /\ tx.body.peer = tx.sender /\ work' = SelfTransferred(work, tx)
Transfer(tx) ==
    Accepts(tx, "TRANSFER") /\ tx.body.peer # tx.sender /\ work' = Transferred(work, tx)
Stake(tx)          == Accepts(tx, "STAKE") /\ work' = Staked(work, tx)
Unstake(tx)        == Accepts(tx, "UNSTAKE") /\ work' = Unstaked(work, tx)
JobPost(tx)        == Accepts(tx, "JOB_POST") /\ work' = JobPosted(work, tx)
ShardCommit(tx)    == Accepts(tx, "SHARD_COMMIT") /\ work' = ShardCommitted(work, tx)
BridgeDeposit(tx)  == Accepts(tx, "BRIDGE_DEPOSIT") /\ work' = DepositCredited(work, tx)
BridgeWithdraw(tx) == Accepts(tx, "BRIDGE_WITHDRAW") /\ work' = Withdrawn(work, tx)
Slash(tx)          == Accepts(tx, "SLASH_HARD") /\ work' = Slashed(work, tx)
-----------------------------------------------------------------------------
(* Sequencer._produce_block.                                               *)
StartBlock ==
    /\ ~ block.building
    /\ block' = [IdleBlock EXCEPT !.building = TRUE]
    /\ UNCHANGED <<sequencer, work, mempool, environment>>

\* The batch is full or the pool is empty: what was set aside goes back.
Closes ==
    /\ block.building
    /\ pool = {} \/ block.count >= MAX_TXS
    /\ pool' = pool \cup block.aside
    /\ block' = IdleBlock
    /\ UNCHANGED <<pendingNonces, environment>>

\* Every SNAPSHOT_EVERY blocks the state is written.
EndBlock ==
    /\ Closes
    /\ state' = work
    /\ height' = (height + 1) % SNAPSHOT_EVERY
    /\ disk' = IF height' = 0 THEN Persisted(work) ELSE disk
    /\ UNCHANGED work

\* validate_block refuses the block, for a clock that was set back: its
\* transactions are in no pool and in no block.
DiscardBlock ==
    /\ Closes
    /\ work' = state
    /\ UNCHANGED sequencer

(* The process stops at any point and starts again from the snapshot, with *)
(* the genesis block as head and an empty pool.                            *)
Restart ==
    /\ state' = disk
    /\ work' = disk
    /\ height' = 0
    /\ pool' = {}
    /\ pendingNonces' = [a \in Accounts |-> {}]
    /\ block' = IdleBlock
    /\ UNCHANGED <<disk, environment>>
-----------------------------------------------------------------------------
Apply(tx) == \/ SelfTransfer(tx) \/ Transfer(tx) \/ Stake(tx) \/ Unstake(tx) \/ JobPost(tx)
             \/ ShardCommit(tx) \/ BridgeDeposit(tx) \/ BridgeWithdraw(tx) \/ Slash(tx)

BlockStep == \/ StartBlock \/ EndBlock \/ DiscardBlock
             \/ \E tx \in pool : SetAside(tx) \/ RejectTx(tx) \/ Apply(tx)

Clients == \E a \in Wallets, seq \in 0 .. MaxNonce, gas \in GasPrices, body \in UserBodies :
              Submit(a, seq, gas, body)

Injections ==
    \/ \E j \in Jobs : \E S \in SUBSET (0 .. (state.jobs[j].n - 1)) \ {{}} :
          \E f \in [S -> Miners] : Assemble(j, S, f)
    \/ \E j \in Jobs, m \in Miners : SlashMiner(j, m)
    \/ \E d \in Deposits : RelayDeposit(d)

Next == Clients \/ Injections \/ BlockStep \/ Restart

Spec == Init /\ [][Next]_vars

\* Sequencer.run keeps producing blocks.
FairSpec == Spec /\ WF_vars(BlockStep)
-----------------------------------------------------------------------------
BlockRec == [building : BOOLEAN, count : Nat, last : [Accounts -> Nat \cup {None}], aside : SUBSET Tx]

(* Every variable has its type.                                            *)
TypeOK ==
    /\ state \in StateRec /\ work \in StateRec /\ disk \in StateRec
    /\ height \in 0 .. (SNAPSHOT_EVERY - 1)
    /\ pool \subseteq Tx
    /\ pendingNonces \in [Accounts -> SUBSET Nat]
    /\ block \in BlockRec
    /\ assembled \in [Jobs -> Nat] /\ slashed \in [Jobs -> Nat] /\ relays \in [Deposits -> Nat]

\* A restart may continue from any of them.
States == {state, work, disk}

AssembledOnce == \A j \in Jobs : assembled[j] <= 1

(* No inflation: balances, stakes, fee shares still to be paid and         *)
(* withdrawals are covered by the genesis allocation and what the bridge   *)
(* credited, across blocks, slashes and restarts - provided that every job *)
(* is assembled once, which is ShardProtocol's to ensure, and that no      *)
(* transfer to oneself is in the chain.                                    *)
NoInflation ==
    AssembledOnce => \A s \in States : NobodyPaysItself(s) => InUse(s) <= Supply(s)

(* Replay protection: the chain a state comes from holds, of every wallet, *)
(* exactly one transaction for each nonce below the account's, whatever    *)
(* order the pool hands them out in and whatever a restart rolled back.    *)
OncePerNonce == \A s \in States : NobodyPaysItself(s) => ~ Replayed(s)

(* A pending nonce belongs to a transaction that is pending: a stale one   *)
(* would make the RPC methods hand out nonces that never connect.          *)
PendingNoncesAreReal ==
    \A a \in Accounts : \A k \in pendingNonces[a] :
        \E tx \in pool \cup block.aside : tx.sender = a /\ tx.nonce = k

(* When nothing more is submitted everything that was is applied or        *)
(* dropped: setting aside never keeps a transaction in the pool for ever.  *)
Drained == pool = {} /\ block.aside = {}
NothingAdded == [][pool' \subseteq pool \cup block.aside]_vars
PoolDrains == <>NothingAdded => (~ Drained ~> Drained)
=============================================================================
