------------------------------ MODULE MineToken ------------------------------
(***************************************************************************)
(* The MINE token: the proof-of-work state (chain/mine.py), its two kinds  *)
(* of transaction (chain/state.py), the RPC methods that submit them       *)
(* (chain/rpc/handlers.py), the CPU miner's loop (mining/mine_cpu.py) and  *)
(* the wrapped token on L1 (contracts/MineTokenL1.sol).                    *)
(*                                                                         *)
(* A challenge is the list of the blocks whose hashes were mixed into it;  *)
(* a digest is named by what is hashed.  Blocks are built as in L2Ledger:  *)
(* a step is one transaction that is set aside, refused or applied.        *)
(***************************************************************************)
EXTENDS Totals, Sequences

CONSTANTS
    Miners, Vault,              \* wallets; MineTokenL1 itself
    HashNonces,                 \* PoW nonces that solve a puzzle
    Amounts,
    MAX_SUPPLY, INITIAL_REWARD, HALVING_INTERVAL,
    DIFFICULTY_INTERVAL, TARGET_BLOCK_TIME, MINIMUM_TARGET, MAXIMUM_TARGET,
    SNAPSHOT_EVERY,
    MaxBlock, MaxRestarts       \* BOUNDS: number of the head block, restarts

ASSUME MineSets == IsFiniteSet(Miners) /\ Vault \notin Miners
ASSUME MineAmounts ==
    /\ Amounts \subseteq Nat
    /\ {MAX_SUPPLY, INITIAL_REWARD} \subseteq Nat
    /\ {HALVING_INTERVAL, DIFFICULTY_INTERVAL, TARGET_BLOCK_TIME, SNAPSHOT_EVERY,
        MINIMUM_TARGET, MAXIMUM_TARGET} \subseteq Nat \ {0}
    /\ MINIMUM_TARGET <= MAXIMUM_TARGET
    /\ {MaxBlock, MaxRestarts} \subseteq Nat

VARIABLES
    mine,       \* MineState of the published state, with nonces and withdrawals
    work,       \* the same in the block under construction
    disk,       \* the same in the snapshot file
    head,       \* the head block
    pool, batch,    \* mempool; the locals of pop_batch
    cpu,        \* CpuMiner.run of each wallet
    l1          \* MineTokenL1

vars == <<mine, work, disk, head, pool, batch, cpu, l1>>
-----------------------------------------------------------------------------
\* A block; parses: its hash without leading zeros has an even number of digits.
Block == [number : Nat, chain : Nat, parses : BOOLEAN]
Genesis(c) == [number |-> 0, chain |-> c, parses |-> TRUE]

\* What is hashed; withdrawals are named by the hash of their transaction.
Digest == [challenge : Seq(Block), miner : Miners, nonce : HashNonces]
Withdrawal == [sender : Miners, nonce : Nat, amount : Nat]

MineState ==
    [minted : Nat, solutions : Nat, target : Nat, challenge : Seq(Block),
     lastReward : Nat, periodBlock : Nat, periodSolutions : Nat,
     balance : [Miners -> Nat], used : SUBSET Digest,
     nonce : [Miners -> Nat], withdrawals : SUBSET Withdrawal]

EmptyMine ==
    [minted |-> 0, solutions |-> 0, target |-> MAXIMUM_TARGET, challenge |-> <<>>,
     lastReward |-> 0, periodBlock |-> 0, periodSolutions |-> 0,
     balance |-> [m \in Miners |-> 0], used |-> {},
     nonce |-> [m \in Miners |-> 0], withdrawals |-> {}]

SubmitTx == [kind : {"MINE_SUBMIT"}, sender : Miners, nonce : Nat,
             digest : Digest, target : Nat, block : Block]
BridgeTx == [kind : {"MINE_BRIDGE"}, sender : Miners, nonce : Nat, amount : Nat]

IdleBatch == [open |-> FALSE, last |-> [m \in Miners |-> -1], aside |-> {}]

\* What a CpuMiner is working on.
Idle    == [at |-> "idle", challenge |-> <<>>, target |-> 0]
Stopped == [at |-> "stopped", challenge |-> <<>>, target |-> 0]

Init ==
    /\ mine = EmptyMine
    /\ work = EmptyMine
    /\ disk = EmptyMine
    /\ head = Genesis(0)
    /\ pool = {}
    /\ batch = IdleBatch
    /\ cpu = [m \in Miners |-> Idle]
    /\ l1 = [balance |-> [a \in Miners \cup {Vault} |-> 0],
             bridgedIn |-> 0, locked |-> 0, processed |-> {}]
-----------------------------------------------------------------------------
(* MineState.                                                              *)

Least(a, b)   == IF a <= b THEN a ELSE b
Greater(a, b) == IF a >= b THEN a ELSE b

\* Mutant of Emission: the solution that completes an interval is counted late.
Emission_Late(solutions) == INITIAL_REWARD \div 2 ^ ((IF solutions = 0 THEN 0 ELSE solutions - 1) \div HALVING_INTERVAL)

\* The reward of the next solution before the cap: halved every interval.
Emission(solutions) ==
    IF solutions \div HALVING_INTERVAL >= 40 THEN 0
    ELSE INITIAL_REWARD \div 2 ^ (solutions \div HALVING_INTERVAL)

Reward(s) == Least(Emission(s.solutions), MAX_SUPPLY - s.minted)

\* verify_solution: the digest is of this challenge, low enough, and new.
Verified(s, tx) ==
    /\ tx.digest.challenge = s.challenge
    /\ tx.target <= s.target
    /\ tx.digest \notin s.used

MayReward(s, tx) ==
    /\ s.solutions > 0 => tx.block.number # s.lastReward
    /\ Verified(s, tx)
    /\ Reward(s) > 0

\* Mutant of Renewed: the challenge stays (the exploit of mine.py:7).
Renewed_Never(s, block) == s.challenge

Renewed(s, block) == Append(s.challenge, block)

(* _adjust_difficulty, with exact fractions: the target is multiplied by   *)
(* TARGET_BLOCK_TIME * solutions / blocks, at least 1/4 and at most 4.     *)
Elapsed(s, number) == IF number = s.periodBlock THEN 1 ELSE number - s.periodBlock
InPeriod(s) == IF s.solutions = s.periodSolutions THEN 1 ELSE s.solutions - s.periodSolutions

Scaled(target, want, got) ==
    IF got < 0 \/ 4 * want < got THEN target \div 4
    ELSE IF want > 4 * got THEN 4 * target
    ELSE (target * want) \div got

Adjusted(s, number) ==
    IF s.solutions % DIFFICULTY_INTERVAL # 0 THEN s
    ELSE [s EXCEPT
            !.target = Greater(MINIMUM_TARGET, Least(MAXIMUM_TARGET,
                          Scaled(s.target, TARGET_BLOCK_TIME * InPeriod(s), Elapsed(s, number)))),
            !.periodBlock = number,
            !.periodSolutions = s.solutions]

Rewarded(s, tx) ==
    [s EXCEPT !.used = s.used \cup {tx.digest},
              !.lastReward = tx.block.number,
              !.minted = s.minted + Reward(s),
              !.solutions = s.solutions + 1,
              !.balance = WithBalance(s.balance, tx.sender, s.balance[tx.sender] + Reward(s)),
              !.challenge = Renewed(s, tx.block),
              !.nonce = WithBalance(s.nonce, tx.sender, s.nonce[tx.sender] + 1)]

Burned(s, tx) ==
    [s EXCEPT !.balance = WithBalance(s.balance, tx.sender, s.balance[tx.sender] - tx.amount),
              !.minted = s.minted - tx.amount,
              !.nonce = WithBalance(s.nonce, tx.sender, s.nonce[tx.sender] + 1),
              !.withdrawals = s.withdrawals \cup
                  {[sender |-> tx.sender, nonce |-> tx.nonce, amount |-> tx.amount]}]

\* What _apply raises no error for.
Valid(s, tx) ==
    /\ tx.nonce = s.nonce[tx.sender]
    /\ IF tx.kind = "MINE_SUBMIT" THEN tx.block.parses /\ MayReward(s, tx)
       ELSE tx.amount > 0 /\ s.balance[tx.sender] >= tx.amount

Applied(s, tx) == IF tx.kind = "MINE_SUBMIT" THEN Adjusted(Rewarded(s, tx), tx.block.number)
                  ELSE Burned(s, tx)
-----------------------------------------------------------------------------
(* The CPU miner and the RPC methods, outside of block building.           *)

\* mine_getInfo.
Puzzle == [at |-> "mining", challenge |-> mine.challenge, target |-> mine.target]

FetchInfo(m) ==
    /\ ~ batch.open
    /\ cpu[m].at = "idle"
    /\ cpu' = [cpu EXCEPT ![m] = IF Reward(mine) = 0 THEN Stopped ELSE Puzzle]
    /\ UNCHANGED <<mine, work, disk, head, pool, batch, l1>>

\* A batch of hashes without a solution; the puzzle is looked at again.
SearchedBatch(m) ==
    /\ ~ batch.open
    /\ cpu[m].at = "mining"
    /\ cpu' = [cpu EXCEPT ![m] = IF mine.challenge = cpu[m].challenge THEN Puzzle ELSE Idle]
    /\ UNCHANGED <<mine, work, disk, head, pool, batch, l1>>

\* mine_submit: nonce, block number and hash are those of the published head.
Solution(m, n) ==
    [kind |-> "MINE_SUBMIT", sender |-> m, nonce |-> mine.nonce[m],
     digest |-> [challenge |-> cpu[m].challenge, miner |-> m, nonce |-> n],
     target |-> cpu[m].target, block |-> head]

\* The pool refuses a duplicate; the miner starts over in either case.
SolutionFound(m, n) ==
    /\ ~ batch.open
    /\ cpu[m].at = "mining"
    /\ pool' = pool \cup {Solution(m, n)}
    /\ cpu' = [cpu EXCEPT ![m] = Idle]
    /\ UNCHANGED <<mine, work, disk, head, batch, l1>>

\* mine_bridgeWithdraw; the balance is looked at in the block.
BridgeWithdraw(m, x) ==
    /\ ~ batch.open
    /\ pool' = pool \cup {[kind |-> "MINE_BRIDGE", sender |-> m, nonce |-> mine.nonce[m], amount |-> x]}
    /\ UNCHANGED <<mine, work, disk, head, batch, cpu, l1>>
-----------------------------------------------------------------------------
(* Blocks.                                                                 *)

StartBlock ==
    /\ ~ batch.open
    /\ head.number < MaxBlock                                      \* BOUND
    /\ work' = mine
    /\ batch' = [IdleBatch EXCEPT !.open = TRUE]
    /\ UNCHANGED <<mine, disk, head, pool, cpu, l1>>

\* All at one gas price: the heap yields the lowest nonce.
Top == {tx \in pool : \A u \in pool : tx.nonce <= u.nonce}

\* Its wallet's last transaction in the batch is not the one before it.
OutOfOrder(tx) == batch.last[tx.sender] # -1 /\ tx.nonce # batch.last[tx.sender] + 1

BatchStep ==
    /\ batch.open
    /\ \E tx \in Top :
        /\ pool' = pool \ {tx}
        /\ batch' = IF OutOfOrder(tx) THEN [batch EXCEPT !.aside = batch.aside \cup {tx}]
                    ELSE [batch EXCEPT !.last[tx.sender] = tx.nonce]
        /\ work' = IF ~ OutOfOrder(tx) /\ Valid(work, tx) THEN Applied(work, tx) ELSE work
    /\ UNCHANGED <<mine, disk, head, cpu, l1>>

EndBlock(parses) ==
    /\ batch.open /\ pool = {}
    /\ mine' = work
    /\ head' = [number |-> head.number + 1, chain |-> head.chain, parses |-> parses]
    /\ disk' = IF (head.number + 1) % SNAPSHOT_EVERY = 0 THEN work ELSE disk
    /\ pool' = batch.aside
    /\ batch' = IdleBatch
    /\ UNCHANGED <<work, cpu, l1>>

\* The restored chain starts again from the genesis block.
Restart ==
    /\ head.chain < MaxRestarts                                    \* BOUND
    /\ mine' = disk
    /\ work' = disk
    /\ head' = Genesis(head.chain + 1)
    /\ pool' = {}
    /\ batch' = IdleBatch
    /\ UNCHANGED <<disk, cpu, l1>>
-----------------------------------------------------------------------------
(* MineTokenL1.  It reads the published state only: a call during the      *)
(* building of a block is one before it.                                   *)

\* Mutant of Unprocessed: nobody looks at processedWithdrawals.
Unprocessed_Any(w) == TRUE

Unprocessed(w) == w \notin l1.processed

\* The relayer submits what the published state records.
FinalizeWithdrawal(w) ==
    /\ ~ batch.open
    /\ w \in mine.withdrawals /\ Unprocessed(w)
    /\ w.amount > 0
    /\ Total(l1.balance) + w.amount <= MAX_SUPPLY
    /\ l1' = [l1 EXCEPT !.processed = l1.processed \cup {w},
                        !.bridgedIn = l1.bridgedIn + w.amount,
                        !.balance = WithBalance(l1.balance, w.sender, l1.balance[w.sender] + w.amount)]
    /\ UNCHANGED <<mine, work, disk, head, pool, batch, cpu>>

L1Moved(a, b, x) ==
    WithBalance(WithBalance(l1.balance, a, l1.balance[a] - x), b, l1.balance[b] + x)

DepositToL2(m, x) ==
    /\ ~ batch.open
    /\ x > 0 /\ l1.balance[m] >= x
    /\ l1' = [l1 EXCEPT !.balance = L1Moved(m, Vault, x), !.locked = l1.locked + x]
    /\ UNCHANGED <<mine, work, disk, head, pool, batch, cpu>>

EmergencyRelease(m, x) ==
    /\ ~ batch.open
    /\ x <= l1.locked /\ l1.balance[Vault] >= x
    /\ l1' = [l1 EXCEPT !.balance = L1Moved(Vault, m, x), !.locked = l1.locked - x]
    /\ UNCHANGED <<mine, work, disk, head, pool, batch, cpu>>
-----------------------------------------------------------------------------
Next ==
    \/ \E m \in Miners :
          \/ FetchInfo(m) \/ SearchedBatch(m)
          \/ \E n \in HashNonces : SolutionFound(m, n)
          \/ \E x \in Amounts : \/ BridgeWithdraw(m, x)
                                \/ DepositToL2(m, x)
                                \/ EmergencyRelease(m, x)
    \/ StartBlock \/ BatchStep \/ Restart
    \/ \E parses \in BOOLEAN : EndBlock(parses)
    \/ \E w \in mine.withdrawals : FinalizeWithdrawal(w)

Spec == Init /\ [][Next]_vars
-----------------------------------------------------------------------------
\* TYPE: every state record, transaction and L1 balance has its type.
TypeOK ==
    /\ {mine, work, disk} \subseteq MineState
    /\ head \in Block
    /\ pool \cup batch.aside \subseteq SubmitTx \cup BridgeTx
    /\ batch.open \in BOOLEAN /\ batch.last \in [Miners -> Nat \cup {-1}]
    /\ cpu \in [Miners -> [at : {"idle", "mining", "stopped"}, challenge : Seq(Block), target : Nat]]
    /\ l1 \in [balance : [Miners \cup {Vault} -> Nat], bridgedIn : Nat, locked : Nat,
               processed : SUBSET Withdrawal]

(* What was mined and not burned is in the wallets, in every state of the  *)
(* chain (the cap is computed from total_minted and not from balances).    *)
BooksBalance == \A s \in {mine, work, disk} :
    Total(s.balance) = s.minted /\ s.minted <= MAX_SUPPLY

(* A puzzle is rewarded once: two miners that solve the same challenge, or *)
(* a miner that solves it twice while the first transaction waits, are not *)
(* both paid; and a block mints once, whatever block the submissions name.  *)
OneRewardPerPuzzle ==
    /\ \A s \in {mine, work, disk} :
          /\ \A d, e \in s.used : d.challenge = e.challenge => d = e
          /\ Cardinality(s.used) = s.solutions
    /\ batch.open => work.solutions <= mine.solutions + 1

(* Everything that was minted on L1 was burned on L2: the wrapped supply   *)
(* is the sum of distinct withdrawals, and what is locked is there.        *)
WrappedWasBurned ==
    /\ Total(l1.balance) = Total([w \in l1.processed |-> w.amount])
    /\ l1.bridgedIn = Total(l1.balance)
    /\ l1.locked <= l1.balance[Vault]

(* Wallets and withdrawals together never hold more than the halving       *)
(* schedule has emitted, although a burn makes room under the cap again.   *)
Schedule(s) == Total([k \in 0 .. (s.solutions - 1) |-> INITIAL_REWARD \div 2 ^ (k \div HALVING_INTERVAL)])
WithinSchedule == \A s \in {mine, work, disk} :
    s.minted + Total([w \in s.withdrawals |-> w.amount]) <= Schedule(s)

(* In every state of the chain - published, being built, on disk - what    *)
(* was mined and not burned is in the wallets, within the cap, and what    *)
(* was mined at all within the schedule, whatever is burned, bridged,      *)
(* refused or lost with a restart.                                         *)
SupplyIsScheduled == TypeOK /\ BooksBalance /\ WithinSchedule

(* "Total supply across L1 + L2 is always <= L2 MAX_SUPPLY"                *)
(* (MineTokenL1.sol:27).                                                   *)
SupplyAcrossLayers == mine.minted + Total(l1.balance) <= MAX_SUPPLY
=============================================================================
