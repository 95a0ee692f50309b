-------------------------- MODULE InferenceMarket --------------------------
(***************************************************************************)
(* The L1 job market (l1/contracts/InferenceToken.sol): jobs, bonds, fees  *)
(* and rewards.  One action per external function; a call that would       *)
(* revert is a step that is not enabled.  The miner registry, which no     *)
(* other function reads, and the inherited ERC-20 transfers are left out.  *)
(*                                                                         *)
(* The contract compares block.timestamp with postedAt and submittedAt     *)
(* only by way of their distance, so a job keeps the time that has passed  *)
(* since each, up to the largest distance a comparison tells apart.        *)
(***************************************************************************)
EXTENDS Totals

CONSTANTS
    Jobs,           \* job ids; nextJobId++ is a choice of one not yet posted
    Accounts,       \* externally owned accounts: they accept every transfer
    Models,         \* registrable model ids
    Tokens,         \* values of maxOutputTokens
    NoOne,          \* address(0)
    CLAIM_WINDOW, SUBMIT_DEADLINE, CHALLENGE_PERIOD, DISPUTE_TIMEOUT,
    JOB_FEE, MINER_BOND,
    FeeBps,         \* values setProtocolFeeBps is called with, and the initial one
    RoyaltyBps,     \* values registerModel is called with
    Tips,           \* what a caller sends on top of the fee or the bond
    MAX_SUPPLY, HALVING_INTERVAL,
    BASE_REWARD     \* [Tokens -> Nat]: the tier of an output size

ASSUME AccountsAssumption == IsFiniteSet(Accounts) /\ NoOne \notin Accounts
ASSUME JobsAssumption     == IsFiniteSet(Jobs)
ASSUME PeriodsAssumption  == {CLAIM_WINDOW, SUBMIT_DEADLINE, CHALLENGE_PERIOD, DISPUTE_TIMEOUT} \subseteq Nat \ {0}
ASSUME MoneyAssumption    == JOB_FEE \in Nat /\ MINER_BOND \in Nat \ {0} /\ Tips \subseteq Nat
ASSUME FeesAssumption     == FeeBps \subseteq 0 .. 1000 /\ FeeBps # {} /\ RoyaltyBps \subseteq 0 .. 5000
ASSUME RewardAssumption   == /\ MAX_SUPPLY \in Nat /\ HALVING_INTERVAL \in Nat \ {0}
                             /\ BASE_REWARD \in [Tokens -> Nat]

VARIABLES
    jobs,           \* the job table
    pendingBonds,   \* one pool per address, not per job
    protocolFees,
    protocolFeeBps,
    eth,            \* the contract's ETH balance
    modelRegistry,
    totalMinted, jobsCompleted,
    earned,         \* totalEarned + totalCreatorEarned of an address
    paused

vars == <<jobs, pendingBonds, protocolFees, protocolFeeBps, eth, modelRegistry,
          totalMinted, jobsCompleted, earned, paused>>
money  == <<pendingBonds, protocolFees, eth>>
tokens == <<totalMinted, jobsCompleted, earned>>
admin  == <<protocolFeeBps, modelRegistry, paused>>
-----------------------------------------------------------------------------
AddressOrNone == Accounts \cup {NoOne}
LastPosted    == CLAIM_WINDOW + SUBMIT_DEADLINE + 1
LastSubmitted == CHALLENGE_PERIOD + DISPUTE_TIMEOUT + 1

BlankJob(t, m) == [status |-> "none", requester |-> NoOne, miner |-> NoOne, challenger |-> NoOne,
                   tokens |-> t, model |-> m, posted |-> 0, submitted |-> 0]

Unregistered == [creator |-> NoOne, royaltyBps |-> 0]

Init ==
    /\ \E t \in Tokens, m \in Models : jobs = [j \in Jobs |-> BlankJob(t, m)]
    /\ pendingBonds = [a \in Accounts |-> 0]
    /\ protocolFees = 0
    /\ protocolFeeBps \in FeeBps
    /\ eth = 0
    /\ modelRegistry = [m \in Models |-> Unregistered]
    /\ totalMinted = 0
    /\ jobsCompleted = 0
    /\ earned = [a \in Accounts |-> 0]
    /\ paused = FALSE

Fee == (JOB_FEE * protocolFeeBps) \div 10000

\* _safeTransferETH: a transfer the balance does not cover reverts the call.
Pay(amount) == eth >= amount /\ eth' = eth - amount

\* Mutant of Capped: the cap is looked at before the amount is added.
Capped_Late(minted, amount) ==
    IF minted > MAX_SUPPLY THEN MAX_SUPPLY - minted ELSE amount

Capped(minted, amount) ==
    IF minted + amount > MAX_SUPPLY THEN MAX_SUPPLY - minted ELSE amount

Halvings(n) == IF n \div HALVING_INTERVAL > 20 THEN 20 ELSE n \div HALVING_INTERVAL

\* _calculateReward; _completeJob calls it with the job already counted.
Reward(t, completed) == BASE_REWARD[t] \div (2 ^ Halvings(completed))
-----------------------------------------------------------------------------
(* Time passes: the next block has a later timestamp.  Each distance grows *)
(* while a function may still read it.                                     *)
Tick ==
    /\ jobs' = [j \in Jobs |->
         [jobs[j] EXCEPT
            !.posted = IF jobs[j].status \in {"open", "claimed"} /\ @ < LastPosted
                       THEN @ + 1 ELSE @,
            !.submitted = IF jobs[j].status \in {"submitted", "disputed"} /\ @ < LastSubmitted
                          THEN @ + 1 ELSE @]]
    /\ UNCHANGED <<money, tokens, admin>>

RegisterModel(a, m, bps) ==
    /\ modelRegistry[m] = Unregistered
    /\ modelRegistry' = [modelRegistry EXCEPT ![m] = [creator |-> a, royaltyBps |-> bps]]
    /\ UNCHANGED <<jobs, money, tokens, protocolFeeBps, paused>>

SetPaused(p) ==
    /\ paused # p
    /\ paused' = p
    /\ UNCHANGED <<jobs, money, tokens, protocolFeeBps, modelRegistry>>

SetProtocolFeeBps(bps) ==
    /\ protocolFeeBps' = bps
    /\ UNCHANGED <<jobs, money, tokens, modelRegistry, paused>>

WithdrawProtocolFees ==
    /\ Pay(protocolFees)
    /\ protocolFees' = 0
    /\ UNCHANGED <<jobs, pendingBonds, tokens, admin>>

\* What is sent above JOB_FEE stays in the contract, on nobody's account.
PostJob(a, j, t, m, tip) ==
    /\ ~ paused
    /\ jobs[j].status = "none"
    /\ jobs' = [jobs EXCEPT ![j] = [BlankJob(t, m) EXCEPT !.status = "open", !.requester = a]]
    /\ eth'  = eth + JOB_FEE + tip
    /\ UNCHANGED <<pendingBonds, protocolFees, tokens, admin>>

\* The bond of a new role goes to the pool of the caller's address.
PoolBond(a, bond) ==
    /\ pendingBonds' = [pendingBonds EXCEPT ![a] = @ + bond]
    /\ eth' = eth + bond

ClaimJob(a, j, tip) ==
    /\ ~ paused
    /\ jobs[j].status = "open"
    /\ jobs[j].posted < CLAIM_WINDOW
    /\ jobs' = [jobs EXCEPT ![j] = [@ EXCEPT !.status = "claimed", !.miner = a]]
    /\ PoolBond(a, MINER_BOND + tip)
    /\ UNCHANGED <<protocolFees, tokens, admin>>

SubmitResult(j) ==
    /\ ~ paused
    /\ jobs[j].status = "claimed"
    /\ jobs[j].posted < CLAIM_WINDOW + SUBMIT_DEADLINE
    /\ jobs' = [jobs EXCEPT ![j] = [@ EXCEPT !.status = "submitted", !.submitted = 0]]
    /\ UNCHANGED <<money, tokens, admin>>

\* Mutant of BondsAfter: the pool of a role that ended is not emptied.
BondsAfter_Kept(roles) == pendingBonds

\* Every path that ends a role empties the whole pool of its address.
BondsAfter(roles) == [a \in Accounts |-> IF a \in roles THEN 0 ELSE pendingBonds[a]]

PoolOf(a) == IF a = NoOne THEN 0 ELSE pendingBonds[a]

\* _completeJob: the job is counted, the fee taken, miner and creator are
\* rewarded, the miner's pool and the net job fee are paid out.
Creator(j) == modelRegistry[jobs[j].model].creator

Rewards(j) ==
    LET reward  == Capped(totalMinted, Reward(jobs[j].tokens, jobsCompleted + 1))
        share   == (reward * modelRegistry[jobs[j].model].royaltyBps) \div 10000
        royalty == IF Creator(j) = NoOne THEN 0 ELSE Capped(totalMinted + reward, share)
    IN  /\ totalMinted'   = totalMinted + reward + royalty
        /\ jobsCompleted' = jobsCompleted + 1
        /\ earned' = [a \in Accounts |-> earned[a]
                        + (IF a = jobs[j].miner THEN reward ELSE 0)
                        + (IF a = Creator(j) THEN royalty ELSE 0)]

\* Mutant of Complete: the miner is paid the job fee without the deduction.
Complete_FullFee(j, forfeited) ==
    /\ jobs' = [jobs EXCEPT ![j] = [@ EXCEPT !.status = "complete"]]
    /\ Rewards(j)
    /\ protocolFees' = protocolFees + Fee + forfeited
    /\ Pay(PoolOf(jobs[j].miner) + JOB_FEE)

Complete(j, forfeited) ==
    /\ jobs' = [jobs EXCEPT ![j] = [@ EXCEPT !.status = "complete"]]
    /\ Rewards(j)
    /\ protocolFees' = protocolFees + Fee + forfeited
    /\ Pay(PoolOf(jobs[j].miner) + JOB_FEE - Fee)

Finalizable(j) == jobs[j].status = "submitted" /\ jobs[j].submitted > CHALLENGE_PERIOD

FinalizeJob(j) ==
    /\ Finalizable(j)
    /\ Complete(j, 0)
    /\ pendingBonds' = BondsAfter({jobs[j].miner})
    /\ UNCHANGED admin

Challengeable(j) == jobs[j].status = "submitted" /\ jobs[j].submitted < CHALLENGE_PERIOD

ChallengeResult(a, j, tip) ==
    /\ ~ paused
    /\ Challengeable(j)
    /\ jobs' = [jobs EXCEPT ![j] = [@ EXCEPT !.status = "disputed", !.challenger = a]]
    /\ PoolBond(a, MINER_BOND + tip)
    /\ UNCHANGED <<protocolFees, tokens, admin>>

\* Mutant of Parties: the challenger's pool outlives the dispute.
Parties_MinerOnly(j) == {jobs[j].miner}

\* _settleDispute.  The miner's pool is emptied before the challenger's is
\* read when the miner wins, and after when the miner loses.
Parties(j) == {jobs[j].miner, jobs[j].challenger}

MinerWins(j) ==
    /\ jobs[j].status = "disputed"
    /\ Complete(j, IF jobs[j].challenger = jobs[j].miner THEN 0 ELSE PoolOf(jobs[j].challenger))
    /\ pendingBonds' = BondsAfter(Parties(j))
    /\ UNCHANGED admin

MinerLoses(j) ==
    /\ jobs[j].status = "disputed"
    /\ jobs' = [jobs EXCEPT ![j] = [@ EXCEPT !.status = "expired"]]
    /\ Pay(PoolOf(jobs[j].miner) + PoolOf(jobs[j].challenger) + JOB_FEE - Fee)
    /\ protocolFees' = protocolFees + Fee
    /\ pendingBonds' = BondsAfter(Parties(j))
    /\ UNCHANGED <<tokens, admin>>

ResolveDispute(j) == MinerWins(j) \/ MinerLoses(j)

ResolveExpiredDispute(j) ==
    /\ jobs[j].submitted > CHALLENGE_PERIOD + DISPUTE_TIMEOUT
    /\ MinerWins(j)

\* reclaimExpiredJob.  Either way the job is open again, its fee still held.
Reopened(j) == [jobs EXCEPT ![j] = [@ EXCEPT !.status = "open", !.miner = NoOne, !.posted = 0]]

ReclaimUnclaimed(j) ==
    /\ jobs[j].status = "open"
    /\ jobs[j].posted > CLAIM_WINDOW
    /\ jobs' = Reopened(j)
    /\ UNCHANGED <<money, tokens, admin>>

\* Mutant of Overdue: the submit deadline alone, not from the claim window's end.
Overdue_Early(j) == jobs[j].posted > SUBMIT_DEADLINE
Overdue(j) == jobs[j].posted > CLAIM_WINDOW + SUBMIT_DEADLINE

ReclaimUnanswered(j) ==
    /\ jobs[j].status = "claimed"
    /\ Overdue(j)
    /\ LET bond == PoolOf(jobs[j].miner)
           half == bond \div 2
       IN  /\ Pay(half)
           /\ protocolFees' = protocolFees + bond - half
    /\ pendingBonds' = BondsAfter({jobs[j].miner})
    /\ jobs' = Reopened(j)
    /\ UNCHANGED <<tokens, admin>>
-----------------------------------------------------------------------------
Administer ==
    \/ WithdrawProtocolFees
    \/ \E p \in BOOLEAN : SetPaused(p)
    \/ \E bps \in FeeBps : SetProtocolFeeBps(bps)
    \/ \E a \in Accounts, m \in Models, bps \in RoyaltyBps : RegisterModel(a, m, bps)

Work(j) ==
    \/ \E a \in Accounts, t \in Tokens, m \in Models, tip \in Tips : PostJob(a, j, t, m, tip)
    \/ \E a \in Accounts, tip \in Tips : ClaimJob(a, j, tip)
    \/ SubmitResult(j)
    \/ \E a \in Accounts, tip \in Tips : ChallengeResult(a, j, tip)

Settle(j) ==
    \/ FinalizeJob(j) \/ ResolveDispute(j) \/ ResolveExpiredDispute(j)
    \/ ReclaimUnclaimed(j) \/ ReclaimUnanswered(j)

Next == Tick \/ Administer \/ \E j \in Jobs : Work(j) \/ Settle(j)

Spec == Init /\ [][Next]_vars
-----------------------------------------------------------------------------
Statuses == {"none", "open", "claimed", "submitted", "complete", "disputed", "expired"}

JobRec == [status : Statuses, requester : AddressOrNone, miner : AddressOrNone,
           challenger : AddressOrNone, tokens : Tokens, model : Models,
           posted : 0 .. LastPosted, submitted : 0 .. LastSubmitted]

Shares   == 0 .. 5000
ModelRec == [creator : AddressOrNone, royaltyBps : Shares]

(* Every variable has its type.                                            *)
TypeOK ==
    /\ jobs \in [Jobs -> JobRec]
    /\ pendingBonds \in [Accounts -> Nat]
    /\ protocolFees \in Nat
    /\ protocolFeeBps \in FeeBps
    /\ eth \in Nat
    /\ modelRegistry \in [Models -> ModelRec]
    /\ totalMinted \in Nat
    /\ jobsCompleted \in Nat
    /\ earned \in [Accounts -> Nat]
    /\ paused \in BOOLEAN

Unsettled == {j \in Jobs : jobs[j].status \in {"open", "claimed", "submitted", "disputed"}}

Escrow == [j \in Jobs |-> IF j \in Unsettled THEN JOB_FEE ELSE 0]

\* What the contract still owes: bonds, its owner's fees, the fees of jobs.
Owed == Total(pendingBonds) + protocolFees + Total(Escrow)

\* No job was ever challenged by its own miner (both stay on a settled job).
NobodyDisputesItself == \A j \in Jobs : jobs[j].challenger # NoOne => jobs[j].challenger # jobs[j].miner

(* The ETH the contract holds covers what it owes, whatever the order of   *)
(* calls and however many roles an address has - except that a miner that  *)
(* challenged its own result would have its one pool counted twice.        *)
Solvent == NobodyDisputesItself => eth >= Owed

MinesNow(a, j)      == jobs[j].miner = a /\ jobs[j].status \in {"claimed", "submitted", "disputed"}
ChallengesNow(a, j) == jobs[j].challenger = a /\ jobs[j].status = "disputed"

(* A bond is never stranded: an address with a pending bond has a role in  *)
(* a job that is not settled, whose end will return or forfeit it.         *)
NoStrandedBond ==
    \A a \in Accounts : pendingBonds[a] > 0 => \E j \in Jobs : MinesNow(a, j) \/ ChallengesNow(a, j)

(* Every minted token was earned by somebody, the cap is never passed, and *)
(* no job is rewarded twice: one completion is counted per complete job.   *)
MintedOnceWithinCap ==
    /\ Total(earned) = totalMinted
    /\ totalMinted <= MAX_SUPPLY
    /\ jobsCompleted = Cardinality({j \in Jobs : jobs[j].status = "complete"})

(* A miner loses the pool of its bonds only to a dispute it lost, to a     *)
(* lost challenge of its own, or to a reclaim after a full claim window    *)
(* and submit deadline; in every other step its pool is kept, increased,   *)
(* or paid out with a completed job.                                       *)
PunishedForCause ==
    [][\A a \in Accounts : pendingBonds'[a] < pendingBonds[a] =>
          \E j \in Jobs :
             \/ jobs'[j].status = "complete" /\ (MinesNow(a, j) \/ ChallengesNow(a, j))
             \/ jobs'[j].status = "expired" /\ (MinesNow(a, j) \/ ChallengesNow(a, j))
             \/ /\ MinesNow(a, j) /\ jobs[j].status = "claimed"
                /\ jobs[j].posted >= LastPosted]_vars
=============================================================================
