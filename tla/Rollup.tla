------------------------------- MODULE Rollup -------------------------------
(***************************************************************************)
(* The rollup contract (contracts/InferenceChainRollup.sol) and the poster *)
(* that commits state roots to it after every interval of L2 blocks        *)
(* (chain/rollup_poster.py).                                               *)
(*                                                                         *)
(* One action per external function; a call that would revert is a step    *)
(* that is not enabled.  A commitment keeps its age instead of committedAt *)
(* (one above the fraud window, any age compares alike).  Whoever holds    *)
(* the sequencer's key may also commit by hand, which is external.         *)
(***************************************************************************)
EXTENDS Integers, FiniteSets, Totals

CONSTANTS
    Challengers, Owner, Zero,   \* addresses; Zero is address(0)
    Roots, NoRoot,              \* state roots; NoRoot is bytes32(0)
    L2Root,                     \* the root that the sequencer's blocks carry
    STATE_ROOT_INTERVAL, FRAUD_WINDOW, CHALLENGE_BOND,
    Values,                     \* amounts of ETH that are sent
    MaxBlock, MaxEth            \* BOUNDS: L2 block numbers; ETH that is sent

ASSUME RollupSets == /\ IsFiniteSet(Challengers)
                     /\ Owner \notin Challengers /\ Zero \notin Challengers \cup {Owner}
                     /\ NoRoot \notin Roots /\ L2Root \in Roots
ASSUME RollupAmounts ==
    /\ STATE_ROOT_INTERVAL \in Nat \ {0}
    /\ {FRAUD_WINDOW, CHALLENGE_BOND, MaxBlock, MaxEth} \subseteq Nat
    /\ Values \subseteq Nat

VARIABLES
    commitment,     \* _commitments
    latestCommitted, latestFinalized,
    sequencerBond,
    eth,            \* address(this).balance
    paid,           \* ETH sent to each address
    head, posted    \* the sequencer's head; l2_block_number in rollup.db

contract   == <<commitment, latestCommitted, latestFinalized, sequencerBond, eth, paid>>
rollupVars == <<contract, head, posted>>
-----------------------------------------------------------------------------
Numbers == 1 .. MaxBlock
Payees  == Challengers \cup {Owner, Zero}

Commitment == [root : Roots \cup {NoRoot}, known : BOOLEAN, age : 0 .. (FRAUD_WINDOW + 1),
               finalized : BOOLEAN, challenged : BOOLEAN, challenger : Challengers \cup {Zero}]

Deleted == [root |-> NoRoot, known |-> FALSE, age |-> 0,
            finalized |-> FALSE, challenged |-> FALSE, challenger |-> Zero]
Fresh(r) == [Deleted EXCEPT !.root = r, !.known = TRUE]

RollupInit ==
    /\ commitment = [n \in Numbers |-> Deleted]
    /\ latestCommitted = 0
    /\ latestFinalized = 0
    /\ sequencerBond = 0
    /\ eth = 0
    /\ paid = [a \in Payees |-> 0]
    /\ head = 0
    /\ posted = {}

\* BOUND: ages stop one above the window.
Tick ==
    /\ \E n \in Numbers : commitment[n].known /\ commitment[n].age <= FRAUD_WINDOW
    /\ commitment' = [n \in Numbers |->
                        IF commitment[n].known /\ commitment[n].age <= FRAUD_WINDOW
                        THEN [commitment[n] EXCEPT !.age = @ + 1] ELSE commitment[n]]
    /\ UNCHANGED <<latestCommitted, latestFinalized, sequencerBond, eth, paid, head, posted>>

\* depositSequencerBond and receive.
DepositSequencerBond(v) ==
    /\ Total(paid) + eth + v <= MaxEth                              \* BOUND
    /\ sequencerBond' = sequencerBond + v
    /\ eth' = eth + v
    /\ UNCHANGED <<commitment, latestCommitted, latestFinalized, paid, head, posted>>
-----------------------------------------------------------------------------
(* Commitments.  The contract recovers the signer from the packed words of *)
(* number, root and batch hash; the poster signs the decimal number        *)
(* followed by the hexadecimal text of the two hashes.                     *)
Packed == "abi.encodePacked"
Text   == "text"
PosterPreimage == Text

NoGap(n) == latestCommitted = 0 \/ n = latestCommitted + STATE_ROOT_INTERVAL

Accepts(n, preimage) == ~ commitment[n].known /\ NoGap(n) /\ preimage = Packed

Committed(n, r) ==
    /\ commitment' = [commitment EXCEPT ![n] = Fresh(r)]
    /\ latestCommitted' = n

\* commitStateRoot, sent by hand.
CommitStateRoot(n, r) ==
    /\ n <= head
    /\ Accepts(n, Packed)
    /\ Committed(n, r)
    /\ UNCHANGED <<latestFinalized, sequencerBond, eth, paid, head, posted>>

LastPosted == IF posted = {} THEN 0 ELSE CHOOSE n \in posted : \A k \in posted : k <= n
Due(n)     == n % STATE_ROOT_INTERVAL = 0 /\ LastPosted < n

\* BOUND: block numbers stop at MaxBlock.
NextNumber == IF head < MaxBlock THEN head + 1 ELSE head

(* A block, and maybe_post, which the sequencer awaits.  It records what   *)
(* was mined and answered; a revert or a time-out is logged and forgotten. *)
ProduceBlock(answered) ==
    /\ head' = NextNumber
    /\ IF Due(NextNumber) /\ Accepts(NextNumber, PosterPreimage)
       THEN /\ Committed(NextNumber, L2Root)
            /\ posted' = IF answered THEN posted \cup {NextNumber} ELSE posted
       ELSE UNCHANGED <<commitment, latestCommitted, posted>>
    /\ UNCHANGED <<latestFinalized, sequencerBond, eth, paid>>
-----------------------------------------------------------------------------
(* Challenges.                                                             *)

\* Mutant of Open: a challenged commitment may be finalised.
Open_Challenged(n) == commitment[n].known /\ ~ commitment[n].finalized

Open(n)    == commitment[n].known /\ ~ commitment[n].finalized /\ ~ commitment[n].challenged
InWindow(n) == commitment[n].age <= FRAUD_WINDOW

ChallengeStateRoot(a, n, v) ==
    /\ Open(n) /\ InWindow(n)
    /\ v >= CHALLENGE_BOND
    /\ Total(paid) + eth + v <= MaxEth                              \* BOUND
    /\ commitment' = [commitment EXCEPT ![n].challenged = TRUE, ![n].challenger = a]
    /\ eth' = eth + v
    /\ UNCHANGED <<latestCommitted, latestFinalized, sequencerBond, paid, head, posted>>

\* Mutant of RolledBack: also for a commitment that is not the latest.
RolledBack_Always(n) == IF n > STATE_ROOT_INTERVAL THEN n - STATE_ROOT_INTERVAL ELSE 0

RolledBack(n) ==
    IF latestCommitted # n THEN latestCommitted
    ELSE IF n > STATE_ROOT_INTERVAL THEN n - STATE_ROOT_INTERVAL ELSE 0

(* resolveChallenge for the challenger.  The commitment is deleted before  *)
(* its challenger is read: the bond goes to address(0).                    *)
Winner(n) == Deleted.challenger

Unslashed(n) == 0

ChallengerWins(n) ==
    /\ commitment[n].challenged
    /\ eth >= sequencerBond + CHALLENGE_BOND
    /\ commitment' = [commitment EXCEPT ![n] = Deleted]
    /\ latestCommitted' = RolledBack(n)
    /\ paid' = [paid EXCEPT ![Winner(n)] = @ + sequencerBond + CHALLENGE_BOND]
    /\ eth' = eth - sequencerBond - CHALLENGE_BOND
    /\ sequencerBond' = Unslashed(n)
    /\ UNCHANGED <<latestFinalized, head, posted>>

ChallengerLoses(n) ==
    /\ commitment[n].challenged
    /\ commitment' = [commitment EXCEPT ![n].challenged = FALSE, ![n].challenger = Zero]
    /\ UNCHANGED <<latestCommitted, latestFinalized, sequencerBond, eth, paid, head, posted>>

FinalizeStateRoot(n) ==
    /\ Open(n) /\ ~ InWindow(n)
    /\ commitment' = [commitment EXCEPT ![n].finalized = TRUE]
    /\ latestFinalized' = IF n > latestFinalized THEN n ELSE latestFinalized
    /\ UNCHANGED <<latestCommitted, sequencerBond, eth, paid, head, posted>>

\* Everything but the sequencer's bond, the bonds of open challenges included.
WithdrawProtocolFunds ==
    /\ eth > sequencerBond
    /\ paid' = [paid EXCEPT ![Owner] = @ + eth - sequencerBond]
    /\ eth' = sequencerBond
    /\ UNCHANGED <<commitment, latestCommitted, latestFinalized, sequencerBond, head, posted>>
-----------------------------------------------------------------------------
\* What the contract's callers do; blocks are produced by L2 (Bridge).
RollupNext ==
    \/ Tick \/ WithdrawProtocolFunds
    \/ \E v \in Values : DepositSequencerBond(v)
    \/ \E n \in Numbers :
          \/ \E r \in Roots : CommitStateRoot(n, r)
          \/ \E a \in Challengers, v \in Values : ChallengeStateRoot(a, n, v)
          \/ ChallengerWins(n) \/ ChallengerLoses(n) \/ FinalizeStateRoot(n)
-----------------------------------------------------------------------------
RollupTypes ==
    /\ commitment \in [Numbers -> Commitment]
    /\ latestCommitted \in Numbers \cup {0} /\ latestFinalized \in Numbers \cup {0}
    /\ sequencerBond \in 0 .. MaxEth /\ eth \in 0 .. MaxEth
    /\ paid \in [Payees -> Nat]
    /\ head \in Numbers \cup {0} /\ posted \subseteq Numbers

(* The commitments lie an interval apart and none is beyond the latest     *)
(* one, whatever order commitments are challenged, deleted, rolled back    *)
(* and made again in; what was finalised last is one of them.              *)
Chained ==
    /\ \A n \in Numbers : commitment[n].known =>
          n <= latestCommitted /\ (latestCommitted - n) % STATE_ROOT_INTERVAL = 0
    /\ latestFinalized # 0 => commitment[latestFinalized].finalized

(* The contract holds what it owes the sequencer, through slashes and the  *)
(* owner's withdrawals.                                                    *)
Solvent == sequencerBond <= eth

(* The chain of commitments and the books survive every order of           *)
(* commitments, challenges, slashes, roll-backs and withdrawals.           *)
RollupIsSound == Chained /\ Solvent

(* A finalised root is never changed, challenged, deleted or reopened:     *)
(* withdrawals are paid against it.                                        *)
FinalizedIsPermanent ==
    [][\A n \in Numbers : commitment[n].finalized =>
          commitment'[n].root = commitment[n].root
            /\ commitment'[n].finalized /\ ~ commitment'[n].challenged]_commitment
=============================================================================
