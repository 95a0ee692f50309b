------------------------------- MODULE Bridge -------------------------------
(***************************************************************************)
(* The INFT bridge: the contract (contracts/InferenceChainBridge.sol), the *)
(* watcher that mints deposits on L2 (bridge/watcher.py), the relayer that *)
(* is to finalise withdrawals (bridge/relayer.py), and L2 as they see it,  *)
(* composed with the rollup contract and its poster (Rollup).              *)
(*                                                                         *)
(* A root is the set of withdrawals that a Merkle proof leads from to it:  *)
(* none for L2's own roots, whose leaves are accounts.  Senders and        *)
(* recipients of deposits are left out.                                    *)
(***************************************************************************)
EXTENDS Rollup, Sequences, Totals

CONSTANTS
    Withdrawals,    \* withdrawal leaves: L2 tx hash, recipient and amount
    Worth,          \* [Withdrawals -> amounts]
    Amounts,        \* amounts that are deposited
    MaxDeposits,    \* BOUND: deposits
    MaxUnanswered   \* BOUND: relays whose answer or record is lost

ASSUME BridgeSets ==
    /\ IsFiniteSet(Withdrawals)
    /\ Roots \subseteq SUBSET Withdrawals /\ L2Root = {}
    /\ Worth \in [Withdrawals -> Nat \ {0}] /\ Amounts \subseteq Nat \ {0}
    /\ MaxDeposits \in Nat /\ MaxUnanswered \in Nat

VARIABLES
    deposits,       \* amounts, by depositNonce (counted from 1)
    totalLocked,
    used,           \* _usedWithdrawals
    released,       \* how often each withdrawal was paid (history)
    recorded,       \* nonces of bridge.db
    relaying,       \* the nonce between _relay_to_l2 and _record_relay
    rows,           \* withdrawals of the relayer's database
    pending,        \* deposits in the L2 pool
    l2, disk,       \* L2's bridge state and the last snapshot of it
    unanswered, refused, forgotten  \* histories: what happened to relays

l1bridge   == <<deposits, totalLocked, used, released>>
watcher    == <<recorded, relaying, unanswered, refused>>
chain      == <<pending, l2, disk, forgotten>>
bridgeVars == <<l1bridge, watcher, rows, chain>>
vars       == <<rollupVars, bridgeVars>>
-----------------------------------------------------------------------------
Nonces == 1 .. MaxDeposits
Idle   == 0
NothingBridged == [credits |-> [d \in Nonces |-> 0], burned |-> {}]

Init ==
    /\ RollupInit
    /\ deposits = <<>> /\ totalLocked = 0 /\ used = {}
    /\ released = [w \in Withdrawals |-> 0]
    /\ recorded = {} /\ relaying = Idle /\ rows = {}
    /\ pending = {} /\ l2 = NothingBridged /\ disk = NothingBridged
    /\ unanswered = [d \in Nonces |-> 0] /\ refused = {} /\ forgotten = {}

DepositINFT(x) ==
    /\ Len(deposits) < MaxDeposits                                  \* BOUND
    /\ deposits' = Append(deposits, x)
    /\ totalLocked' = totalLocked + x
    /\ UNCHANGED <<rollupVars, used, released, watcher, rows, chain>>
-----------------------------------------------------------------------------
(* finalizeWithdrawal.                                                     *)

\* Mutant of Unused: the leaf is not looked up.
Unused_Any(w) == TRUE

Unused(w) == w \notin used

Final(n) == commitment[n].finalized

Payable(w, n) == Final(n) /\ Unused(w) /\ w \in commitment[n].root /\ Worth[w] <= totalLocked

Paid(W) ==
    /\ used' = used \cup W
    /\ released' = [w \in Withdrawals |-> released[w] + (IF w \in W THEN 1 ELSE 0)]
    /\ totalLocked' = totalLocked - Total([w \in W |-> Worth[w]])

\* By anybody who has a proof.
FinalizeWithdrawal(w, n) ==
    /\ Payable(w, n)
    /\ Paid({w})
    /\ UNCHANGED <<rollupVars, deposits, watcher, rows, chain>>

(* The relayer's round: new records of inft_getPendingWithdrawals, and a   *)
(* withdrawal that is ready, with an empty proof.  L2's records do not     *)
(* have the fields that it reads: the first one ends the synchronisation.  *)
RecordFields == {"sender", "l1_recipient", "amount", "block"}
NeededFields == {"l2_tx_hash", "l1_recipient", "amount", "l2_block"}
Synced       == IF NeededFields \subseteq RecordFields THEN l2.burned ELSE {}

Ready == {w \in rows : \E n \in Numbers : Payable(w, n) /\ commitment[n].root = {w}}
Some(W) == IF W = {} THEN {} ELSE {CHOOSE w \in W : TRUE}

RelayerRound ==
    /\ rows' = rows \cup Synced
    /\ Paid(Some(Ready))
    /\ UNCHANGED <<rollupVars, deposits, watcher, chain>>
-----------------------------------------------------------------------------
(* The watcher reads every DepositInitiated again in each poll, in order,  *)
(* and relays those that it has not recorded.                              *)

\* Mutant of ToRelay: recorded deposits are relayed again.
ToRelay_Again(d) == d \in DOMAIN deposits /\ 1 .. (d - 1) \subseteq recorded

\* Mutant of ToRelay: the poll stops short of the latest deposit.
ToRelay_Short(d) == d \in DOMAIN deposits \ recorded /\ d < Len(deposits)

ToRelay(d) == d \in DOMAIN deposits \ recorded /\ 1 .. (d - 1) \subseteq recorded

\* L2 took the transaction, or had it pending (an error, recorded alike).
Relay(d) ==
    /\ relaying = Idle /\ ToRelay(d)
    /\ pending' = pending \cup {d}
    /\ relaying' = d
    /\ UNCHANGED <<rollupVars, l1bridge, recorded, unanswered, refused, rows, l2, disk, forgotten>>

\* L2 took it and the answer is lost: the poll ends, the next relays again.
RelayUnanswered(d) ==
    /\ relaying = Idle /\ ToRelay(d)
    /\ Total(unanswered) < MaxUnanswered                            \* BOUND
    /\ pending' = pending \cup {d}
    /\ unanswered' = [unanswered EXCEPT ![d] = @ + 1]
    /\ UNCHANGED <<rollupVars, l1bridge, recorded, relaying, refused, rows, l2, disk, forgotten>>

\* A full pool is an error, and an error is recorded like a hash.
RelayRefused(d) ==
    /\ relaying = Idle /\ ToRelay(d) /\ d \notin pending
    /\ relaying' = d
    /\ refused' = refused \cup {d}
    /\ UNCHANGED <<rollupVars, l1bridge, recorded, unanswered, rows, chain>>

RecordRelay ==
    /\ relaying # Idle
    /\ recorded' = recorded \cup {relaying}
    /\ relaying' = Idle
    /\ UNCHANGED <<rollupVars, l1bridge, unanswered, refused, rows, chain>>

\* The watcher stops between the relay and the record.
WatcherCrash ==
    /\ relaying # Idle
    /\ Total(unanswered) < MaxUnanswered                            \* BOUND
    /\ unanswered' = [unanswered EXCEPT ![relaying] = @ + 1]
    /\ relaying' = Idle
    /\ UNCHANGED <<rollupVars, l1bridge, recorded, refused, rows, chain>>
-----------------------------------------------------------------------------
(* L2.  Every pending deposit is credited, whatever was credited before.   *)
Credits == [d \in Nonces |-> l2.credits[d] + (IF d \in pending THEN 1 ELSE 0)]

\* Every so many blocks are a snapshot; which ones is left open.
L2Block(answered, saved) ==
    /\ ProduceBlock(answered)
    /\ l2' = [l2 EXCEPT !.credits = Credits]
    /\ disk' = IF saved THEN l2' ELSE disk
    /\ pending' = {}
    /\ UNCHANGED <<l1bridge, watcher, rows, forgotten>>

L2Withdraw(w) ==
    /\ w \notin l2.burned
    /\ l2' = [l2 EXCEPT !.burned = @ \cup {w}]
    /\ UNCHANGED <<rollupVars, l1bridge, watcher, rows, pending, disk, forgotten>>

\* The head is the genesis block again, the state that of the snapshot.
L2Restart ==
    /\ l2' = disk
    /\ pending' = {}
    /\ head' = 0
    /\ forgotten' = forgotten \cup {d \in recorded \cup {relaying} : d # Idle /\ disk.credits[d] = 0}
    /\ UNCHANGED <<contract, posted, l1bridge, watcher, rows, disk>>
-----------------------------------------------------------------------------
Watcher == RecordRelay \/ \E d \in Nonces : Relay(d)

Next ==
    \/ RollupNext /\ UNCHANGED bridgeVars
    \/ \E x \in Amounts : DepositINFT(x)
    \/ \E w \in Withdrawals, n \in Numbers : FinalizeWithdrawal(w, n)
    \/ RelayerRound \/ Watcher \/ WatcherCrash
    \/ \E d \in Nonces : RelayUnanswered(d) \/ RelayRefused(d)
    \/ \E answered, saved \in BOOLEAN : L2Block(answered, saved)
    \/ \E w \in Withdrawals : L2Withdraw(w)
    \/ L2Restart

Spec == Init /\ [][Next]_vars

\* The loops of the watcher and the sequencer never end.
FairSpec ==
    /\ Spec
    /\ WF_vars(Watcher)
    /\ WF_vars(\E answered, saved \in BOOLEAN : L2Block(answered, saved))
-----------------------------------------------------------------------------
BridgeRec == [credits : [Nonces -> Nat], burned : SUBSET Withdrawals]

(* Every variable has its type.                                            *)
TypeOK ==
    /\ RollupTypes
    /\ deposits \in Seq(Amounts) /\ totalLocked \in Nat
    /\ used \subseteq Withdrawals /\ released \in [Withdrawals -> Nat]
    /\ recorded \subseteq Nonces /\ relaying \in Nonces \cup {Idle}
    /\ rows \subseteq Withdrawals /\ pending \subseteq Nonces
    /\ l2 \in BridgeRec /\ disk \in BridgeRec
    /\ unanswered \in [Nonces -> Nat] /\ refused \subseteq Nonces /\ forgotten \subseteq Nonces

(* The bridge releases what was locked and no withdrawal twice, however    *)
(* many roots prove it and whoever submits it.                             *)
Custody ==
    /\ totalLocked + Total([w \in Withdrawals |-> released[w] * Worth[w]]) = Total(deposits)
    /\ \A w \in Withdrawals : released[w] <= 1

(* Every withdrawal that was paid is still proved by a finalised root: no  *)
(* challenge takes the ground from under a payment.                        *)
ReleasedIsFinal ==
    \A w \in used : \E n \in Numbers : commitment[n].finalized /\ w \in commitment[n].root

(* The bridge's books: each withdrawal leaves once, from what was locked,  *)
(* against a root that is final and stays so.                              *)
BridgeIsSound == TypeOK /\ Custody /\ ReleasedIsFinal

(* A deposit is credited again on L2 only for a relay whose answer or      *)
(* record was lost: the record of the relay is all that prevents more.     *)
CreditsExplained == \A d \in Nonces : l2.credits[d] <= 1 + unanswered[d]

(* Every deposit is credited, unless L2 refused its transaction or         *)
(* restarted after the watcher recorded it.                                *)
DepositArrives ==
    \A d \in Nonces : d \in DOMAIN deposits ~> l2.credits[d] > 0 \/ d \in refused \cup forgotten
=============================================================================
