---------------------------- MODULE BridgeProofs ----------------------------
(***************************************************************************)
(* Proofs about Rollup and Bridge: what is finalised stays, and a deposit  *)
(* is credited again only for a relay whose answer or record was lost.     *)
(***************************************************************************)
EXTENDS Bridge, TotalsTheorems

USE DEF Nonces, Idle

(***************************************************************************)
(* Finality.                                                               *)
(***************************************************************************)

\* A final commitment is known and not under challenge.
FinalOK(c) == (c.finalized => c.known /\ ~ c.challenged) /\ (c.challenged => c.known)

RollupInv ==
    /\ commitment \in [Numbers -> Commitment]
    /\ \A n \in Numbers : FinalOK(commitment[n])

\* What the actions make of one commitment.
LEMMA DeletedType == Deleted \in Commitment /\ ~ Deleted.finalized /\ ~ Deleted.challenged
BY RollupAmounts DEF Deleted, Commitment

LEMMA FreshType ==
  ASSUME NEW r \in Roots
  PROVE  Fresh(r) \in Commitment /\ ~ Fresh(r).finalized /\ ~ Fresh(r).challenged
<1>1. Deleted \in Commitment /\ ~ Deleted.finalized /\ ~ Deleted.challenged
  BY DeletedType
<1>2. PICK d : d = Deleted
  OBVIOUS
<1>3. d \in Commitment /\ ~ d.finalized /\ ~ d.challenged
  BY <1>1, <1>2
<1>4. PICK f : f = [d EXCEPT !.root = r, !.known = TRUE]
  OBVIOUS
<1>5. f \in Commitment /\ ~ f.finalized /\ ~ f.challenged
  BY <1>3, <1>4 DEF Commitment
<1> QED
  BY <1>2, <1>4, <1>5 DEF Fresh

\* What may happen to one commitment in a step: nothing, another age, or a
\* change of one that is not final.
SameButAge(c, d) ==
    /\ d.root = c.root /\ d.known = c.known /\ d.finalized = c.finalized
    /\ d.challenged = c.challenged

Changed(c, d) == SameButAge(c, d) \/ (~ c.finalized /\ FinalOK(d))

LEMMA CommittedChanges ==
  ASSUME RollupInv, NEW n \in Numbers, NEW r \in Roots, ~ commitment[n].known, Committed(n, r)
  PROVE  /\ commitment' \in [Numbers -> Commitment]
         /\ \A k \in Numbers : Changed(commitment[k], commitment'[k])
<1>1. PICK f : f = Fresh(r)
  OBVIOUS
<1>2. f \in Commitment /\ ~ f.finalized /\ ~ f.challenged
  BY <1>1, FreshType
<1>3. commitment' = [commitment EXCEPT ![n] = f]
  BY <1>1 DEF Committed
<1>4. ~ commitment[n].finalized
  BY DEF RollupInv, FinalOK
<1>5. \A k \in Numbers : commitment'[k] = IF k = n THEN f ELSE commitment[k]
  BY <1>3 DEF RollupInv
<1>6. commitment' \in [Numbers -> Commitment]
  BY <1>2, <1>3 DEF RollupInv
<1> QED
  BY <1>2, <1>4, <1>5, <1>6 DEF Changed, SameButAge, FinalOK

LEMMA TickChanges ==
  ASSUME RollupInv, Tick
  PROVE  /\ commitment' \in [Numbers -> Commitment]
         /\ \A k \in Numbers : Changed(commitment[k], commitment'[k])
<1>1. ASSUME NEW k \in Numbers
      PROVE  commitment'[k] \in Commitment /\ SameButAge(commitment[k], commitment'[k])
  <2>1. commitment[k] \in Commitment
    BY DEF RollupInv
  <2>2. commitment'[k] = IF commitment[k].known /\ commitment[k].age <= FRAUD_WINDOW
                         THEN [commitment[k] EXCEPT !.age = @ + 1] ELSE commitment[k]
    BY DEF Tick
  <2>3. CASE commitment[k].known /\ commitment[k].age <= FRAUD_WINDOW
    <3>1. commitment[k].age + 1 \in 0 .. (FRAUD_WINDOW + 1)
      BY <2>1, <2>3, RollupAmounts DEF Commitment
    <3> QED
      BY <2>1, <2>2, <2>3, <3>1 DEF Commitment, SameButAge
  <2>4. CASE ~ (commitment[k].known /\ commitment[k].age <= FRAUD_WINDOW)
    BY <2>1, <2>2, <2>4 DEF SameButAge
  <2> QED
    BY <2>3, <2>4
<1>2. DOMAIN commitment' = Numbers /\ commitment' = [n \in Numbers |-> commitment'[n]]
  BY DEF Tick
<1>3. commitment' \in [Numbers -> Commitment]
  BY <1>1, <1>2
<1> QED
  BY <1>1, <1>3 DEF Changed

\* A step that gives one commitment, which is not final, another value.
LEMMA OneChanges ==
  ASSUME RollupInv, NEW n \in Numbers, NEW d \in Commitment,
         ~ commitment[n].finalized, FinalOK(d),
         commitment' = [commitment EXCEPT ![n] = d]
  PROVE  /\ commitment' \in [Numbers -> Commitment]
         /\ \A k \in Numbers : Changed(commitment[k], commitment'[k])
BY DEF RollupInv, Changed, SameButAge

LEMMA ChallengeChanges ==
  ASSUME RollupInv, NEW n \in Numbers, NEW a \in Challengers, NEW v, ChallengeStateRoot(a, n, v)
  PROVE  /\ commitment' \in [Numbers -> Commitment]
         /\ \A k \in Numbers : Changed(commitment[k], commitment'[k])
<1>1. commitment[n] \in Commitment /\ ~ commitment[n].finalized /\ commitment[n].known
  BY DEF RollupInv, ChallengeStateRoot, Open
<1>2. PICK d : d = [commitment[n] EXCEPT !.challenged = TRUE, !.challenger = a]
  OBVIOUS
<1>3. d \in Commitment /\ FinalOK(d)
  BY <1>1, <1>2 DEF Commitment, FinalOK
<1>4. commitment' = [commitment EXCEPT ![n] = d]
  BY <1>2 DEF ChallengeStateRoot, RollupInv
<1> QED
  BY <1>1, <1>3, <1>4, OneChanges

LEMMA WinChanges ==
  ASSUME RollupInv, NEW n \in Numbers, ChallengerWins(n)
  PROVE  /\ commitment' \in [Numbers -> Commitment]
         /\ \A k \in Numbers : Changed(commitment[k], commitment'[k])
<1>1. ~ commitment[n].finalized /\ commitment' = [commitment EXCEPT ![n] = Deleted]
  BY DEF RollupInv, ChallengerWins, FinalOK
<1> QED
  BY <1>1, DeletedType, OneChanges DEF FinalOK

LEMMA LossChanges ==
  ASSUME RollupInv, NEW n \in Numbers, ChallengerLoses(n)
  PROVE  /\ commitment' \in [Numbers -> Commitment]
         /\ \A k \in Numbers : Changed(commitment[k], commitment'[k])
<1>1. commitment[n] \in Commitment /\ ~ commitment[n].finalized
  BY DEF RollupInv, ChallengerLoses, FinalOK
<1>2. PICK d : d = [commitment[n] EXCEPT !.challenged = FALSE, !.challenger = Zero]
  OBVIOUS
<1>3. d \in Commitment /\ FinalOK(d)
  BY <1>1, <1>2 DEF Commitment, FinalOK
<1>4. commitment' = [commitment EXCEPT ![n] = d]
  BY <1>2 DEF ChallengerLoses, RollupInv
<1> QED
  BY <1>1, <1>3, <1>4, OneChanges

LEMMA FinalizeChanges ==
  ASSUME RollupInv, NEW n \in Numbers, FinalizeStateRoot(n)
  PROVE  /\ commitment' \in [Numbers -> Commitment]
         /\ \A k \in Numbers : Changed(commitment[k], commitment'[k])
<1>1. commitment[n] \in Commitment /\ ~ commitment[n].finalized
      /\ commitment[n].known /\ ~ commitment[n].challenged
  BY DEF RollupInv, FinalizeStateRoot, Open
<1>2. PICK d : d = [commitment[n] EXCEPT !.finalized = TRUE]
  OBVIOUS
<1>3. d \in Commitment /\ FinalOK(d)
  BY <1>1, <1>2 DEF Commitment, FinalOK
<1>4. commitment' = [commitment EXCEPT ![n] = d]
  BY <1>2 DEF FinalizeStateRoot, RollupInv
<1> QED
  BY <1>1, <1>3, <1>4, OneChanges

LEMMA CommitmentsChange ==
  ASSUME RollupInv, [Next]_vars
  PROVE  /\ commitment' \in [Numbers -> Commitment]
         /\ \A k \in Numbers : Changed(commitment[k], commitment'[k])
<1>1. CASE commitment' = commitment
  BY <1>1 DEF RollupInv, Changed, SameButAge
<1>2. CASE RollupNext
  <2>1. CASE Tick
    BY <2>1, TickChanges
  <2>2. CASE WithdrawProtocolFunds \/ \E v \in Values : DepositSequencerBond(v)
    BY <2>2, <1>1 DEF WithdrawProtocolFunds, DepositSequencerBond
  <2>3. CASE \E n \in Numbers, r \in Roots : CommitStateRoot(n, r)
    BY <2>3, CommittedChanges DEF CommitStateRoot, Accepts
  <2>4. CASE \E n \in Numbers, a \in Challengers, v \in Values : ChallengeStateRoot(a, n, v)
    BY <2>4, ChallengeChanges
  <2>5. CASE \E n \in Numbers : ChallengerWins(n) \/ ChallengerLoses(n) \/ FinalizeStateRoot(n)
    BY <2>5, WinChanges, LossChanges, FinalizeChanges
  <2> QED
    BY <1>2, <2>1, <2>2, <2>3, <2>4, <2>5 DEF RollupNext
<1>3. ASSUME NEW answered \in BOOLEAN, NEW saved \in BOOLEAN, L2Block(answered, saved)
      PROVE  commitment' = commitment
  <2>1. ~ Accepts(NextNumber, PosterPreimage)
    BY DEF Accepts, PosterPreimage, Text, Packed
  <2> QED
    BY <1>3, <2>1 DEF L2Block, ProduceBlock
<1>4. CASE vars' = vars
  BY <1>1, <1>4 DEF vars, rollupVars, contract
<1>5. CASE \/ \E x \in Amounts : DepositINFT(x)
           \/ \E w \in Withdrawals, n \in Numbers : FinalizeWithdrawal(w, n)
           \/ RelayerRound \/ Watcher \/ WatcherCrash
           \/ \E d \in Nonces : RelayUnanswered(d) \/ RelayRefused(d)
           \/ \E w \in Withdrawals : L2Withdraw(w)
           \/ L2Restart
  BY <1>5, <1>1 DEF DepositINFT, FinalizeWithdrawal, RelayerRound, Watcher, RecordRelay, Relay,
     WatcherCrash, RelayUnanswered, RelayRefused, L2Withdraw, L2Restart, rollupVars, contract
<1> QED
  BY <1>1, <1>2, <1>3, <1>4, <1>5 DEF Next

LEMMA RollupInvHolds == Spec => []RollupInv
<1>1. Init => RollupInv
  BY DeletedType DEF Init, RollupInit, RollupInv, FinalOK
<1>2. RollupInv /\ [Next]_vars => RollupInv'
  <2> SUFFICES ASSUME RollupInv, [Next]_vars PROVE RollupInv'
    OBVIOUS
  <2> QED
    BY CommitmentsChange DEF RollupInv, Changed, SameButAge, FinalOK
<1> QED
  BY <1>1, <1>2, PTL DEF Spec

(* A finalised root is never changed, challenged, deleted or reopened, for *)
(* any interval, fraud window, bond and order of blocks and calls.         *)
THEOREM FinalityIsPermanent == Spec => FinalizedIsPermanent
<1>1. RollupInv /\ RollupInv' /\ [Next]_vars =>
        [\A n \in Numbers : commitment[n].finalized =>
           commitment'[n].root = commitment[n].root
             /\ commitment'[n].finalized /\ ~ commitment'[n].challenged]_commitment
  <2> SUFFICES ASSUME RollupInv, RollupInv', [Next]_vars, NEW n \in Numbers, commitment[n].finalized
               PROVE  commitment'[n].root = commitment[n].root
                        /\ commitment'[n].finalized /\ ~ commitment'[n].challenged
    OBVIOUS
  <2>1. SameButAge(commitment[n], commitment'[n])
    BY CommitmentsChange DEF Changed
  <2> QED
    BY <2>1 DEF SameButAge, RollupInv, FinalOK
<1> QED
  BY <1>1, RollupInvHolds, PTL DEF Spec, FinalizedIsPermanent

-----------------------------------------------------------------------------
(***************************************************************************)
(* Types.  The contract's ETH stays in its range because it covers the     *)
(* sequencer's bond.                                                       *)
(***************************************************************************)

LEMMA PaidOut == ASSUME RollupTypes PROVE Total(paid) \in Nat
<1>1. IsFiniteSet({Owner, Zero})
  <2>1. IsFiniteSet({Owner}) /\ IsFiniteSet({Zero})
    BY FS_Singleton
  <2>2. IsFiniteSet({Owner} \cup {Zero})
    BY <2>1, FS_Union
  <2>3. {Owner, Zero} = {Owner} \cup {Zero}
    OBVIOUS
  <2> QED
    BY <2>2, <2>3
<1>2. IsFiniteSet(Payees)
  BY <1>1, RollupSets, FS_Union DEF Payees
<1> QED
  BY <1>2, TotalType DEF RollupTypes

MoneyOK ==
    /\ latestCommitted \in Numbers \cup {0} /\ latestFinalized \in Numbers \cup {0}
    /\ sequencerBond \in 0 .. MaxEth /\ eth \in 0 .. MaxEth /\ sequencerBond <= eth
    /\ paid \in [Payees -> Nat]
    /\ head \in Numbers \cup {0} /\ posted \subseteq Numbers

LEMMA MoneySteps ==
  ASSUME RollupTypes, Solvent, [Next]_vars
  PROVE  MoneyOK'
<1>0. MoneyOK
  BY DEF RollupTypes, Solvent, MoneyOK
<1>1. {MaxEth, CHALLENGE_BOND, MaxBlock, STATE_ROOT_INTERVAL} \subseteq Nat /\ Values \subseteq Nat
  BY RollupAmounts
<1>2. Total(paid) \in Nat
  BY PaidOut
<1>3. CASE Tick
  BY <1>0, <1>3 DEF Tick, MoneyOK
<1>4. CASE WithdrawProtocolFunds
  <2>1. Owner \in Payees /\ eth - sequencerBond \in Nat
    BY <1>0, <1>1 DEF Payees, MoneyOK
  <2>2. PICK x \in Nat : x = eth - sequencerBond
    BY <2>1
  <2>3. paid' = [paid EXCEPT ![Owner] = @ + eth - sequencerBond]
    BY <1>4 DEF WithdrawProtocolFunds
  <2>4. paid[Owner] + eth - sequencerBond \in Nat
    BY <1>0, <1>1, <2>1 DEF MoneyOK
  <2>5. paid' \in [Payees -> Nat]
    BY <1>0, <2>3, <2>4 DEF MoneyOK
  <2> QED
    BY <1>0, <1>1, <1>4, <2>5 DEF WithdrawProtocolFunds, MoneyOK
<1>5. CASE \E v \in Values : DepositSequencerBond(v)
  BY <1>0, <1>1, <1>2, <1>5 DEF DepositSequencerBond, MoneyOK
<1>6. CASE \E n \in Numbers, r \in Roots : CommitStateRoot(n, r)
  BY <1>0, <1>6 DEF CommitStateRoot, Committed, MoneyOK
<1>7. CASE \E n \in Numbers, a \in Challengers, v \in Values : ChallengeStateRoot(a, n, v)
  BY <1>0, <1>1, <1>2, <1>7 DEF ChallengeStateRoot, MoneyOK
<1>8. ASSUME NEW n \in Numbers, ChallengerWins(n)
      PROVE  MoneyOK'
  <2>1. RolledBack(n) \in Numbers \cup {0}
    BY <1>0, <1>1 DEF RolledBack, Numbers, MoneyOK
  <2>2. Winner(n) \in Payees
    BY DEF Winner, Deleted, Payees
  <2>3. paid[Winner(n)] + sequencerBond + CHALLENGE_BOND \in Nat
    BY <1>0, <1>1, <2>2 DEF MoneyOK
  <2>4. paid' = [paid EXCEPT ![Winner(n)] = @ + sequencerBond + CHALLENGE_BOND]
    BY <1>8 DEF ChallengerWins
  <2>5. paid' \in [Payees -> Nat]
    BY <1>0, <2>3, <2>4 DEF MoneyOK
  <2>6. eth' \in 0 .. MaxEth /\ sequencerBond' = 0
    BY <1>0, <1>1, <1>8 DEF ChallengerWins, Unslashed, MoneyOK
  <2>7. latestCommitted' \in Numbers \cup {0}
    BY <1>8, <2>1 DEF ChallengerWins
  <2> QED
    BY <1>0, <1>1, <1>8, <2>5, <2>6, <2>7 DEF ChallengerWins, MoneyOK
<1>9. CASE \E n \in Numbers : ChallengerLoses(n) \/ FinalizeStateRoot(n)
  BY <1>0, <1>9 DEF ChallengerLoses, FinalizeStateRoot, MoneyOK
<1>10. ASSUME NEW answered \in BOOLEAN, NEW saved \in BOOLEAN, L2Block(answered, saved)
       PROVE  MoneyOK'
  <2>1. ~ Accepts(NextNumber, PosterPreimage)
    BY DEF Accepts, PosterPreimage, Text, Packed
  <2>2. UNCHANGED <<latestCommitted, latestFinalized, sequencerBond, eth, paid, posted>>
        /\ head' = NextNumber
    BY <1>10, <2>1 DEF L2Block, ProduceBlock
  <2>3. NextNumber \in Numbers \cup {0}
    BY <1>0, <1>1 DEF NextNumber, Numbers, MoneyOK
  <2> QED
    BY <1>0, <2>2, <2>3 DEF MoneyOK
<1>11. CASE vars' = vars
  BY <1>0, <1>11 DEF vars, rollupVars, contract, MoneyOK
<1>12. CASE \/ \E x \in Amounts : DepositINFT(x)
            \/ \E w \in Withdrawals, n \in Numbers : FinalizeWithdrawal(w, n)
            \/ RelayerRound \/ Watcher \/ WatcherCrash
            \/ \E d \in Nonces : RelayUnanswered(d) \/ RelayRefused(d)
            \/ \E w \in Withdrawals : L2Withdraw(w)
            \/ L2Restart
  BY <1>0, <1>12 DEF DepositINFT, FinalizeWithdrawal, RelayerRound, Watcher, RecordRelay, Relay,
     WatcherCrash, RelayUnanswered, RelayRefused, L2Withdraw, L2Restart, rollupVars, contract, MoneyOK
<1> QED
  BY <1>3, <1>4, <1>5, <1>6, <1>7, <1>8, <1>9, <1>10, <1>11, <1>12 DEF Next, RollupNext

-----------------------------------------------------------------------------
(***************************************************************************)
(* Deposits on L2.  Each credit, given or pending, in the state and in the *)
(* snapshot, has a relay of its own: the one that is recorded or about to  *)
(* be, or one whose answer or record was lost.                             *)
(***************************************************************************)

WatcherTypes ==
    /\ recorded \subseteq Nonces /\ relaying \in Nonces \cup {Idle}
    /\ rows \subseteq Withdrawals /\ pending \subseteq Nonces
    /\ l2 \in BridgeRec /\ disk \in BridgeRec
    /\ unanswered \in [Nonces -> Nat] /\ refused \subseteq Nonces /\ forgotten \subseteq Nonces

Coming(d)  == IF d \in pending THEN 1 ELSE 0
Relayed(d) == unanswered[d] + (IF d \in recorded \/ relaying = d THEN 1 ELSE 0)

CreditsInv ==
    /\ WatcherTypes
    /\ relaying \notin recorded
    /\ \A d \in Nonces : /\ l2.credits[d] + Coming(d) <= Relayed(d)
                         /\ disk.credits[d] <= Relayed(d)

LEMMA NoncesAreNumbers == Nonces \subseteq Nat /\ Idle \notin Nonces /\ Idle = 0
BY BridgeSets

LEMMA RelaySteps ==
  ASSUME CreditsInv, NEW d \in Nonces, Relay(d) \/ RelayUnanswered(d) \/ RelayRefused(d)
  PROVE  CreditsInv'
<1>1. relaying = Idle /\ d \notin recorded /\ Idle \notin Nonces /\ unanswered[d] \in Nat
  BY NoncesAreNumbers DEF Relay, RelayUnanswered, RelayRefused, ToRelay, CreditsInv, WatcherTypes
<1>2. l2' = l2 /\ disk' = disk /\ recorded' = recorded /\ rows' = rows /\ forgotten' = forgotten
  BY DEF Relay, RelayUnanswered, RelayRefused, chain
<1>3. \A e \in Nonces : /\ l2.credits[e] \in Nat /\ disk.credits[e] \in Nat /\ unanswered[e] \in Nat
  BY DEF CreditsInv, WatcherTypes, BridgeRec
<1>4. ASSUME NEW e \in Nonces
      PROVE  l2'.credits[e] + Coming(e)' <= Relayed(e)' /\ disk'.credits[e] <= Relayed(e)'
  <2>1. l2.credits[e] + Coming(e) <= Relayed(e) /\ disk.credits[e] <= Relayed(e)
    BY DEF CreditsInv
  <2>2. CASE Relay(d)
    BY <1>1, <1>2, <1>3, <2>1, <2>2 DEF Relay, Coming, Relayed
  <2>3. CASE RelayUnanswered(d)
    <3>1. unanswered' = [unanswered EXCEPT ![d] = @ + 1] /\ relaying' = relaying
          /\ pending' = pending \cup {d}
      BY <2>3 DEF RelayUnanswered
    <3>2. unanswered'[e] = IF e = d THEN unanswered[e] + 1 ELSE unanswered[e]
      BY <3>1 DEF CreditsInv, WatcherTypes
    <3> QED
      BY <1>1, <1>2, <1>3, <2>1, <3>1, <3>2 DEF Coming, Relayed
  <2>4. CASE RelayRefused(d)
    BY <1>1, <1>2, <1>3, <2>1, <2>4 DEF RelayRefused, chain, Coming, Relayed
  <2> QED
    BY <2>2, <2>3, <2>4
<1>5. unanswered' \in [Nonces -> Nat]
  BY <1>1 DEF Relay, RelayUnanswered, RelayRefused, CreditsInv, WatcherTypes
<1>6. /\ relaying' \in Nonces \cup {Idle} /\ relaying' \notin recorded
      /\ pending' \subseteq Nonces /\ refused' \subseteq Nonces
  BY <1>1 DEF Relay, RelayUnanswered, RelayRefused, chain, CreditsInv, WatcherTypes
<1> QED
  BY <1>2, <1>4, <1>5, <1>6 DEF CreditsInv, WatcherTypes

LEMMA RecordSteps ==
  ASSUME CreditsInv, RecordRelay \/ WatcherCrash
  PROVE  CreditsInv'
<1>1. relaying \in Nonces /\ relaying' = Idle /\ Idle \notin Nonces /\ unanswered[relaying] \in Nat
  BY NoncesAreNumbers DEF RecordRelay, WatcherCrash, CreditsInv, WatcherTypes
<1>2. UNCHANGED <<l2, disk, pending, rows, forgotten, refused>>
  BY DEF RecordRelay, WatcherCrash, chain
<1>3. \A e \in Nonces : /\ l2.credits[e] \in Nat /\ disk.credits[e] \in Nat /\ unanswered[e] \in Nat
  BY DEF CreditsInv, WatcherTypes, BridgeRec
<1>4. ASSUME NEW e \in Nonces PROVE Relayed(e)' = Relayed(e)
  <2>1. CASE RecordRelay
    BY <1>1, <2>1 DEF RecordRelay, Relayed
  <2>2. CASE WatcherCrash
    <3>1. unanswered' = [unanswered EXCEPT ![relaying] = @ + 1] /\ recorded' = recorded
      BY <2>2 DEF WatcherCrash
    <3>2. unanswered'[e] = IF e = relaying THEN unanswered[e] + 1 ELSE unanswered[e]
      BY <3>1 DEF CreditsInv, WatcherTypes
    <3>3. relaying \notin recorded
      BY DEF CreditsInv
    <3> QED
      BY <1>1, <1>3, <3>1, <3>2, <3>3 DEF Relayed
  <2> QED
    BY <2>1, <2>2
<1>5. \A e \in Nonces : Coming(e)' = Coming(e)
  BY <1>2 DEF Coming
<1>6. unanswered' \in [Nonces -> Nat] /\ recorded' \subseteq Nonces
  <2>1. unanswered \in [Nonces -> Nat] /\ recorded \subseteq Nonces
    BY DEF CreditsInv, WatcherTypes
  <2>2. CASE RecordRelay
    <3>1. recorded' = recorded \cup {relaying} /\ unanswered' = unanswered
      BY <2>2 DEF RecordRelay
    <3> QED
      BY <1>1, <2>1, <3>1
  <2>3. CASE WatcherCrash
    <3>1. recorded' = recorded /\ unanswered' = [unanswered EXCEPT ![relaying] = @ + 1]
      BY <2>3 DEF WatcherCrash
    <3>2. unanswered[relaying] + 1 \in Nat
      BY <1>1
    <3> QED
      BY <2>1, <3>1, <3>2
  <2> QED
    BY <2>2, <2>3
<1>7. relaying' \notin recorded'
  <2>1. Idle \notin Nonces
    BY <1>1
  <2>2. relaying' = Idle /\ recorded' \subseteq Nonces
    BY <1>1, <1>6
  <2> HIDE DEF Idle, Nonces
  <2> QED
    BY <2>1, <2>2
<1> QED
  BY <1>1, <1>2, <1>4, <1>5, <1>6, <1>7 DEF CreditsInv, WatcherTypes

LEMMA BlockSteps ==
  ASSUME CreditsInv, (\E answered, saved \in BOOLEAN : L2Block(answered, saved)) \/ L2Restart
  PROVE  CreditsInv'
<1>1. UNCHANGED <<recorded, relaying, unanswered, refused, rows>> /\ pending' = {}
  BY DEF L2Block, L2Restart, watcher
<1>2. \A e \in Nonces : Relayed(e)' = Relayed(e) /\ Coming(e)' = 0
  BY <1>1 DEF Relayed, Coming
<1>3. CASE L2Restart
  <2>1. l2' = disk /\ disk' = disk
    BY <1>3 DEF L2Restart
  <2>2. forgotten' \subseteq Nonces
    BY <1>3 DEF L2Restart, CreditsInv, WatcherTypes
  <2>3. \A e \in Nonces : disk.credits[e] \in Nat
    BY DEF CreditsInv, WatcherTypes, BridgeRec
  <2> QED
    BY <1>1, <1>2, <2>1, <2>2, <2>3 DEF CreditsInv, WatcherTypes
<1>4. ASSUME NEW answered \in BOOLEAN, NEW saved \in BOOLEAN, L2Block(answered, saved)
      PROVE  CreditsInv'
  <2>1. \A e \in Nonces : l2.credits[e] \in Nat /\ Coming(e) \in Nat
    BY DEF CreditsInv, WatcherTypes, BridgeRec, Coming
  <2>2. PICK f : f = Credits
    OBVIOUS
  <2>3. f \in [Nonces -> Nat] /\ \A e \in Nonces : f[e] = l2.credits[e] + Coming(e)
    BY <2>1, <2>2 DEF Credits, Coming
  <2>4. PICK r : r = [l2 EXCEPT !.credits = f]
    OBVIOUS
  <2>5. r \in BridgeRec /\ r.credits = f
    BY <2>3, <2>4 DEF CreditsInv, WatcherTypes, BridgeRec
  <2>6. l2' = r /\ (disk' = r \/ disk' = disk) /\ forgotten' = forgotten
    BY <1>4, <2>2, <2>4 DEF L2Block
  <2>7. \A e \in Nonces : r.credits[e] <= Relayed(e) /\ r.credits[e] \in Nat
    BY <2>3, <2>5 DEF CreditsInv
  <2>8. \A e \in Nonces : l2'.credits[e] + Coming(e)' <= Relayed(e)'
    BY <1>2, <2>6, <2>7
  <2>9. \A e \in Nonces : disk'.credits[e] <= Relayed(e)'
    BY <1>2, <2>6, <2>7 DEF CreditsInv
  <2> QED
    BY <1>1, <2>5, <2>6, <2>8, <2>9 DEF CreditsInv, WatcherTypes
<1> QED
  BY <1>3, <1>4

LEMMA CreditsSteps == ASSUME CreditsInv, [Next]_vars PROVE CreditsInv'
<1>1. CASE UNCHANGED <<watcher, rows, chain>>
  BY <1>1 DEF watcher, chain, CreditsInv, WatcherTypes, Coming, Relayed
<1>2. CASE RelayerRound
  <2>1. rows' \subseteq Withdrawals
    BY <1>2 DEF RelayerRound, Synced, CreditsInv, WatcherTypes, BridgeRec
  <2>2. UNCHANGED <<watcher, chain>>
    BY <1>2 DEF RelayerRound
  <2> QED
    BY <2>1, <2>2 DEF watcher, chain, CreditsInv, WatcherTypes, Coming, Relayed
<1>3. ASSUME NEW w \in Withdrawals, L2Withdraw(w)
      PROVE  CreditsInv'
  <2>1. UNCHANGED <<watcher, rows, pending, disk, forgotten>>
    BY <1>3 DEF L2Withdraw
  <2>2. l2' = [l2 EXCEPT !.burned = @ \cup {w}] /\ l2 \in BridgeRec
    BY <1>3 DEF L2Withdraw, CreditsInv, WatcherTypes
  <2>3. l2' \in BridgeRec /\ l2'.credits = l2.credits
    BY <2>2 DEF BridgeRec
  <2> QED
    BY <2>1, <2>3 DEF watcher, CreditsInv, WatcherTypes, Coming, Relayed
<1>4. CASE (RollupNext /\ UNCHANGED bridgeVars) \/ (\E x \in Amounts : DepositINFT(x))
           \/ (\E w \in Withdrawals, n \in Numbers : FinalizeWithdrawal(w, n)) \/ vars' = vars
  BY <1>1, <1>4 DEF bridgeVars, vars, DepositINFT, FinalizeWithdrawal
<1> QED
  BY <1>2, <1>3, <1>4, RelaySteps, RecordSteps, BlockSteps DEF Next, Watcher

LEMMA CreditsInvHolds == Spec => []CreditsInv
<1>1. Init => CreditsInv
  <2> SUFFICES ASSUME Init PROVE CreditsInv
    OBVIOUS
  <2>1. NothingBridged \in BridgeRec /\ \A d \in Nonces : NothingBridged.credits[d] = 0
    BY DEF NothingBridged, BridgeRec
  <2> QED
    BY <2>1 DEF Init, CreditsInv, WatcherTypes, Coming, Relayed
<1> QED
  BY <1>1, CreditsSteps, PTL DEF Spec

(* A deposit is credited again only for a relay whose answer or record was *)
(* lost, for any deposits, relays, crashes of the watcher, blocks,         *)
(* snapshots and restarts of L2.                                           *)
THEOREM CreditsHaveRelays == Spec => []CreditsExplained
<1>1. ASSUME CreditsInv, NEW d \in Nonces
      PROVE  l2.credits[d] <= 1 + unanswered[d]
  <2>1. l2.credits[d] \in Nat /\ unanswered[d] \in Nat
    BY <1>1 DEF CreditsInv, WatcherTypes, BridgeRec
  <2>2. l2.credits[d] + Coming(d) <= Relayed(d)
    BY <1>1 DEF CreditsInv
  <2> QED
    BY <2>1, <2>2 DEF Coming, Relayed
<1>2. CreditsInv => CreditsExplained
  BY <1>1 DEF CreditsExplained
<1> QED
  BY <1>2, CreditsInvHolds, PTL

-----------------------------------------------------------------------------
(***************************************************************************)
(* Custody.                                                                *)
(***************************************************************************)

\* What the payments r come to.
Out(r) == [w \in Withdrawals |-> r[w] * Worth[w]]

\* A withdrawal is paid when it is used, once, and against a final root.
PaidOnceOK ==
    /\ used \subseteq Withdrawals /\ released \in [Withdrawals -> Nat]
    /\ \A w \in Withdrawals : released[w] <= 1 /\ (w \notin used => released[w] = 0)

BooksInv ==
    /\ deposits \in Seq(Amounts) /\ totalLocked \in Nat
    /\ PaidOnceOK
    /\ totalLocked + Total(Out(released)) = Total(deposits)
    /\ ReleasedIsFinal

\* What was paid stays final.
LEMMA GroundStays ==
  ASSUME RollupInv, [Next]_vars, NEW n \in Numbers, commitment[n].finalized
  PROVE  commitment'[n].finalized /\ commitment'[n].root = commitment[n].root
BY CommitmentsChange DEF Changed, SameButAge

LEMMA OutType ==
  ASSUME NEW r \in [Withdrawals -> Nat], \A w \in Withdrawals : r[w] <= 1
  PROVE  Out(r) \in [Withdrawals -> Nat] /\ Total(Out(r)) \in Nat
<1>1. ASSUME NEW w \in Withdrawals PROVE r[w] * Worth[w] \in Nat
  <2>1. (r[w] = 0 \/ r[w] = 1) /\ Worth[w] \in Nat
    BY BridgeSets
  <2> QED
    BY <2>1
<1>2. Out(r) \in [Withdrawals -> Nat]
  BY <1>1 DEF Out
<1> QED
  BY <1>2, BridgeSets, TotalType

LEMMA PaymentSteps ==
  ASSUME RollupInv, BooksInv, [Next]_vars, NEW w \in Withdrawals, NEW n \in Numbers,
         Payable(w, n), Paid({w}), deposits' = deposits
  PROVE  BooksInv'
<1>1. /\ w \notin used /\ w \in commitment[n].root /\ commitment[n].finalized
      /\ Worth[w] <= totalLocked /\ Worth[w] \in Nat
  BY BridgeSets DEF Payable, Final, Unused
<1>2. released[w] = 0 /\ totalLocked \in Nat
  BY <1>1 DEF BooksInv, PaidOnceOK
<1>3. used' = used \cup {w}
  BY DEF Paid
<1>4. /\ released' \in [Withdrawals -> Nat]
      /\ \A v \in Withdrawals : released'[v] = IF v = w THEN 1 ELSE released[v]
  BY <1>2 DEF Paid, BooksInv, PaidOnceOK
<1>5. PaidOnceOK'
  BY <1>3, <1>4 DEF BooksInv, PaidOnceOK
<1>6. totalLocked' = totalLocked - Worth[w]
  <2>1. PICK g : g = [v \in {w} |-> Worth[v]]
    OBVIOUS
  <2>2. g \in [{w} -> Nat] /\ g[w] = Worth[w]
    BY <1>1, <2>1
  <2>3. Total(g) = Worth[w]
    BY <2>2, TotalOfOne
  <2> QED
    BY <2>1, <2>3 DEF Paid
<1>7. PICK p, q : p = Out(released) /\ q = Out(released')
  OBVIOUS
<1>8. /\ p \in [Withdrawals -> Nat] /\ q \in [Withdrawals -> Nat] /\ Total(p) \in Nat
      /\ \A v \in Withdrawals : v # w => q[v] = p[v]
      /\ p[w] = 0 /\ q[w] = Worth[w]
  <2>1. p \in [Withdrawals -> Nat] /\ Total(p) \in Nat
    BY <1>7, OutType DEF BooksInv, PaidOnceOK
  <2>2. q \in [Withdrawals -> Nat]
    BY <1>4, <1>5, <1>7, OutType DEF PaidOnceOK
  <2>3. \A v \in Withdrawals : v # w => q[v] = p[v]
    BY <1>4, <1>7 DEF Out
  <2>4. p[w] = 0 * Worth[w] /\ q[w] = 1 * Worth[w]
    BY <1>2, <1>4, <1>7 DEF Out
  <2> QED
    BY <1>1, <2>1, <2>2, <2>3, <2>4
<1>9. Total(q) = Total(p) - p[w] + q[w]
  BY <1>8, BridgeSets, TotalChanged
<1>10. totalLocked + Total(p) = Total(deposits)
  BY <1>7 DEF BooksInv
<1>11. totalLocked' \in Nat /\ totalLocked' + Total(q) = Total(deposits)
  BY <1>1, <1>2, <1>6, <1>8, <1>9, <1>10
<1>12. totalLocked' + Total(Out(released')) = Total(deposits')
  BY <1>7, <1>11
<1>13. ReleasedIsFinal'
  <2> SUFFICES ASSUME NEW v \in used'
               PROVE  \E k \in Numbers : commitment'[k].finalized /\ v \in commitment'[k].root
    BY DEF ReleasedIsFinal
  <2>1. PICK k \in Numbers : commitment[k].finalized /\ v \in commitment[k].root
    BY <1>1, <1>3 DEF BooksInv, ReleasedIsFinal
  <2>2. commitment'[k].finalized /\ commitment'[k].root = commitment[k].root
    BY <2>1, GroundStays
  <2> QED
    BY <2>1, <2>2
<1> QED
  BY <1>5, <1>11, <1>12, <1>13 DEF BooksInv

LEMMA DepositSteps ==
  ASSUME BooksInv, NEW x \in Amounts, DepositINFT(x)
  PROVE  BooksInv'
<1>1. /\ deposits' = Append(deposits, x) /\ totalLocked' = totalLocked + x
      /\ UNCHANGED <<used, released, commitment>>
  BY DEF DepositINFT, rollupVars, contract
<1>2. x \in Nat /\ Amounts \subseteq Nat
  BY BridgeSets
<1>3. PICK k \in Nat : k = Len(deposits)
  BY DEF BooksInv
<1>4. PICK f, g : f = deposits /\ g = Append(deposits, x)
  OBVIOUS
<1>5. deposits \in Seq(Amounts)
  BY DEF BooksInv
<1>6. f \in [1 .. k -> Nat] /\ g \in [1 .. (k + 1) -> Nat]
      /\ g[k + 1] = x /\ \A b \in 1 .. k : g[b] = f[b]
  <2>1. f \in Seq(Amounts) /\ g \in Seq(Amounts) /\ Len(f) = k /\ Len(g) = k + 1 /\ g = Append(f, x)
    BY <1>3, <1>4, <1>5
  <2>2. f \in [1 .. k -> Amounts]
    BY <2>1
  <2>3. g \in [1 .. Len(g) -> Amounts]
    <3>1. g \in Seq(Amounts)
      BY <2>1
    <3>2. DOMAIN g = 1 .. Len(g) /\ \A b \in DOMAIN g : g[b] \in Amounts
      BY <3>1
    <3>3. g = [b \in DOMAIN g |-> g[b]]
      BY <3>1
    <3> QED
      BY <3>2, <3>3
  <2>4. f \in [1 .. k -> Nat]
    BY <1>2, <2>2
  <2>5. g \in [1 .. (k + 1) -> Nat]
    BY <1>2, <2>1, <2>3
  <2>6. g[k + 1] = x /\ \A b \in 1 .. k : g[b] = f[b]
    BY <2>1, <2>2
  <2> QED
    BY <2>4, <2>5, <2>6
<1>7. IsFiniteSet(1 .. k) /\ k + 1 \notin 1 .. k /\ 1 .. (k + 1) = (1 .. k) \cup {k + 1}
  <2>1. IsFiniteSet(1 .. k)
    BY FS_Interval
  <2>2. k + 1 \notin 1 .. k /\ 1 .. (k + 1) = (1 .. k) \cup {k + 1}
    OBVIOUS
  <2> QED
    BY <2>1, <2>2
<1>8. g \in [(1 .. k) \cup {k + 1} -> Nat]
  <2>1. PICK T : T = 1 .. (k + 1)
    OBVIOUS
  <2>2. g \in [T -> Nat] /\ T = (1 .. k) \cup {k + 1}
    BY <1>6, <1>7, <2>1
  <2> QED
    BY <2>2
<1>9. Total(g) = Total(f) + g[k + 1]
  <2>1. PICK S, a : S = 1 .. k /\ a = k + 1
    OBVIOUS
  <2>2. /\ IsFiniteSet(S) /\ f \in [S -> Nat] /\ a \notin S /\ g \in [S \cup {a} -> Nat]
        /\ \A b \in S : g[b] = f[b]
    BY <1>6, <1>7, <1>8, <2>1
  <2>3. Total(g) = Total(f) + g[a]
    BY <2>2, TotalExtended
  <2> QED
    BY <2>1, <2>3
<1>10. Total(f) \in Nat
  BY <1>6, <1>7, TotalType
<1>11. Total(Out(released)) \in Nat
  BY OutType DEF BooksInv, PaidOnceOK
<1>12. totalLocked + Total(Out(released)) = Total(f) /\ totalLocked \in Nat
  BY <1>4 DEF BooksInv
<1>13. totalLocked' \in Nat /\ totalLocked' + Total(Out(released)) = Total(g)
  BY <1>1, <1>2, <1>6, <1>9, <1>10, <1>11, <1>12
<1>14. deposits' \in Seq(Amounts)
  BY <1>1, <1>5
<1> QED
  BY <1>1, <1>4, <1>13, <1>14 DEF BooksInv, PaidOnceOK, ReleasedIsFinal

LEMMA OtherSteps ==
  ASSUME RollupInv, BooksInv, [Next]_vars, UNCHANGED <<deposits, totalLocked, used, released>>
  PROVE  BooksInv'
<1>1. ReleasedIsFinal'
  <2> SUFFICES ASSUME NEW v \in used
               PROVE  \E k \in Numbers : commitment'[k].finalized /\ v \in commitment'[k].root
    BY DEF ReleasedIsFinal
  <2>1. PICK k \in Numbers : commitment[k].finalized /\ v \in commitment[k].root
    BY DEF BooksInv, ReleasedIsFinal
  <2>2. commitment'[k].finalized /\ commitment'[k].root = commitment[k].root
    BY <2>1, GroundStays
  <2> QED
    BY <2>1, <2>2
<1> QED
  BY <1>1 DEF BooksInv, PaidOnceOK

LEMMA BooksSteps == ASSUME RollupInv, CreditsInv, BooksInv, [Next]_vars PROVE BooksInv'
<1>1. ASSUME NEW w \in Withdrawals, NEW n \in Numbers, FinalizeWithdrawal(w, n)
      PROVE  BooksInv'
  BY <1>1, PaymentSteps DEF FinalizeWithdrawal
<1>2. CASE RelayerRound
  <2>1. deposits' = deposits
    BY <1>2 DEF RelayerRound
  <2>2. CASE Ready = {}
    <3>1. Paid({})
      BY <1>2, <2>2 DEF RelayerRound, Some
    <3>2. Total([w \in {} |-> Worth[w]]) = 0
      <4>1. PICK g : g = [w \in {} |-> Worth[w]]
        OBVIOUS
      <4>2. g \in [{} -> Nat]
        BY <4>1
      <4>3. Total(g) = 0
        BY <4>2, TotalZero
      <4> QED
        BY <4>1, <4>3
    <3>3. UNCHANGED <<deposits, totalLocked, used, released>>
      BY <2>1, <3>1, <3>2 DEF Paid, BooksInv, PaidOnceOK
    <3> QED
      BY <3>3, OtherSteps
  <2>3. CASE Ready # {}
    <3>1. PICK w \in Ready : Paid({w})
      BY <1>2, <2>3 DEF RelayerRound, Some
    <3>2. w \in Withdrawals /\ \E n \in Numbers : Payable(w, n)
      BY <3>1 DEF Ready, CreditsInv, WatcherTypes
    <3> QED
      BY <2>1, <3>1, <3>2, PaymentSteps
  <2> QED
    BY <2>2, <2>3
<1>3. CASE \/ RollupNext /\ UNCHANGED bridgeVars
           \/ Watcher \/ WatcherCrash
           \/ \E d \in Nonces : RelayUnanswered(d) \/ RelayRefused(d)
           \/ \E answered, saved \in BOOLEAN : L2Block(answered, saved)
           \/ \E w \in Withdrawals : L2Withdraw(w)
           \/ L2Restart
           \/ vars' = vars
  <2>1. UNCHANGED <<deposits, totalLocked, used, released>>
    BY <1>3 DEF bridgeVars, Watcher, RecordRelay, Relay, WatcherCrash, RelayUnanswered, RelayRefused,
       L2Block, L2Withdraw, L2Restart, l1bridge, vars
  <2> QED
    BY <2>1, OtherSteps
<1> QED
  BY <1>1, <1>2, <1>3, DepositSteps DEF Next

-----------------------------------------------------------------------------
(***************************************************************************)
(* The chain of commitments.  Distances are multiples of the interval.     *)
(***************************************************************************)

LEMMA Division ==
  ASSUME NEW I \in Nat \ {0}, NEW x \in Nat
  PROVE  x \div I \in Int /\ x % I \in 0 .. (I - 1) /\ x = I * (x \div I) + (x % I)
OBVIOUS

LEMMA SmallMultiple ==
  ASSUME NEW I \in Nat \ {0}, NEW k \in Int, NEW r \in 0 .. (I - 1), I * k = r
  PROVE  r = 0
<1>1. CASE k >= 1
  <2>1. I * k >= I
    BY <1>1
  <2> QED
    BY <2>1
<1>2. CASE k <= -1
  <2>1. I * k <= - I
    BY <1>2
  <2> QED
    BY <2>1
<1> QED
  BY <1>1, <1>2

LEMMA Multiple ==
  ASSUME NEW I \in Nat \ {0}, NEW x \in Nat, NEW q \in Int, x = I * q
  PROVE  x % I = 0
<1>1. PICK p \in Int, r \in 0 .. (I - 1) : p = x \div I /\ r = x % I /\ x = I * p + r
  BY Division
<1>2. PICK k \in Int : k = q - p
  OBVIOUS
<1>3. I * k = r
  BY <1>1, <1>2
<1> QED
  BY <1>1, <1>2, <1>3, SmallMultiple

LEMMA Quotient ==
  ASSUME NEW I \in Nat \ {0}, NEW x \in Nat, x % I = 0
  PROVE  \E p \in Int : x = I * p
<1>1. x \div I \in Int /\ x = I * (x \div I) + (x % I)
  BY Division
<1>2. PICK p \in Int : p = x \div I
  BY <1>1
<1>3. x = I * p + 0
  BY <1>1, <1>2
<1> QED
  BY <1>3

LEMMA NextMultiple ==
  ASSUME NEW I \in Nat \ {0}, NEW x \in Nat, x % I = 0
  PROVE  (x + I) % I = 0
<1>1. PICK p \in Int : x = I * p
  BY Quotient
<1>2. x + I = I * (p + 1) /\ p + 1 \in Int /\ x + I \in Nat
  BY <1>1
<1> QED
  BY <1>2, Multiple

LEMMA LastMultiple ==
  ASSUME NEW I \in Nat \ {0}, NEW x \in Nat \ {0}, x % I = 0
  PROVE  x >= I /\ (x - I) % I = 0
<1>1. x >= I
  OBVIOUS
<1>2. PICK p \in Int : x = I * p
  BY Quotient
<1>3. x - I = I * (p - 1) /\ p - 1 \in Int /\ x - I \in Nat
  BY <1>1, <1>2
<1> QED
  BY <1>1, <1>3, Multiple

Spaced(n, l) == n <= l /\ (l - n) % STATE_ROOT_INTERVAL = 0

ChainInv ==
    /\ latestCommitted \in Numbers \cup {0} /\ latestFinalized \in Numbers \cup {0}
    /\ \A n \in Numbers : commitment[n].known => Spaced(n, latestCommitted)
    /\ latestFinalized # 0 => commitment[latestFinalized].finalized

LEMMA CommittedIsSpaced ==
  ASSUME RollupInv, ChainInv, NEW n \in Numbers, NEW r \in Roots, NoGap(n), Committed(n, r),
         NEW k \in Numbers, commitment'[k].known
  PROVE  Spaced(k, latestCommitted')
<1>0. /\ STATE_ROOT_INTERVAL \in Nat \ {0} /\ MaxBlock \in Nat
      /\ k \in Nat /\ n \in Nat /\ latestCommitted \in Nat
  BY RollupAmounts DEF Numbers, ChainInv
<1>1. latestCommitted' = n
  BY DEF Committed
<1>2. CASE k = n
  BY <1>0, <1>1, <1>2 DEF Spaced
<1>3. CASE k # n
  <2>1. commitment'[k] = commitment[k]
    BY <1>3 DEF Committed, RollupInv
  <2>2. k <= latestCommitted /\ (latestCommitted - k) % STATE_ROOT_INTERVAL = 0
    BY <2>1 DEF ChainInv, Spaced
  <2>3. latestCommitted # 0
    BY <2>2, <1>0, RollupAmounts DEF Numbers
  <2>4. n = latestCommitted + STATE_ROOT_INTERVAL
    BY <2>3 DEF NoGap
  <2>5. PICK x \in Nat : x = latestCommitted - k
    BY <1>0, <2>2
  <2>6. (x + STATE_ROOT_INTERVAL) % STATE_ROOT_INTERVAL = 0
    BY <1>0, <2>2, <2>5, NextMultiple
  <2>7. n - k = x + STATE_ROOT_INTERVAL /\ k <= n
    BY <1>0, <2>4, <2>5
  <2> QED
    BY <1>1, <2>6, <2>7 DEF Spaced
<1> QED
  BY <1>2, <1>3

LEMMA RolledBackIsSpaced ==
  ASSUME RollupInv, ChainInv, NEW n \in Numbers, ChallengerWins(n),
         NEW k \in Numbers, commitment'[k].known
  PROVE  Spaced(k, latestCommitted')
<1>0. /\ STATE_ROOT_INTERVAL \in Nat \ {0} /\ MaxBlock \in Nat
      /\ k \in Nat \ {0} /\ n \in Nat /\ latestCommitted \in Nat
  BY RollupAmounts DEF Numbers, ChainInv
<1>1. k # n /\ commitment'[k] = commitment[k]
  BY DEF ChallengerWins, RollupInv, Deleted
<1>2. k <= latestCommitted /\ (latestCommitted - k) % STATE_ROOT_INTERVAL = 0
  BY <1>1 DEF ChainInv, Spaced
<1>3. latestCommitted' = RolledBack(n)
  BY DEF ChallengerWins
<1>4. CASE latestCommitted # n
  BY <1>2, <1>3, <1>4 DEF RolledBack, Spaced
<1>5. CASE latestCommitted = n
  <2>1. PICK x \in Nat \ {0} : x = n - k
    BY <1>0, <1>1, <1>2, <1>5
  <2>2. x % STATE_ROOT_INTERVAL = 0
    BY <1>2, <1>5, <2>1
  <2>3. x >= STATE_ROOT_INTERVAL /\ (x - STATE_ROOT_INTERVAL) % STATE_ROOT_INTERVAL = 0
    BY <1>0, <2>1, <2>2, LastMultiple
  <2>4. n > STATE_ROOT_INTERVAL
    BY <1>0, <2>1, <2>3
  <2>5. latestCommitted' = n - STATE_ROOT_INTERVAL
    BY <1>3, <1>5, <2>4 DEF RolledBack
  <2>6. (n - STATE_ROOT_INTERVAL) - k = x - STATE_ROOT_INTERVAL /\ k <= n - STATE_ROOT_INTERVAL
    BY <1>0, <2>1, <2>3
  <2> QED
    BY <2>3, <2>5, <2>6 DEF Spaced
<1> QED
  BY <1>4, <1>5

\* A step that commits nothing and rolls nothing back.
LEMMA StillSpaced ==
  ASSUME RollupInv, ChainInv, latestCommitted' = latestCommitted,
         \A k \in Numbers : commitment'[k].known => commitment[k].known
  PROVE  \A k \in Numbers : commitment'[k].known => Spaced(k, latestCommitted')
BY DEF ChainInv, Spaced

LEMMA ChainSteps ==
  ASSUME RollupInv, MoneyOK', ChainInv, [Next]_vars
  PROVE  ChainInv'
<1>1. \A k \in Numbers : commitment'[k].known => Spaced(k, latestCommitted')
  <2>1. CASE Tick
    <3>1. ASSUME NEW k \in Numbers PROVE commitment'[k].known = commitment[k].known
      <4>1. commitment[k] \in Commitment
        BY DEF RollupInv
      <4>2. commitment'[k] = IF commitment[k].known /\ commitment[k].age <= FRAUD_WINDOW
                             THEN [commitment[k] EXCEPT !.age = @ + 1] ELSE commitment[k]
        BY <2>1 DEF Tick
      <4> QED
        BY <4>1, <4>2 DEF Commitment
    <3> QED
      BY <2>1, <3>1, StillSpaced DEF Tick
  <2>2. CASE WithdrawProtocolFunds \/ \E v \in Values : DepositSequencerBond(v)
    BY <2>2, StillSpaced DEF WithdrawProtocolFunds, DepositSequencerBond
  <2>3. CASE \E n \in Numbers, r \in Roots : CommitStateRoot(n, r)
    BY <2>3, CommittedIsSpaced DEF CommitStateRoot, Accepts
  <2>4. ASSUME NEW n \in Numbers, NEW a \in Challengers, NEW v \in Values, ChallengeStateRoot(a, n, v)
        PROVE  \A k \in Numbers : commitment'[k].known => Spaced(k, latestCommitted')
    <3>1. \A k \in Numbers : commitment'[k].known => commitment[k].known
      BY <2>4 DEF ChallengeStateRoot, Open, RollupInv
    <3> QED
      BY <2>4, <3>1, StillSpaced DEF ChallengeStateRoot
  <2>5. ASSUME NEW n \in Numbers, ChallengerLoses(n) \/ FinalizeStateRoot(n)
        PROVE  \A k \in Numbers : commitment'[k].known => Spaced(k, latestCommitted')
    <3>1. commitment[n] \in Commitment /\ commitment[n].known
      BY <2>5 DEF RollupInv, FinalOK, ChallengerLoses, FinalizeStateRoot, Open
    <3>2. \A k \in Numbers : k # n => commitment'[k] = commitment[k]
      BY <2>5 DEF RollupInv, ChallengerLoses, FinalizeStateRoot
    <3>3. latestCommitted' = latestCommitted
      BY <2>5 DEF ChallengerLoses, FinalizeStateRoot
    <3> QED
      BY <3>1, <3>2, <3>3, StillSpaced
  <2>6. CASE \E n \in Numbers : ChallengerWins(n)
    BY <2>6, RolledBackIsSpaced
  <2>7. CASE UNCHANGED <<commitment, latestCommitted>>
    BY <2>7, StillSpaced
  <2>8. ASSUME NEW answered \in BOOLEAN, NEW saved \in BOOLEAN, L2Block(answered, saved)
        PROVE  UNCHANGED <<commitment, latestCommitted>>
    <3>1. ~ Accepts(NextNumber, PosterPreimage)
      BY DEF Accepts, PosterPreimage, Text, Packed
    <3> QED
      BY <2>8, <3>1 DEF L2Block, ProduceBlock
  <2>9. CASE \/ \E x \in Amounts : DepositINFT(x)
             \/ \E w \in Withdrawals, n \in Numbers : FinalizeWithdrawal(w, n)
             \/ RelayerRound \/ Watcher \/ WatcherCrash
             \/ \E d \in Nonces : RelayUnanswered(d) \/ RelayRefused(d)
             \/ \E w \in Withdrawals : L2Withdraw(w)
             \/ L2Restart \/ vars' = vars
    BY <2>7, <2>9 DEF DepositINFT, FinalizeWithdrawal, RelayerRound, Watcher, RecordRelay, Relay,
       WatcherCrash, RelayUnanswered, RelayRefused, L2Withdraw, L2Restart, rollupVars, contract, vars
  <2> QED
    BY <2>1, <2>2, <2>3, <2>4, <2>5, <2>6, <2>7, <2>8, <2>9 DEF Next, RollupNext
<1>2. latestFinalized' # 0 => commitment'[latestFinalized'].finalized
  <2>1. CASE latestFinalized' = latestFinalized
    BY <2>1, GroundStays DEF ChainInv
  <2>2. ASSUME NEW n \in Numbers, FinalizeStateRoot(n)
        PROVE  latestFinalized' # 0 => commitment'[latestFinalized'].finalized
    <3>1. commitment'[n].finalized
      BY <2>2 DEF FinalizeStateRoot, RollupInv, Commitment
    <3>2. latestFinalized' = n \/ latestFinalized' = latestFinalized
      BY <2>2 DEF FinalizeStateRoot
    <3> QED
      BY <2>1, <3>1, <3>2
  <2>3. CASE ~ \E n \in Numbers : FinalizeStateRoot(n)
    <3>1. latestFinalized' = latestFinalized
      BY <2>3 DEF Next, RollupNext, vars, rollupVars, contract, Tick, WithdrawProtocolFunds,
         DepositSequencerBond, CommitStateRoot, ChallengeStateRoot, ChallengerWins, ChallengerLoses,
         DepositINFT, FinalizeWithdrawal, RelayerRound, Watcher, RecordRelay, Relay, WatcherCrash,
         RelayUnanswered, RelayRefused, L2Withdraw, L2Restart, L2Block, ProduceBlock
    <3> QED
      BY <2>1, <3>1
  <2> QED
    BY <2>2, <2>3
<1> QED
  BY <1>1, <1>2 DEF ChainInv, MoneyOK

IInv == RollupInv /\ MoneyOK /\ ChainInv /\ CreditsInv /\ BooksInv

LEMMA InitOK == Init => IInv
<1> SUFFICES ASSUME Init PROVE IInv
  OBVIOUS
<1>1. NothingBridged \in BridgeRec /\ \A d \in Nonces : NothingBridged.credits[d] = 0
  BY DEF NothingBridged, BridgeRec
<1>2. CreditsInv
  BY <1>1 DEF Init, CreditsInv, WatcherTypes, Coming, Relayed
<1>3. RollupInv /\ MoneyOK
  BY DeletedType, RollupAmounts DEF Init, RollupInit, RollupInv, FinalOK, MoneyOK
<1>4. PaidOnceOK /\ ReleasedIsFinal /\ deposits = <<>> /\ totalLocked = 0
  BY DEF Init, PaidOnceOK, ReleasedIsFinal
<1>5. Total(Out(released)) = 0
  <2>1. PICK p : p = Out(released)
    OBVIOUS
  <2>2. p \in [Withdrawals -> Nat]
    BY <1>4, <2>1, OutType DEF PaidOnceOK
  <2>3. \A w \in Withdrawals : p[w] = 0 * Worth[w]
    BY <2>1 DEF Init, Out
  <2>4. \A w \in Withdrawals : p[w] = 0
    BY <2>3, BridgeSets
  <2> QED
    BY <2>1, <2>2, <2>4, TotalZero
<1>6. Total(deposits) = 0
  <2>1. deposits \in [{} -> Nat]
    BY <1>4
  <2> QED
    BY <2>1, TotalZero
<1>7. BooksInv
  BY <1>4, <1>5, <1>6 DEF BooksInv
<1>8. ChainInv
  BY DEF Init, RollupInit, ChainInv, Deleted
<1> QED
  BY <1>2, <1>3, <1>7, <1>8 DEF IInv

LEMMA Inductive == IInv /\ [Next]_vars => IInv'
<1> SUFFICES ASSUME IInv, [Next]_vars PROVE IInv'
  OBVIOUS
<1>1. RollupTypes /\ Solvent
  BY DEF IInv, RollupInv, MoneyOK, RollupTypes, Solvent
<1>2. MoneyOK'
  BY <1>1, MoneySteps
<1>3. RollupInv'
  BY CommitmentsChange DEF IInv, RollupInv, Changed, SameButAge, FinalOK
<1> QED
  BY <1>2, <1>3, CreditsSteps, BooksSteps, ChainSteps DEF IInv

LEMMA Invariance == Spec => []IInv
BY InitOK, Inductive, PTL DEF Spec

(* The commitments lie an interval apart, the last final one is one of     *)
(* them, and the sequencer's bond is covered, for any interval, window,    *)
(* bonds and order of commitments, challenges, roll-backs and withdrawals. *)
THEOREM CommitmentsAreSound == Spec => []RollupIsSound
<1>1. IInv => RollupIsSound
  BY DEF IInv, MoneyOK, ChainInv, Spaced, RollupIsSound, Chained, Solvent
<1> QED
  BY <1>1, Invariance, PTL

(* The bridge's books: every variable keeps its type, what was locked is   *)
(* still locked or was released, each withdrawal at most once, and against *)
(* a root that is final and stays so.                                      *)
THEOREM BooksAreSound == Spec => []BridgeIsSound
<1>1. IInv => TypeOK
  BY DEF IInv, RollupInv, MoneyOK, CreditsInv, WatcherTypes, BooksInv, PaidOnceOK, RollupTypes, TypeOK
<1>2. IInv => Custody
  BY DEF IInv, BooksInv, PaidOnceOK, Custody, Out
<1>3. IInv => BridgeIsSound
  BY <1>1, <1>2 DEF BridgeIsSound, IInv, BooksInv
<1> QED
  BY <1>3, Invariance, PTL
=============================================================================
