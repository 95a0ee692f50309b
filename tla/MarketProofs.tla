---------------------------- MODULE MarketProofs ----------------------------
(***************************************************************************)
(* The market's invariants for any jobs, accounts, amounts and periods.    *)
(* Solvent and NoStrandedBond rest on RolesOK: which addresses a job has   *)
(* in which status.  Then those of the miner daemon and the SDK's client,  *)
(* which use the market as anybody may.                                    *)
(***************************************************************************)
EXTENDS L1Clients, TotalsTheorems

(* A job in progress has a miner, a dispute has a challenger, and a        *)
(* challenger is never seen before a dispute.                              *)
RoleOK(job) ==
    /\ job.status \in {"claimed", "submitted", "disputed", "complete", "expired"} => job.miner \in Accounts
    /\ job.status = "disputed" => job.challenger \in Accounts
    /\ job.challenger # NoOne => job.status \in {"disputed", "complete", "expired"}
RolesOK == \A j \in Jobs : RoleOK(jobs[j])

BaseInv == TypeOK /\ RolesOK

IInv == BaseInv /\ Solvent /\ NoStrandedBond /\ MintedOnceWithinCap
-----------------------------------------------------------------------------
(* Arithmetic of the amounts.                                              *)
LEMMA FeeFacts == ASSUME protocolFeeBps \in FeeBps
                  PROVE  Fee \in Nat /\ Fee <= JOB_FEE
<1>1. protocolFeeBps \in 0 .. 1000 /\ JOB_FEE \in Nat
  BY FeesAssumption, MoneyAssumption
<1>2. QED
  BY <1>1, SMT DEF Fee

LEMMA PowerOfTwo == ASSUME NEW h \in 0 .. 20
                    PROVE  2 ^ h \in Nat \ {0}
<1>0. h \in Nat
  OBVIOUS
<1>1. IsFiniteSet(1 .. h) /\ Cardinality(1 .. h) = h
  BY <1>0, FS_Interval
<1>2. IsFiniteSet(SUBSET (1 .. h)) /\ Cardinality(SUBSET (1 .. h)) = 2 ^ h
  BY <1>1, FS_SUBSET
<1>3. SUBSET (1 .. h) # {}
  OBVIOUS
<1>4. Cardinality(SUBSET (1 .. h)) \in Nat /\ Cardinality(SUBSET (1 .. h)) # 0
  BY <1>2, <1>3, FS_CardinalityType, FS_EmptySet
<1>5. QED
  BY <1>2, <1>4

LEMMA RewardType == ASSUME NEW t \in Tokens, NEW n \in Nat
                    PROVE  Reward(t, n) \in Nat
<1>1. HALVING_INTERVAL \in Nat \ {0} /\ BASE_REWARD[t] \in Nat
  BY RewardAssumption
<1>2. Halvings(n) \in 0 .. 20
  BY <1>1 DEF Halvings
<1>3. 2 ^ Halvings(n) \in Nat \ {0}
  BY <1>2, PowerOfTwo
<1> DEFINE d == 2 ^ Halvings(n)
<1>4. d \in Nat \ {0}
  BY <1>3
<1>5. Reward(t, n) = BASE_REWARD[t] \div d
  BY DEF Reward
<1> HIDE DEF d
<1>6. QED
  BY <1>1, <1>4, <1>5

LEMMA CappedFacts == ASSUME NEW m \in Nat, m <= MAX_SUPPLY, NEW x \in Nat
                     PROVE  Capped(m, x) \in Nat /\ m + Capped(m, x) <= MAX_SUPPLY
  BY RewardAssumption DEF Capped

(* Emptying one or two pools.                                              *)
LEMMA OnePoolEmptied ==
  ASSUME TypeOK, NEW a \in Accounts
  PROVE  /\ BondsAfter({a}) \in [Accounts -> Nat]
         /\ Total(BondsAfter({a})) = Total(pendingBonds) - PoolOf(a)
         /\ PoolOf(a) \in Nat
         /\ Total(BondsAfter({a})) \in Nat
<1>1. pendingBonds \in [Accounts -> Nat] /\ IsFiniteSet(Accounts) /\ NoOne \notin Accounts
  BY AccountsAssumption DEF TypeOK
<1>2. BondsAfter({a}) = WithBalance(pendingBonds, a, 0)
  BY <1>1 DEF BondsAfter, WithBalance
<1>3. Total(WithBalance(pendingBonds, a, 0)) = Total(pendingBonds) - pendingBonds[a] + 0
  BY <1>1, TotalUpdate
<1>4. PoolOf(a) = pendingBonds[a] /\ pendingBonds[a] \in Nat
  BY <1>1 DEF PoolOf
<1>5. Total(pendingBonds) \in Nat
  BY <1>1, TotalType
<1>6. BondsAfter({a}) \in [Accounts -> Nat]
  BY <1>1 DEF BondsAfter
<1>7. Total(BondsAfter({a})) \in Nat
  BY <1>1, <1>6, TotalType
<1>8. QED
  BY <1>2, <1>3, <1>4, <1>5, <1>6, <1>7

LEMMA TwoPoolsEmptied ==
  ASSUME TypeOK, NEW a \in Accounts, NEW b \in Accounts, a # b
  PROVE  /\ BondsAfter({a, b}) \in [Accounts -> Nat]
         /\ Total(BondsAfter({a, b})) = Total(pendingBonds) - PoolOf(a) - PoolOf(b)
         /\ PoolOf(a) \in Nat /\ PoolOf(b) \in Nat
         /\ Total(BondsAfter({a, b})) \in Nat
<1>1. pendingBonds \in [Accounts -> Nat] /\ IsFiniteSet(Accounts) /\ NoOne \notin Accounts
  BY AccountsAssumption DEF TypeOK
<1>2. BondsAfter({a, b}) = WithBalance(WithBalance(pendingBonds, a, 0), b, 0)
  BY <1>1 DEF BondsAfter, WithBalance
<1>3. Total(BondsAfter({a, b})) = Total(pendingBonds) - pendingBonds[a] - pendingBonds[b]
  BY <1>1, <1>2, TotalTwoEmptied
<1>4. /\ PoolOf(a) = pendingBonds[a] /\ PoolOf(a) \in Nat
      /\ PoolOf(b) = pendingBonds[b] /\ PoolOf(b) \in Nat
  BY <1>1 DEF PoolOf
<1>6. Total(pendingBonds) \in Nat
  BY <1>1, TotalType
<1>7. BondsAfter({a, b}) \in [Accounts -> Nat]
  BY <1>1 DEF BondsAfter
<1>8. Total(BondsAfter({a, b})) \in Nat
  BY <1>1, <1>7, TotalType
<1>9. QED
  BY <1>3, <1>4, <1>6, <1>7, <1>8
-----------------------------------------------------------------------------
LEMMA ZeroAges == 0 \in 0 .. LastPosted /\ 0 \in 0 .. LastSubmitted
  BY PeriodsAssumption DEF LastPosted, LastSubmitted

(* The initial states.                                                     *)
LEMMA InitInv == Init => IInv
<1> SUFFICES ASSUME Init PROVE IInv
  OBVIOUS
<1>1. PICK t \in Tokens, m \in Models : jobs = [j \in Jobs |-> BlankJob(t, m)]
  BY DEF Init
<1>2. TypeOK
  <2>1. BlankJob(t, m) \in JobRec
    BY PeriodsAssumption DEF BlankJob, JobRec, AddressOrNone, Statuses, LastPosted, LastSubmitted
  <2>2. jobs \in [Jobs -> JobRec]
    BY <1>1, <2>1
  <2>3. Unregistered \in ModelRec
    BY DEF Unregistered, AddressOrNone, ModelRec, Shares
  <2>4. modelRegistry \in [Models -> ModelRec]
    BY <2>3 DEF Init
  <2>5. pendingBonds \in [Accounts -> Nat] /\ earned \in [Accounts -> Nat]
    BY DEF Init
  <2>6. protocolFees \in Nat /\ eth \in Nat /\ totalMinted \in Nat /\ jobsCompleted \in Nat
    BY DEF Init
  <2>7. protocolFeeBps \in FeeBps /\ paused \in BOOLEAN
    BY DEF Init
  <2>8. QED
    BY <2>2, <2>4, <2>5, <2>6, <2>7 DEF TypeOK
<1>3. \A j \in Jobs : jobs[j].status = "none" /\ jobs[j].challenger = NoOne
  BY <1>1 DEF BlankJob
<1>4. RolesOK
  BY <1>3 DEF RolesOK, RoleOK
<1>5. Escrow \in [Jobs -> Nat] /\ \A j \in Jobs : Escrow[j] = 0
  BY <1>3 DEF Escrow, Unsettled
<1>6. Total(Escrow) = 0
  BY <1>5, TotalZero
<1>7. Total(pendingBonds) = 0 /\ Total(earned) = 0
  <2>1. pendingBonds \in [Accounts -> Nat] /\ \A a \in Accounts : pendingBonds[a] = 0
    BY DEF Init
  <2>2. earned \in [Accounts -> Nat] /\ \A a \in Accounts : earned[a] = 0
    BY DEF Init
  <2>3. QED
    BY <2>1, <2>2, TotalZero
<1>8. Solvent
  BY <1>6, <1>7 DEF Init, Solvent, Owed
<1>9. NoStrandedBond
  BY DEF Init, NoStrandedBond
<1>10. {j \in Jobs : jobs[j].status = "complete"} = {}
  BY <1>3
<1>11. MintedOnceWithinCap
  <2>1. Cardinality({j \in Jobs : jobs[j].status = "complete"}) = 0
    BY <1>10, FS_EmptySet
  <2>2. totalMinted = 0 /\ jobsCompleted = 0 /\ MAX_SUPPLY \in Nat
    BY RewardAssumption DEF Init
  <2>3. QED
    BY <1>7, <2>1, <2>2 DEF MintedOnceWithinCap
<1>12. QED
  BY <1>2, <1>4, <1>8, <1>9, <1>11 DEF IInv, BaseInv
-----------------------------------------------------------------------------
(* What a step does to the fees held for jobs.                             *)
LEMMA EscrowType == /\ Escrow \in [Jobs -> Nat]
                    /\ Total(Escrow) \in Nat
<1>1. Escrow \in [Jobs -> Nat]
  BY MoneyAssumption DEF Escrow
<1>2. QED
  BY <1>1, JobsAssumption, TotalType

LEMMA BondsType == ASSUME TypeOK PROVE Total(pendingBonds) \in Nat
<1>1. pendingBonds \in [Accounts -> Nat]
  BY DEF TypeOK
<1>2. QED
  BY <1>1, AccountsAssumption, TotalType

LEMMA EscrowKept ==
  ASSUME \A j \in Jobs : j \in Unsettled' <=> j \in Unsettled
  PROVE  Escrow' = Escrow
  BY DEF Escrow

LEMMA EscrowReleased ==
  ASSUME NEW j \in Jobs, j \in Unsettled, j \notin Unsettled',
         \A i \in Jobs \ {j} : i \in Unsettled' <=> i \in Unsettled
  PROVE  Total(Escrow') = Total(Escrow) - JOB_FEE
<1>1. Escrow' = WithBalance(Escrow, j, 0)
  BY DEF Escrow, WithBalance
<1>2. Escrow[j] = JOB_FEE
  BY DEF Escrow
<1>3. \A f \in [Jobs -> Nat] : \A i \in Jobs : Total(WithBalance(f, i, 0)) = Total(f) - f[i] + 0
  BY JobsAssumption, TotalUpdate
<1>4. Total(WithBalance(Escrow, j, 0)) = Total(Escrow) - Escrow[j] + 0
  BY <1>3, EscrowType
<1>5. QED
  BY <1>1, <1>2, <1>4, EscrowType, MoneyAssumption

LEMMA EscrowTaken ==
  ASSUME NEW j \in Jobs, j \notin Unsettled, j \in Unsettled',
         \A i \in Jobs \ {j} : i \in Unsettled' <=> i \in Unsettled
  PROVE  Total(Escrow') = Total(Escrow) + JOB_FEE
<1>0. JOB_FEE \in Nat
  BY MoneyAssumption
<1>1. Escrow' = WithBalance(Escrow, j, JOB_FEE)
  BY DEF Escrow, WithBalance
<1>2. Escrow[j] = 0
  BY DEF Escrow
<1>3. \A f \in [Jobs -> Nat] : \A i \in Jobs :
         Total(WithBalance(f, i, JOB_FEE)) = Total(f) - f[i] + JOB_FEE
  BY <1>0, JobsAssumption, TotalUpdate
<1>4. Total(WithBalance(Escrow, j, JOB_FEE)) = Total(Escrow) - Escrow[j] + JOB_FEE
  BY <1>3, EscrowType
<1>5. QED
  BY <1>0, <1>1, <1>2, <1>4, EscrowType

(* A new bond.                                                             *)
LEMMA BondPooled ==
  ASSUME TypeOK, NEW a \in Accounts, NEW b \in Nat, PoolBond(a, b)
  PROVE  /\ pendingBonds' \in [Accounts -> Nat]
         /\ Total(pendingBonds') = Total(pendingBonds) + b
<1>1. pendingBonds \in [Accounts -> Nat]
  BY DEF TypeOK
<1>2. pendingBonds' = WithBalance(pendingBonds, a, pendingBonds[a] + b)
  BY <1>1 DEF PoolBond, WithBalance
<1>3. PICK n \in Nat : n = pendingBonds[a] + b
  BY <1>1
<1>4. Total(WithBalance(pendingBonds, a, n)) = Total(pendingBonds) - pendingBonds[a] + n
  BY <1>1, AccountsAssumption, TotalUpdate
<1>5. QED
  BY <1>1, <1>2, <1>3, <1>4, BondsType DEF WithBalance
-----------------------------------------------------------------------------
(* Whoever disputes itself keeps doing so: the parties of a challenged job *)
(* never change.                                                           *)
PartiesKept == \A j \in Jobs :
    jobs[j].challenger # NoOne =>
        jobs'[j].challenger = jobs[j].challenger /\ jobs'[j].miner = jobs[j].miner

LEMMA SelfDisputesStay ==
  ASSUME PartiesKept, NobodyDisputesItself'
  PROVE  NobodyDisputesItself
  BY DEF PartiesKept, NobodyDisputesItself

LEMMA SolventKept ==
  ASSUME Solvent, PartiesKept, TypeOK, TypeOK', NobodyDisputesItself => eth' - Owed' >= eth - Owed
  PROVE  Solvent'
<1> SUFFICES ASSUME NobodyDisputesItself' PROVE eth' >= Owed'
  BY DEF Solvent
<1>1. NobodyDisputesItself
  BY SelfDisputesStay
<1>2. Owed \in Nat
  BY BondsType, EscrowType DEF Owed, TypeOK
<1>3. Total(pendingBonds') \in Nat /\ Total(Escrow') \in Nat
  <2>1. pendingBonds' \in [Accounts -> Nat] /\ Escrow' \in [Jobs -> Nat]
    BY MoneyAssumption DEF TypeOK, Escrow
  <2>2. QED
    BY <2>1, AccountsAssumption, JobsAssumption, TotalType
<1>4. Owed' \in Nat
  BY <1>3 DEF Owed, TypeOK
<1>5. eth \in Nat /\ eth' \in Nat
  BY DEF TypeOK
<1>6. eth' - Owed' >= eth - Owed /\ eth >= Owed
  BY <1>1 DEF Solvent
<1>7. PICK o \in Nat, p \in Nat : o = Owed /\ p = Owed'
  BY <1>2, <1>4
<1>8. PICK e \in Nat, f \in Nat : e = eth /\ f = eth'
  BY <1>5
<1>9. f - p >= e - o /\ e >= o
  BY <1>6, <1>7, <1>8
<1>10. f >= p
  BY <1>9
<1>11. QED
  BY <1>7, <1>8, <1>10

(* A step that moves no money, settles no job and ends no role.            *)
LEMMA QuietStep ==
  ASSUME IInv, TypeOK', RolesOK', PartiesKept, UNCHANGED <<money, tokens>>,
         \A j \in Jobs : j \in Unsettled' <=> j \in Unsettled,
         \A j \in Jobs : jobs'[j].status = "complete" <=> jobs[j].status = "complete",
         \A a \in Accounts, j \in Jobs :
             MinesNow(a, j) \/ ChallengesNow(a, j) => MinesNow(a, j)' \/ ChallengesNow(a, j)'
  PROVE  IInv'
<1>1. TypeOK /\ Solvent /\ NoStrandedBond /\ MintedOnceWithinCap
  BY DEF IInv, BaseInv
<1>2. Escrow' = Escrow
  BY EscrowKept
<1>3. Owed' = Owed /\ eth' = eth
  BY <1>2 DEF money, Owed
<1>4. Owed \in Nat /\ eth \in Nat
  BY <1>1, BondsType, EscrowType DEF Owed, TypeOK
<1>5. Solvent'
  BY <1>1, <1>3, <1>4, SolventKept
<1>6. NoStrandedBond'
  BY <1>1 DEF NoStrandedBond, money
<1>7. {j \in Jobs : jobs'[j].status = "complete"} = {j \in Jobs : jobs[j].status = "complete"}
  OBVIOUS
<1>8. MintedOnceWithinCap'
  BY <1>1, <1>7 DEF MintedOnceWithinCap, tokens
<1>9. QED
  BY <1>5, <1>6, <1>8 DEF IInv, BaseInv

LEMMA TickInv == IInv /\ Tick => IInv'
<1> SUFFICES ASSUME IInv, Tick PROVE IInv'
  OBVIOUS
<1>1. TypeOK /\ RolesOK
  BY DEF IInv, BaseInv
<1>2. \A j \in Jobs : /\ jobs'[j] \in JobRec
                      /\ jobs'[j].status = jobs[j].status
                      /\ jobs'[j].miner = jobs[j].miner
                      /\ jobs'[j].challenger = jobs[j].challenger
  <2> SUFFICES ASSUME NEW j \in Jobs
               PROVE  /\ jobs'[j] \in JobRec
                      /\ jobs'[j].status = jobs[j].status
                      /\ jobs'[j].miner = jobs[j].miner
                      /\ jobs'[j].challenger = jobs[j].challenger
    OBVIOUS
  <2>1. jobs[j] \in JobRec
    BY <1>1 DEF TypeOK
  <2>2. LastPosted \in Nat /\ LastSubmitted \in Nat
    BY PeriodsAssumption DEF LastPosted, LastSubmitted
  <2> DEFINE p == IF jobs[j].status \in {"open", "claimed"} /\ jobs[j].posted < LastPosted
                  THEN jobs[j].posted + 1 ELSE jobs[j].posted
             q == IF jobs[j].status \in {"submitted", "disputed"} /\ jobs[j].submitted < LastSubmitted
                  THEN jobs[j].submitted + 1 ELSE jobs[j].submitted
  <2>3. p \in 0 .. LastPosted /\ q \in 0 .. LastSubmitted
    BY <2>1, <2>2 DEF JobRec
  <2>4. jobs'[j] = [jobs[j] EXCEPT !.posted = p, !.submitted = q]
    BY DEF Tick
  <2> HIDE DEF p, q
  <2>5. QED
    BY <2>1, <2>3, <2>4 DEF JobRec
<1>3. TypeOK'
  <2>1. jobs' \in [Jobs -> JobRec]
    BY <1>2 DEF Tick
  <2>2. UNCHANGED <<money, tokens, admin>>
    BY DEF Tick
  <2>3. QED
    BY <1>1, <2>1, <2>2 DEF TypeOK, money, tokens, admin
<1>4. RolesOK'
  BY <1>1, <1>2 DEF RolesOK, RoleOK
<1>5. PartiesKept
  BY <1>2 DEF PartiesKept
<1>6. QED
  <2>1. UNCHANGED <<money, tokens>>
    BY DEF Tick
  <2>2. \A j \in Jobs : j \in Unsettled' <=> j \in Unsettled
    BY <1>2 DEF Unsettled
  <2>3. \A a \in Accounts, j \in Jobs :
           MinesNow(a, j) \/ ChallengesNow(a, j) => MinesNow(a, j)' \/ ChallengesNow(a, j)'
    BY <1>2 DEF MinesNow, ChallengesNow
  <2>4. \A j \in Jobs : jobs'[j].status = "complete" <=> jobs[j].status = "complete"
    BY <1>2
  <2>5. QED
    BY <1>3, <1>4, <1>5, <2>1, <2>2, <2>3, <2>4, QuietStep

LEMMA QuietAdminInv ==
  ASSUME IInv, UNCHANGED <<jobs, money, tokens>>, TypeOK'
  PROVE  IInv'
<1>1. RolesOK'
  BY DEF IInv, BaseInv, RolesOK
<1>2. PartiesKept
  BY DEF PartiesKept
<1>3. QED
  BY <1>1, <1>2, QuietStep DEF Unsettled, MinesNow, ChallengesNow

LEMMA AdminInv ==
  ASSUME IInv,
         \/ \E p \in BOOLEAN : SetPaused(p)
         \/ \E bps \in FeeBps : SetProtocolFeeBps(bps)
         \/ \E a \in Accounts, m \in Models, bps \in RoyaltyBps : RegisterModel(a, m, bps)
  PROVE  IInv'
<1>1. TypeOK
  BY DEF IInv, BaseInv
<1>2. CASE \E p \in BOOLEAN : SetPaused(p)
  BY <1>1, <1>2, QuietAdminInv DEF SetPaused, TypeOK, money, tokens
<1>3. CASE \E bps \in FeeBps : SetProtocolFeeBps(bps)
  BY <1>1, <1>3, QuietAdminInv DEF SetProtocolFeeBps, TypeOK, money, tokens
<1>4. CASE \E a \in Accounts, m \in Models, bps \in RoyaltyBps : RegisterModel(a, m, bps)
  <2>1. PICK a \in Accounts, m \in Models, bps \in RoyaltyBps : RegisterModel(a, m, bps)
    BY <1>4
  <2>2. bps \in 0 .. 5000
    BY FeesAssumption
  <2>3. modelRegistry' \in [Models -> ModelRec]
    <3>1. [creator |-> a, royaltyBps |-> bps] \in ModelRec
      BY <2>2 DEF ModelRec, Shares, AddressOrNone
    <3>2. modelRegistry \in [Models -> ModelRec]
      BY <1>1 DEF TypeOK
    <3>3. QED
      BY <2>1, <3>1, <3>2 DEF RegisterModel
  <2>4. UNCHANGED <<jobs, money, tokens, protocolFeeBps, paused>>
    BY <2>1 DEF RegisterModel
  <2>5. TypeOK'
    BY <1>1, <2>3, <2>4 DEF TypeOK, money, tokens
  <2>6. QED
    BY <2>4, <2>5, QuietAdminInv
<1>5. QED
  BY <1>2, <1>3, <1>4
-----------------------------------------------------------------------------
(* Facts about steps of one job.                                           *)
OthersKept(j) == \A i \in Jobs \ {j} : jobs'[i] = jobs[i]

LEMMA MintedKept ==
  ASSUME MintedOnceWithinCap, UNCHANGED tokens, NEW j \in Jobs, OthersKept(j),
         jobs'[j].status = "complete" <=> jobs[j].status = "complete"
  PROVE  MintedOnceWithinCap'
<1>1. {i \in Jobs : jobs'[i].status = "complete"} = {i \in Jobs : jobs[i].status = "complete"}
  BY DEF OthersKept
<1>2. QED
  BY <1>1 DEF MintedOnceWithinCap, tokens

(* Emptying the pools of all parties of the job that ended strands nobody. *)
LEMMA NobodyStranded ==
  ASSUME NoStrandedBond, NEW j \in Jobs, OthersKept(j), NEW R,
         pendingBonds' = BondsAfter(R),
         \A a \in Accounts : MinesNow(a, j) \/ ChallengesNow(a, j) => a \in R
  PROVE  NoStrandedBond'
<1> SUFFICES ASSUME NEW a \in Accounts, pendingBonds'[a] > 0
             PROVE  \E i \in Jobs : MinesNow(a, i)' \/ ChallengesNow(a, i)'
  BY DEF NoStrandedBond
<1>1. a \notin R /\ pendingBonds'[a] = pendingBonds[a]
  BY DEF BondsAfter
<1>2. PICK i \in Jobs : MinesNow(a, i) \/ ChallengesNow(a, i)
  BY <1>1 DEF NoStrandedBond
<1>3. i # j
  BY <1>1, <1>2
<1>4. jobs'[i] = jobs[i]
  BY <1>3 DEF OthersKept
<1>5. QED
  BY <1>2, <1>4 DEF MinesNow, ChallengesNow

(* A new bond belongs to the role it was sent for, and no role ends.       *)
LEMMA NewBondHasRole ==
  ASSUME TypeOK, NoStrandedBond, NEW j \in Jobs, OthersKept(j), NEW a \in Accounts, NEW b \in Nat,
         PoolBond(a, b), MinesNow(a, j)' \/ ChallengesNow(a, j)',
         \A c \in Accounts : MinesNow(c, j) => MinesNow(c, j)',
         jobs[j].status # "disputed"
  PROVE  NoStrandedBond'
<1> SUFFICES ASSUME NEW c \in Accounts, pendingBonds'[c] > 0, c # a
             PROVE  \E i \in Jobs : MinesNow(c, i)' \/ ChallengesNow(c, i)'
  BY DEF NoStrandedBond
<1>1. pendingBonds'[c] = pendingBonds[c]
  BY DEF PoolBond, TypeOK
<1>2. PICK i \in Jobs : MinesNow(c, i) \/ ChallengesNow(c, i)
  BY <1>1 DEF NoStrandedBond
<1>3. CASE i = j
  BY <1>2, <1>3 DEF ChallengesNow
<1>4. CASE i # j
  BY <1>2, <1>4 DEF OthersKept, MinesNow, ChallengesNow
<1>5. QED
  BY <1>3, <1>4

LEMMA OneRole ==
  ASSUME RolesOK, NEW j \in Jobs, OthersKept(j), RoleOK(jobs'[j])
  PROVE  RolesOK'
  BY DEF RolesOK, OthersKept

LEMMA OneJobTyped ==
  ASSUME TypeOK, NEW j \in Jobs, NEW r \in JobRec, jobs' = [jobs EXCEPT ![j] = r]
  PROVE  /\ jobs' \in [Jobs -> JobRec]
         /\ OthersKept(j)
         /\ jobs'[j] = r
  BY DEF TypeOK, OthersKept

LEMMA WithdrawInv == IInv /\ WithdrawProtocolFees => IInv'
<1> SUFFICES ASSUME IInv, WithdrawProtocolFees PROVE IInv'
  OBVIOUS
<1>1. TypeOK /\ RolesOK /\ Solvent /\ NoStrandedBond /\ MintedOnceWithinCap
  BY DEF IInv, BaseInv
<1>2. UNCHANGED <<jobs, pendingBonds, tokens, admin>> /\ protocolFees' = 0 /\ Pay(protocolFees)
  BY DEF WithdrawProtocolFees
<1>3. eth' = eth - protocolFees /\ eth >= protocolFees
  BY <1>2 DEF Pay
<1>4. eth \in Nat /\ protocolFees \in Nat
  BY <1>1 DEF TypeOK
<1>5. eth' \in Nat
  BY <1>3, <1>4
<1>6. TypeOK'
  BY <1>1, <1>2, <1>5 DEF TypeOK, tokens, admin
<1>7. PartiesKept
  BY <1>2 DEF PartiesKept
<1>8. Escrow' = Escrow
  BY <1>2 DEF Escrow, Unsettled
<1>9. eth' - Owed' >= eth - Owed
  BY <1>2, <1>3, <1>4, <1>8, BondsType, EscrowType, <1>1 DEF Owed
<1>11. Solvent'
  BY <1>1, <1>6, <1>7, <1>9, SolventKept
<1>12. RolesOK' /\ NoStrandedBond' /\ MintedOnceWithinCap'
  BY <1>1, <1>2 DEF RolesOK, NoStrandedBond, MinesNow, ChallengesNow, MintedOnceWithinCap, tokens
<1>13. QED
  BY <1>6, <1>11, <1>12 DEF IInv, BaseInv

LEMMA PostJobInv ==
  ASSUME IInv, NEW a \in Accounts, NEW j \in Jobs, NEW t \in Tokens, NEW m \in Models,
         NEW tip \in Tips, PostJob(a, j, t, m, tip)
  PROVE  IInv'
<1>1. TypeOK /\ RolesOK /\ Solvent /\ NoStrandedBond /\ MintedOnceWithinCap
  BY DEF IInv, BaseInv
<1>2. tip \in Nat /\ JOB_FEE \in Nat /\ eth \in Nat /\ protocolFees \in Nat
  BY <1>1, MoneyAssumption DEF TypeOK
<1> DEFINE r == [BlankJob(t, m) EXCEPT !.status = "open", !.requester = a]
<1>3. r \in JobRec
  <2>1. BlankJob(t, m) \in JobRec
    BY PeriodsAssumption DEF BlankJob, JobRec, AddressOrNone, Statuses, LastPosted, LastSubmitted
  <2>2. QED
    BY <2>1 DEF JobRec, AddressOrNone, Statuses
<1>4. r.status = "open" /\ r.miner = NoOne /\ r.challenger = NoOne
  BY DEF BlankJob
<1>5. /\ jobs[j].status = "none"
      /\ jobs' = [jobs EXCEPT ![j] = r]
      /\ eth'  = eth + JOB_FEE + tip
      /\ UNCHANGED <<pendingBonds, protocolFees, tokens, admin>>
  BY DEF PostJob
<1> HIDE DEF r
<1>6. jobs' \in [Jobs -> JobRec] /\ OthersKept(j) /\ jobs'[j] = r
  BY <1>1, <1>3, <1>5, OneJobTyped
<1>7. TypeOK'
  BY <1>1, <1>2, <1>5, <1>6 DEF TypeOK, tokens, admin
<1>8. RolesOK'
  <2>1. RoleOK(jobs'[j])
    BY <1>4, <1>6 DEF RoleOK
  <2>2. QED
    BY <1>1, <1>6, <2>1, OneRole
<1>9. PartiesKept
  BY <1>1, <1>5, <1>6 DEF PartiesKept, OthersKept, RolesOK, RoleOK
<1>10. Solvent'
  <2>1. Total(Escrow') = Total(Escrow) + JOB_FEE
    BY <1>4, <1>5, <1>6, EscrowTaken DEF OthersKept, Unsettled
  <2>2. eth' - Owed' >= eth - Owed
    BY <1>1, <1>2, <1>5, <2>1, BondsType, EscrowType DEF Owed
  <2>3. QED
    BY <1>1, <1>7, <1>9, <2>2, SolventKept
<1>11. NoStrandedBond'
  BY <1>1, <1>5, <1>6 DEF NoStrandedBond, MinesNow, ChallengesNow, OthersKept
<1>12. MintedOnceWithinCap'
  BY <1>1, <1>4, <1>5, <1>6, MintedKept
<1>13. QED
  BY <1>7, <1>8, <1>10, <1>11, <1>12 DEF IInv, BaseInv

LEMMA ClaimJobInv ==
  ASSUME IInv, NEW a \in Accounts, NEW j \in Jobs, NEW tip \in Tips, ClaimJob(a, j, tip)
  PROVE  IInv'
<1>1. TypeOK /\ RolesOK /\ Solvent /\ NoStrandedBond /\ MintedOnceWithinCap
  BY DEF IInv, BaseInv
<1>2. MINER_BOND + tip \in Nat /\ eth \in Nat /\ protocolFees \in Nat
  BY <1>1, MoneyAssumption DEF TypeOK
<1> DEFINE r == [jobs[j] EXCEPT !.status = "claimed", !.miner = a]
           b == MINER_BOND + tip
<1>3. r \in JobRec
  <2>1. jobs[j] \in JobRec
    BY <1>1 DEF TypeOK
  <2>2. QED
    BY <2>1 DEF JobRec, AddressOrNone, Statuses
<1>4. r.status = "claimed" /\ r.miner = a /\ r.challenger = jobs[j].challenger
  BY <1>1 DEF TypeOK, JobRec
<1>5. /\ jobs[j].status = "open"
      /\ jobs' = [jobs EXCEPT ![j] = r]
      /\ PoolBond(a, b)
      /\ UNCHANGED <<protocolFees, tokens, admin>>
  BY <1>1 DEF ClaimJob, TypeOK
<1>15. b \in Nat
  BY <1>2
<1> HIDE DEF r, b
<1>6. jobs' \in [Jobs -> JobRec] /\ OthersKept(j) /\ jobs'[j] = r
  BY <1>1, <1>3, <1>5, OneJobTyped
<1>7. pendingBonds' \in [Accounts -> Nat] /\ Total(pendingBonds') = Total(pendingBonds) + b
  BY <1>1, <1>5, <1>15, BondPooled
<1>16. eth' = eth + b
  BY <1>5 DEF PoolBond
<1>8. TypeOK'
  BY <1>1, <1>2, <1>5, <1>6, <1>7, <1>15, <1>16 DEF TypeOK, tokens, admin
<1>17. jobs[j].challenger = NoOne
  BY <1>1, <1>5 DEF RolesOK, RoleOK
<1>9. RolesOK'
  <2>1. RoleOK(jobs'[j])
    BY <1>4, <1>6, <1>17 DEF RoleOK
  <2>2. QED
    BY <1>1, <1>6, <2>1, OneRole
<1>10. PartiesKept
  BY <1>6, <1>17 DEF PartiesKept, OthersKept
<1>11. Solvent'
  <2>1. Escrow' = Escrow
    BY <1>4, <1>5, <1>6, EscrowKept DEF OthersKept, Unsettled
  <2>2. eth' - Owed' >= eth - Owed
    BY <1>1, <1>2, <1>5, <1>7, <1>15, <1>16, <2>1, BondsType, EscrowType DEF Owed
  <2>3. QED
    BY <1>1, <1>8, <1>10, <2>2, SolventKept
<1>12. NoStrandedBond'
  <2>1. MinesNow(a, j)'
    BY <1>4, <1>6 DEF MinesNow
  <2>2. \A c \in Accounts : ~ MinesNow(c, j)
    BY <1>5 DEF MinesNow
  <2>3. QED
    BY <1>1, <1>5, <1>6, <1>15, <2>1, <2>2, NewBondHasRole
<1>13. MintedOnceWithinCap'
  BY <1>1, <1>4, <1>5, <1>6, MintedKept
<1>14. QED
  BY <1>8, <1>9, <1>11, <1>12, <1>13 DEF IInv, BaseInv

LEMMA SubmitResultInv ==
  ASSUME IInv, NEW j \in Jobs, SubmitResult(j)
  PROVE  IInv'
<1>1. TypeOK /\ RolesOK
  BY DEF IInv, BaseInv
<1> DEFINE r == [jobs[j] EXCEPT !.status = "submitted", !.submitted = 0]
<1>2. jobs[j] \in JobRec
  BY <1>1 DEF TypeOK
<1>3. /\ r \in JobRec
      /\ r.status = "submitted" /\ r.miner = jobs[j].miner /\ r.challenger = jobs[j].challenger
  BY <1>2, ZeroAges DEF JobRec, Statuses
<1>4. /\ jobs[j].status = "claimed"
      /\ jobs' = [jobs EXCEPT ![j] = r]
      /\ UNCHANGED <<money, tokens, admin>>
  BY DEF SubmitResult
<1> HIDE DEF r
<1>5. jobs' \in [Jobs -> JobRec] /\ OthersKept(j) /\ jobs'[j] = r
  BY <1>1, <1>3, <1>4, OneJobTyped
<1>6. TypeOK'
  BY <1>1, <1>4, <1>5 DEF TypeOK, money, tokens, admin
<1>7. RolesOK'
  <2>1. RoleOK(jobs'[j])
    BY <1>1, <1>3, <1>4, <1>5 DEF RolesOK, RoleOK
  <2>2. QED
    BY <1>1, <1>5, <2>1, OneRole
<1>8. PartiesKept
  BY <1>3, <1>5 DEF PartiesKept, OthersKept
<1>9. \A i \in Jobs : i \in Unsettled' <=> i \in Unsettled
  BY <1>3, <1>4, <1>5 DEF OthersKept, Unsettled
<1>10. \A i \in Jobs : jobs'[i].status = "complete" <=> jobs[i].status = "complete"
  BY <1>3, <1>4, <1>5 DEF OthersKept
<1>11. \A a \in Accounts, i \in Jobs :
          MinesNow(a, i) \/ ChallengesNow(a, i) => MinesNow(a, i)' \/ ChallengesNow(a, i)'
  BY <1>3, <1>4, <1>5 DEF OthersKept, MinesNow, ChallengesNow
<1>12. QED
  BY <1>4, <1>6, <1>7, <1>8, <1>9, <1>10, <1>11, QuietStep

LEMMA ReopenedFacts ==
  ASSUME TypeOK, RolesOK, NEW j \in Jobs, jobs[j].status \in {"open", "claimed"}, jobs' = Reopened(j)
  PROVE  /\ jobs' \in [Jobs -> JobRec] /\ OthersKept(j) /\ RolesOK' /\ PartiesKept
         /\ jobs'[j].status = "open" /\ jobs'[j].challenger = NoOne
<1> DEFINE r == [jobs[j] EXCEPT !.status = "open", !.miner = NoOne, !.posted = 0]
<1>1. jobs[j] \in JobRec /\ jobs[j].challenger = NoOne
  BY DEF TypeOK, RolesOK, RoleOK
<1>2. r \in JobRec /\ r.status = "open" /\ r.miner = NoOne /\ r.challenger = NoOne
  BY <1>1, ZeroAges DEF JobRec, Statuses, AddressOrNone
<1>3. jobs' = [jobs EXCEPT ![j] = r]
  BY DEF Reopened
<1> HIDE DEF r
<1>4. jobs' \in [Jobs -> JobRec] /\ OthersKept(j) /\ jobs'[j] = r
  BY <1>2, <1>3, OneJobTyped
<1>5. RoleOK(jobs'[j])
  BY <1>2, <1>4 DEF RoleOK
<1>6. RolesOK'
  BY <1>4, <1>5, OneRole
<1>7. PartiesKept
  BY <1>1, <1>4 DEF PartiesKept, OthersKept
<1>8. QED
  BY <1>2, <1>4, <1>6, <1>7

LEMMA ReclaimUnclaimedInv ==
  ASSUME IInv, NEW j \in Jobs, ReclaimUnclaimed(j)
  PROVE  IInv'
<1>1. TypeOK /\ RolesOK
  BY DEF IInv, BaseInv
<1>2. jobs[j].status = "open" /\ jobs' = Reopened(j) /\ UNCHANGED <<money, tokens, admin>>
  BY DEF ReclaimUnclaimed
<1>3. /\ jobs' \in [Jobs -> JobRec] /\ OthersKept(j) /\ RolesOK' /\ PartiesKept
      /\ jobs'[j].status = "open"
  BY <1>1, <1>2, ReopenedFacts
<1>4. TypeOK'
  BY <1>1, <1>2, <1>3 DEF TypeOK, money, tokens, admin
<1>5. \A i \in Jobs : i \in Unsettled' <=> i \in Unsettled
  BY <1>2, <1>3 DEF OthersKept, Unsettled
<1>6. \A i \in Jobs : jobs'[i].status = "complete" <=> jobs[i].status = "complete"
  BY <1>2, <1>3 DEF OthersKept
<1>7. \A a \in Accounts, i \in Jobs :
          MinesNow(a, i) \/ ChallengesNow(a, i) => MinesNow(a, i)' \/ ChallengesNow(a, i)'
  BY <1>2, <1>3 DEF OthersKept, MinesNow, ChallengesNow
<1>8. QED
  BY <1>2, <1>3, <1>4, <1>5, <1>6, <1>7, QuietStep

LEMMA ReclaimUnansweredInv ==
  ASSUME IInv, NEW j \in Jobs, ReclaimUnanswered(j)
  PROVE  IInv'
<1>1. TypeOK /\ RolesOK /\ Solvent /\ NoStrandedBond /\ MintedOnceWithinCap
  BY DEF IInv, BaseInv
<1> DEFINE m    == jobs[j].miner
           bond == PoolOf(jobs[j].miner)
           half == bond \div 2
<1>2. /\ jobs[j].status = "claimed" /\ jobs' = Reopened(j)
      /\ Pay(half) /\ protocolFees' = protocolFees + bond - half
      /\ pendingBonds' = BondsAfter({m})
      /\ UNCHANGED <<tokens, admin>>
  BY DEF ReclaimUnanswered
<1>3. /\ jobs' \in [Jobs -> JobRec] /\ OthersKept(j) /\ RolesOK' /\ PartiesKept
      /\ jobs'[j].status = "open"
  BY <1>1, <1>2, ReopenedFacts
<1>4. m \in Accounts
  BY <1>1, <1>2 DEF RolesOK, RoleOK
<1>5. /\ pendingBonds' \in [Accounts -> Nat]
      /\ Total(pendingBonds') = Total(pendingBonds) - bond
      /\ bond \in Nat
  BY <1>1, <1>2, <1>4, OnePoolEmptied
<1>6. half \in Nat /\ half <= bond
  BY <1>5
<1> HIDE DEF m, bond, half
<1>7. eth \in Nat /\ protocolFees \in Nat
  BY <1>1 DEF TypeOK
<1>8. eth' = eth - half /\ eth' \in Nat /\ protocolFees' \in Nat
  BY <1>2, <1>5, <1>6, <1>7 DEF Pay
<1>9. TypeOK'
  <2>1. UNCHANGED <<tokens, admin>>
    BY <1>2
  <2>2. pendingBonds' \in [Accounts -> Nat] /\ jobs' \in [Jobs -> JobRec]
    BY <1>3, <1>5
  <2>3. QED
    BY <1>1, <1>8, <2>1, <2>2 DEF TypeOK, tokens, admin
<1>10. Solvent'
  <2>1. Escrow' = Escrow
    BY <1>2, <1>3, EscrowKept DEF OthersKept, Unsettled
  <2>2. eth' - Owed' >= eth - Owed
    BY <1>1, <1>2, <1>5, <1>6, <1>7, <1>8, <2>1, BondsType, EscrowType DEF Owed
  <2>3. QED
    BY <1>1, <1>3, <1>9, <2>2, SolventKept
<1>11. NoStrandedBond'
  <2>1. \A a \in Accounts : MinesNow(a, j) \/ ChallengesNow(a, j) => a \in {m}
    BY <1>2 DEF MinesNow, ChallengesNow, m
  <2>2. QED
    BY <1>1, <1>2, <1>3, <2>1, NobodyStranded
<1>12. MintedOnceWithinCap'
  BY <1>1, <1>2, <1>3, MintedKept
<1>13. QED
  BY <1>3, <1>9, <1>10, <1>11, <1>12 DEF IInv, BaseInv

LEMMA ChallengeResultInv ==
  ASSUME IInv, NEW a \in Accounts, NEW j \in Jobs, NEW tip \in Tips, ChallengeResult(a, j, tip)
  PROVE  IInv'
<1>1. TypeOK /\ RolesOK /\ Solvent /\ NoStrandedBond /\ MintedOnceWithinCap
  BY DEF IInv, BaseInv
<1>2. MINER_BOND + tip \in Nat /\ eth \in Nat /\ protocolFees \in Nat
  BY <1>1, MoneyAssumption DEF TypeOK
<1> DEFINE r == [jobs[j] EXCEPT !.status = "disputed", !.challenger = a]
           b == MINER_BOND + tip
<1>3. jobs[j] \in JobRec
  BY <1>1 DEF TypeOK
<1>4. r \in JobRec /\ r.status = "disputed" /\ r.miner = jobs[j].miner /\ r.challenger = a
  BY <1>3 DEF JobRec, AddressOrNone, Statuses
<1>5. /\ jobs[j].status = "submitted"
      /\ jobs' = [jobs EXCEPT ![j] = r]
      /\ PoolBond(a, b)
      /\ UNCHANGED <<protocolFees, tokens, admin>>
  BY DEF ChallengeResult, Challengeable
<1>6. b \in Nat
  BY <1>2
<1> HIDE DEF r, b
<1>7. jobs' \in [Jobs -> JobRec] /\ OthersKept(j) /\ jobs'[j] = r
  BY <1>1, <1>4, <1>5, OneJobTyped
<1>8. pendingBonds' \in [Accounts -> Nat] /\ Total(pendingBonds') = Total(pendingBonds) + b
  BY <1>1, <1>5, <1>6, BondPooled
<1>9. eth' = eth + b
  BY <1>5 DEF PoolBond
<1>10. TypeOK'
  BY <1>1, <1>2, <1>5, <1>6, <1>7, <1>8, <1>9 DEF TypeOK, tokens, admin
<1>11. jobs[j].challenger = NoOne /\ jobs[j].miner \in Accounts
  BY <1>1, <1>5 DEF RolesOK, RoleOK
<1>12. RolesOK'
  <2>1. RoleOK(jobs'[j])
    BY <1>4, <1>7, <1>11 DEF RoleOK
  <2>2. QED
    BY <1>1, <1>7, <2>1, OneRole
<1>13. PartiesKept
  BY <1>7, <1>11 DEF PartiesKept, OthersKept
<1>14. Solvent'
  <2>1. Escrow' = Escrow
    BY <1>4, <1>5, <1>7, EscrowKept DEF OthersKept, Unsettled
  <2>2. eth' - Owed' >= eth - Owed
    BY <1>1, <1>2, <1>5, <1>6, <1>8, <1>9, <2>1, BondsType, EscrowType DEF Owed
  <2>3. QED
    BY <1>1, <1>10, <1>13, <2>2, SolventKept
<1>15. NoStrandedBond'
  <2>1. ChallengesNow(a, j)'
    BY <1>4, <1>7 DEF ChallengesNow
  <2>2. \A c \in Accounts : MinesNow(c, j) => MinesNow(c, j)'
    BY <1>4, <1>7 DEF MinesNow
  <2>3. jobs[j].status # "disputed"
    BY <1>5
  <2>4. QED
    BY <1>1, <1>5, <1>6, <1>7, <2>1, <2>2, <2>3, NewBondHasRole
<1>16. MintedOnceWithinCap'
  BY <1>1, <1>4, <1>5, <1>7, MintedKept
<1>17. QED
  BY <1>10, <1>12, <1>14, <1>15, <1>16 DEF IInv, BaseInv

(* A job that ends in the given status, with its parties unchanged.        *)
LEMMA EndedFacts ==
  ASSUME TypeOK, RolesOK, NEW j \in Jobs, jobs[j].status \in {"submitted", "disputed"},
         NEW s \in {"complete", "expired"}, jobs' = [jobs EXCEPT ![j] = [@ EXCEPT !.status = s]]
  PROVE  /\ jobs' \in [Jobs -> JobRec] /\ OthersKept(j) /\ RolesOK' /\ PartiesKept
         /\ jobs'[j].status = s
         /\ Total(Escrow') = Total(Escrow) - JOB_FEE
         /\ jobs[j].miner \in Accounts
         /\ jobs[j].status = "disputed" => jobs[j].challenger \in Accounts
<1> DEFINE r == [jobs[j] EXCEPT !.status = s]
<1>1. jobs[j] \in JobRec /\ jobs[j].miner \in Accounts
  BY DEF TypeOK, RolesOK, RoleOK
<1>2. /\ r \in JobRec
      /\ r.status = s /\ r.miner = jobs[j].miner /\ r.challenger = jobs[j].challenger
  BY <1>1 DEF JobRec, Statuses
<1>3. jobs' = [jobs EXCEPT ![j] = r]
  OBVIOUS
<1> HIDE DEF r
<1>4. jobs' \in [Jobs -> JobRec] /\ OthersKept(j) /\ jobs'[j] = r
  BY <1>2, <1>3, OneJobTyped
<1>5. RoleOK(jobs'[j])
  BY <1>1, <1>2, <1>4 DEF RoleOK
<1>6. RolesOK'
  BY <1>4, <1>5, OneRole
<1>7. PartiesKept
  BY <1>2, <1>4 DEF PartiesKept, OthersKept
<1>8. Total(Escrow') = Total(Escrow) - JOB_FEE
  BY <1>2, <1>4, EscrowReleased DEF OthersKept, Unsettled
<1>9. QED
  BY <1>1, <1>2, <1>4, <1>6, <1>7, <1>8 DEF RolesOK, RoleOK

LEMMA MinerLosesInv ==
  ASSUME IInv, NEW j \in Jobs, MinerLoses(j)
  PROVE  IInv'
<1>1. TypeOK /\ RolesOK /\ Solvent /\ NoStrandedBond /\ MintedOnceWithinCap
  BY DEF IInv, BaseInv
<1> DEFINE m == jobs[j].miner
           c == jobs[j].challenger
<1>2. /\ jobs[j].status = "disputed"
      /\ jobs' = [jobs EXCEPT ![j] = [@ EXCEPT !.status = "expired"]]
      /\ Pay(PoolOf(m) + PoolOf(c) + JOB_FEE - Fee)
      /\ protocolFees' = protocolFees + Fee
      /\ pendingBonds' = BondsAfter({m, c})
      /\ UNCHANGED <<tokens, admin>>
  BY DEF MinerLoses, Parties
<1>3. /\ jobs' \in [Jobs -> JobRec] /\ OthersKept(j) /\ RolesOK' /\ PartiesKept
      /\ jobs'[j].status = "expired"
      /\ Total(Escrow') = Total(Escrow) - JOB_FEE
      /\ m \in Accounts /\ c \in Accounts
  BY <1>1, <1>2, EndedFacts
<1>4. \A a \in Accounts : MinesNow(a, j) \/ ChallengesNow(a, j) => a \in {m, c}
  BY DEF MinesNow, ChallengesNow
<1>5. NobodyDisputesItself => m # c
  BY <1>3, AccountsAssumption DEF NobodyDisputesItself
<1> HIDE DEF m, c
<1>6. /\ Fee \in Nat /\ Fee <= JOB_FEE /\ JOB_FEE \in Nat
      /\ eth \in Nat /\ protocolFees \in Nat /\ PoolOf(m) \in Nat /\ PoolOf(c) \in Nat
  <2>1. Fee \in Nat /\ Fee <= JOB_FEE /\ JOB_FEE \in Nat
    BY <1>1, FeeFacts, MoneyAssumption DEF TypeOK
  <2>2. PoolOf(m) \in Nat /\ PoolOf(c) \in Nat
    BY <1>1, <1>3 DEF TypeOK, PoolOf
  <2>3. QED
    BY <1>1, <2>1, <2>2 DEF TypeOK
<1>7. eth' = eth - (PoolOf(m) + PoolOf(c) + JOB_FEE - Fee) /\ eth' \in Nat /\ protocolFees' \in Nat
  BY <1>2, <1>6 DEF Pay
<1>8. pendingBonds' \in [Accounts -> Nat]
  BY <1>1, <1>2 DEF BondsAfter, TypeOK
<1>9. TypeOK'
  <2>1. UNCHANGED <<tokens, admin>>
    BY <1>2
  <2>2. QED
    BY <1>1, <1>3, <1>7, <1>8, <2>1 DEF TypeOK, tokens, admin
<1>10. Solvent'
  <2>1. ASSUME NobodyDisputesItself PROVE eth' - Owed' >= eth - Owed
    <3>1. Total(pendingBonds') = Total(pendingBonds) - PoolOf(m) - PoolOf(c)
      BY <1>1, <1>2, <1>3, <1>5, <2>1, TwoPoolsEmptied
    <3>2. QED
      BY <1>1, <1>2, <1>3, <1>6, <1>7, <3>1, BondsType, EscrowType DEF Owed
  <2>2. QED
    BY <1>1, <1>3, <1>9, <2>1, SolventKept
<1>11. NoStrandedBond'
  BY <1>1, <1>2, <1>3, <1>4, NobodyStranded
<1>12. MintedOnceWithinCap'
  BY <1>1, <1>2, <1>3, MintedKept
<1>13. QED
  BY <1>3, <1>9, <1>10, <1>11, <1>12 DEF IInv, BaseInv
-----------------------------------------------------------------------------
LEMMA ModelTyped ==
  ASSUME TypeOK, NEW j \in Jobs
  PROVE  /\ jobs[j].tokens \in Tokens
         /\ Creator(j) \in AddressOrNone
         /\ modelRegistry[jobs[j].model].royaltyBps \in Shares
<1>1. jobs[j] \in JobRec
  BY DEF TypeOK
<1>2. jobs[j].tokens \in Tokens /\ jobs[j].model \in Models
  BY <1>1 DEF JobRec
<1>3. modelRegistry[jobs[j].model] \in ModelRec
  BY <1>2, Zenon DEF TypeOK
<1>4. \A rec \in ModelRec : rec.creator \in AddressOrNone /\ rec.royaltyBps \in Shares
  BY DEF ModelRec
<1>5. Creator(j) \in AddressOrNone
  BY <1>3, <1>4, Zenon DEF Creator
<1>6. modelRegistry[jobs[j].model].royaltyBps \in Shares
  BY <1>3, <1>4, Zenon
<1>7. QED
  BY <1>2, <1>5, <1>6, Zenon

LEMMA RoyaltyType == ASSUME NEW w \in Nat, NEW b \in Shares
                     PROVE  (w * b) \div 10000 \in Nat
<1>1. b \in Nat
  BY DEF Shares
<1>2. w * b \in Nat
  BY <1>1
<1>3. QED
  BY <1>2

(* _completeJob mints what the cap allows and counts the job.              *)
LEMMA RewardsFacts ==
  ASSUME TypeOK, MintedOnceWithinCap, NEW j \in Jobs, Rewards(j), OthersKept(j),
         jobs[j].status # "complete", jobs'[j].status = "complete", jobs[j].miner \in Accounts
  PROVE  /\ MintedOnceWithinCap'
         /\ earned' \in [Accounts -> Nat] /\ totalMinted' \in Nat /\ jobsCompleted' \in Nat
<1>a. PICK m : m = jobs[j].miner
  OBVIOUS
<1>b. PICK c : c = Creator(j)
  OBVIOUS
<1>c. PICK bps : bps = modelRegistry[jobs[j].model].royaltyBps
  OBVIOUS
<1>d. PICK base : base = Reward(jobs[j].tokens, jobsCompleted + 1)
  OBVIOUS
<1>e. PICK reward : reward = Capped(totalMinted, base)
  OBVIOUS
<1>f. PICK royalty : royalty = IF c = NoOne THEN 0
                               ELSE Capped(totalMinted + reward, (reward * bps) \div 10000)
  OBVIOUS
<1>1. /\ totalMinted'   = totalMinted + reward + royalty
      /\ jobsCompleted' = jobsCompleted + 1
      /\ earned' = [a \in Accounts |-> earned[a]
                        + (IF a = m THEN reward ELSE 0) + (IF a = c THEN royalty ELSE 0)]
  BY <1>a, <1>b, <1>c, <1>d, <1>e, <1>f DEF Rewards
<1>2. /\ totalMinted \in Nat /\ jobsCompleted \in Nat /\ earned \in [Accounts -> Nat]
      /\ totalMinted <= MAX_SUPPLY /\ MAX_SUPPLY \in Nat
  BY RewardAssumption DEF TypeOK, MintedOnceWithinCap
<1>3. jobs[j].tokens \in Tokens /\ c \in AddressOrNone /\ bps \in Shares
  BY <1>b, <1>c, ModelTyped, Zenon
<1>4. reward \in Nat /\ totalMinted + reward <= MAX_SUPPLY
  <2>1. jobsCompleted + 1 \in Nat
    BY <1>2
  <2>2. base \in Nat
    BY <1>3, <1>d, <2>1, RewardType
  <2>3. QED
    BY <1>2, <1>e, <2>2, CappedFacts
<1>5. royalty \in Nat /\ totalMinted + reward + royalty <= MAX_SUPPLY /\ (c = NoOne => royalty = 0)
  <2>1. CASE c = NoOne
    BY <1>2, <1>4, <1>f, <2>1
  <2>2. CASE c # NoOne
    <3>4. (reward * bps) \div 10000 \in Nat
      BY <1>3, <1>4, RoyaltyType
    <3>5. PICK x \in Nat : x = (reward * bps) \div 10000
      BY <3>4
    <3>6. PICK n \in Nat : n = totalMinted + reward
      BY <1>2, <1>4
    <3>7. Capped(n, x) \in Nat /\ n + Capped(n, x) <= MAX_SUPPLY
      BY <1>4, <3>6, CappedFacts
    <3>8. royalty = Capped(n, x)
      BY <1>f, <2>2, <3>5, <3>6
    <3>9. QED
      BY <2>2, <3>6, <3>7, <3>8
  <2>3. QED
    BY <2>1, <2>2
<1>6. m \in Accounts
  BY <1>a
<1>7. \A f \in [Accounts -> Nat] : \A a \in Accounts : \A n \in Nat :
         /\ WithBalance(f, a, f[a] + n) \in [Accounts -> Nat]
         /\ Total(WithBalance(f, a, f[a] + n)) = Total(f) + n
  BY AccountsAssumption, TotalGain
<1>8. PICK g \in [Accounts -> Nat] :
         /\ g = WithBalance(earned, m, earned[m] + reward)
         /\ Total(g) = Total(earned) + reward
  BY <1>2, <1>4, <1>6, <1>7
<1>9. \A a \in Accounts : g[a] = earned[a] + (IF a = m THEN reward ELSE 0)
  BY <1>2, <1>4, <1>6, <1>8 DEF WithBalance
<1>10. earned' \in [Accounts -> Nat] /\ Total(earned') = Total(earned) + reward + royalty
  <2>1. Total(earned) \in Nat
    BY <1>2, AccountsAssumption, TotalType
  <2>2. CASE c = NoOne
    <3>1. earned' = g
      BY <1>1, <1>2, <1>4, <1>5, <1>8, <1>9, <2>2, AccountsAssumption
    <3>2. QED
      BY <1>4, <1>5, <1>8, <2>1, <2>2, <3>1
  <2>3. CASE c # NoOne
    <3>1. c \in Accounts
      BY <1>3, <2>3 DEF AddressOrNone
    <3>2. earned' = WithBalance(g, c, g[c] + royalty)
      <4>1. \A a \in Accounts : earned'[a] = g[a] + (IF a = c THEN royalty ELSE 0)
        BY <1>1, <1>9
      <4>2. \A a \in Accounts : g[a] \in Nat
        BY <1>8
      <4>3. \A a \in Accounts : earned'[a] = (IF a = c THEN g[c] + royalty ELSE g[a])
        BY <1>5, <4>1, <4>2
      <4>4. earned' = [a \in Accounts |-> IF a = c THEN g[c] + royalty ELSE g[a]]
        BY <1>1, <4>3
      <4>5. QED
        BY <1>8, <3>1, <4>4 DEF WithBalance
    <3>3. /\ WithBalance(g, c, g[c] + royalty) \in [Accounts -> Nat]
          /\ Total(WithBalance(g, c, g[c] + royalty)) = Total(g) + royalty
      BY <1>5, <1>7, <3>1
    <3>4. QED
      BY <1>4, <1>5, <1>8, <2>1, <3>2, <3>3
  <2>4. QED
    BY <2>2, <2>3
<1> DEFINE Done == {i \in Jobs : jobs[i].status = "complete"}
<1>11. {i \in Jobs : jobs'[i].status = "complete"} = Done \cup {j} /\ j \notin Done
  BY DEF OthersKept
<1>12. IsFiniteSet(Done)
  BY JobsAssumption, FS_Subset
<1>13. Cardinality(Done \cup {j}) = Cardinality(Done) + 1
  BY <1>11, <1>12, FS_AddElement
<1>14. jobsCompleted' = Cardinality({i \in Jobs : jobs'[i].status = "complete"})
  BY <1>1, <1>11, <1>13 DEF MintedOnceWithinCap
<1>15. Total(earned') = totalMinted' /\ totalMinted' <= MAX_SUPPLY
  BY <1>1, <1>5, <1>10 DEF MintedOnceWithinCap
<1>16. totalMinted' \in Nat /\ jobsCompleted' \in Nat
  BY <1>1, <1>2, <1>4, <1>5
<1>17. QED
  BY <1>10, <1>14, <1>15, <1>16 DEF MintedOnceWithinCap

(* Complete for a job whose parties' pools are emptied with it.            *)
LEMMA CompleteInv ==
  ASSUME IInv, NEW j \in Jobs, jobs[j].status \in {"submitted", "disputed"},
         NEW forfeited \in Nat, Complete(j, forfeited), UNCHANGED admin,
         NEW R, pendingBonds' = BondsAfter(R),
         \A a \in Accounts : MinesNow(a, j) \/ ChallengesNow(a, j) => a \in R,
         NobodyDisputesItself =>
            Total(BondsAfter(R)) = Total(pendingBonds) - PoolOf(jobs[j].miner) - forfeited
  PROVE  IInv'
<1>1. TypeOK /\ RolesOK /\ Solvent /\ NoStrandedBond /\ MintedOnceWithinCap
  BY DEF IInv, BaseInv
<1> DEFINE m == jobs[j].miner
<1>2. /\ jobs' = [jobs EXCEPT ![j] = [@ EXCEPT !.status = "complete"]]
      /\ Rewards(j)
      /\ protocolFees' = protocolFees + Fee + forfeited
      /\ Pay(PoolOf(m) + JOB_FEE - Fee)
  BY DEF Complete
<1>3. /\ jobs' \in [Jobs -> JobRec] /\ OthersKept(j) /\ RolesOK' /\ PartiesKept
      /\ jobs'[j].status = "complete"
      /\ Total(Escrow') = Total(Escrow) - JOB_FEE
      /\ m \in Accounts
  BY <1>1, <1>2, EndedFacts
<1>4. /\ MintedOnceWithinCap'
      /\ earned' \in [Accounts -> Nat] /\ totalMinted' \in Nat /\ jobsCompleted' \in Nat
  BY <1>1, <1>2, <1>3, RewardsFacts
<1>5. NobodyDisputesItself => Total(pendingBonds') = Total(pendingBonds) - PoolOf(m) - forfeited
  OBVIOUS
<1> HIDE DEF m
<1>6. /\ Fee \in Nat /\ Fee <= JOB_FEE /\ JOB_FEE \in Nat
      /\ eth \in Nat /\ protocolFees \in Nat /\ PoolOf(m) \in Nat
  <2>1. Fee \in Nat /\ Fee <= JOB_FEE /\ JOB_FEE \in Nat
    BY <1>1, FeeFacts, MoneyAssumption DEF TypeOK
  <2>2. PoolOf(m) \in Nat
    BY <1>1, <1>3 DEF TypeOK, PoolOf
  <2>3. QED
    BY <1>1, <2>1, <2>2 DEF TypeOK
<1>7. eth' = eth - (PoolOf(m) + JOB_FEE - Fee) /\ eth' \in Nat /\ protocolFees' \in Nat
  BY <1>2, <1>6 DEF Pay
<1>8. pendingBonds' \in [Accounts -> Nat]
  BY <1>1 DEF BondsAfter, TypeOK
<1>9. TypeOK'
  BY <1>1, <1>3, <1>4, <1>7, <1>8 DEF TypeOK, admin
<1>10. Solvent'
  <2>1. ASSUME NobodyDisputesItself PROVE eth' - Owed' >= eth - Owed
    BY <1>1, <1>2, <1>3, <1>5, <1>6, <1>7, <2>1, BondsType, EscrowType DEF Owed
  <2>2. QED
    BY <1>1, <1>3, <1>9, <2>1, SolventKept
<1>11. NoStrandedBond'
  BY <1>1, <1>3, NobodyStranded
<1>12. QED
  BY <1>3, <1>4, <1>9, <1>10, <1>11 DEF IInv, BaseInv

LEMMA FinalizeInv ==
  ASSUME IInv, NEW j \in Jobs, FinalizeJob(j)
  PROVE  IInv'
<1>1. TypeOK /\ RolesOK
  BY DEF IInv, BaseInv
<1>2. /\ jobs[j].status = "submitted" /\ Complete(j, 0) /\ UNCHANGED admin
      /\ pendingBonds' = BondsAfter({jobs[j].miner})
  BY DEF FinalizeJob, Finalizable
<1>3. \A a \in Accounts : MinesNow(a, j) \/ ChallengesNow(a, j) => a \in {jobs[j].miner}
  BY <1>2 DEF MinesNow, ChallengesNow
<1>4. PICK m \in Accounts : m = jobs[j].miner
  BY <1>1, <1>2 DEF RolesOK, RoleOK
<1>5. Total(BondsAfter({m})) = Total(pendingBonds) - PoolOf(m) - 0
  BY <1>1, OnePoolEmptied, BondsType
<1>6. Total(BondsAfter({jobs[j].miner})) = Total(pendingBonds) - PoolOf(jobs[j].miner) - 0
  BY <1>4, <1>5, Zenon
<1>7. QED
  BY <1>2, <1>3, <1>6, CompleteInv

LEMMA MinerWinsInv ==
  ASSUME IInv, NEW j \in Jobs, MinerWins(j)
  PROVE  IInv'
<1>1. TypeOK /\ RolesOK
  BY DEF IInv, BaseInv
<1>2. PICK lost : lost = IF jobs[j].challenger = jobs[j].miner THEN 0 ELSE PoolOf(jobs[j].challenger)
  OBVIOUS
<1>3. /\ jobs[j].status = "disputed" /\ Complete(j, lost) /\ UNCHANGED admin
      /\ pendingBonds' = BondsAfter(Parties(j))
  BY <1>2 DEF MinerWins
<1>4. \A a \in Accounts : MinesNow(a, j) \/ ChallengesNow(a, j) => a \in Parties(j)
  BY DEF MinesNow, ChallengesNow, Parties
<1>5. PICK m \in Accounts, c \in Accounts : m = jobs[j].miner /\ c = jobs[j].challenger
  BY <1>1, <1>3 DEF RolesOK, RoleOK
<1>6. lost \in Nat
  BY <1>1, <1>2, <1>5, OnePoolEmptied
<1>7. NobodyDisputesItself =>
         Total(BondsAfter(Parties(j))) = Total(pendingBonds) - PoolOf(jobs[j].miner) - lost
  <2>1. SUFFICES ASSUME NobodyDisputesItself
                 PROVE  Total(BondsAfter({m, c})) = Total(pendingBonds) - PoolOf(m) - lost
    BY <1>5, Zenon DEF Parties
  <2>2. m # c
    BY <1>5, <2>1, AccountsAssumption DEF NobodyDisputesItself
  <2>3. lost = PoolOf(c)
    BY <1>2, <1>5, <2>2
  <2>4. QED
    BY <1>1, <2>2, <2>3, TwoPoolsEmptied
<1>8. QED
  BY <1>3, <1>4, <1>6, <1>7, CompleteInv

(* One action of the contract at a time.                                   *)
LEMMA NextInv == IInv /\ [Next]_vars => IInv'
<1> SUFFICES ASSUME IInv, [Next]_vars PROVE IInv'
  OBVIOUS
<1>1. CASE Tick
  BY <1>1, TickInv
<1>2. CASE Administer
  BY <1>2, WithdrawInv, AdminInv DEF Administer
<1>3. ASSUME NEW j \in Jobs, Work(j) PROVE IInv'
  <2>1. CASE \E a \in Accounts, t \in Tokens, m \in Models, tip \in Tips : PostJob(a, j, t, m, tip)
    BY <2>1, PostJobInv
  <2>2. CASE \E a \in Accounts, tip \in Tips : ClaimJob(a, j, tip)
    BY <2>2, ClaimJobInv
  <2>3. CASE SubmitResult(j)
    BY <2>3, SubmitResultInv
  <2>4. CASE \E a \in Accounts, tip \in Tips : ChallengeResult(a, j, tip)
    BY <2>4, ChallengeResultInv
  <2>5. QED
    BY <1>3, <2>1, <2>2, <2>3, <2>4 DEF Work
<1>4. ASSUME NEW j \in Jobs, Settle(j) PROVE IInv'
  <2>1. CASE FinalizeJob(j)
    BY <2>1, FinalizeInv
  <2>2. CASE MinerWins(j)
    BY <2>2, MinerWinsInv
  <2>3. CASE MinerLoses(j)
    BY <2>3, MinerLosesInv
  <2>4. CASE ReclaimUnclaimed(j)
    BY <2>4, ReclaimUnclaimedInv
  <2>5. CASE ReclaimUnanswered(j)
    BY <2>5, ReclaimUnansweredInv
  <2>6. QED
    BY <1>4, <2>1, <2>2, <2>3, <2>4, <2>5 DEF Settle, ResolveDispute, ResolveExpiredDispute
<1>5. CASE UNCHANGED vars
  <2>1. UNCHANGED <<jobs, money, tokens>> /\ TypeOK'
    BY <1>5 DEF IInv, BaseInv, TypeOK, vars, money, tokens
  <2>2. QED
    BY <2>1, QuietAdminInv
<1>6. QED
  BY <1>1, <1>2, <1>3, <1>4, <1>5 DEF Next

THEOREM MarketInvariant == Spec => []IInv
<1>1. Init => IInv
  BY InitInv
<1>2. IInv /\ [Next]_vars => IInv'
  BY NextInv
<1>3. QED
  BY <1>1, <1>2, PTL DEF Spec

(* Every variable of the market keeps its type.                            *)
THEOREM MarketTypeCorrect == Spec => []TypeOK
<1>1. IInv => TypeOK
  BY DEF IInv, BaseInv
<1>2. QED
  BY <1>1, MarketInvariant, PTL

(* The contract's ETH covers the bonds, the owner's fees and the fees of   *)
(* the jobs in progress, as long as no miner challenges its own result.    *)
THEOREM BooksCovered == Spec => []Solvent
<1>1. IInv => Solvent
  BY DEF IInv
<1>2. QED
  BY <1>1, MarketInvariant, PTL

(* Whoever has a bond in the contract has a role that will end.            *)
THEOREM BondsHaveRoles == Spec => []NoStrandedBond
<1>1. IInv => NoStrandedBond
  BY DEF IInv
<1>2. QED
  BY <1>1, MarketInvariant, PTL

(* Tokens are minted for completed jobs only, once each, below the cap.    *)
THEOREM SupplyWithinCap == Spec => []MintedOnceWithinCap
<1>1. IInv => MintedOnceWithinCap
  BY DEF IInv
<1>2. QED
  BY <1>1, MarketInvariant, PTL
-----------------------------------------------------------------------------
(* PunishedForCause, one action at a time: a pool is emptied only by the   *)
(* end of a job in which its address has a role, or by a reclaim.          *)
PoolDrops(a) == pendingBonds'[a] < pendingBonds[a]

HasCause(a, j) ==
    \/ jobs'[j].status = "complete" /\ (MinesNow(a, j) \/ ChallengesNow(a, j))
    \/ jobs'[j].status = "expired" /\ (MinesNow(a, j) \/ ChallengesNow(a, j))
    \/ /\ MinesNow(a, j) /\ jobs[j].status = "claimed"
       /\ jobs[j].posted >= LastPosted

LEMMA EmptiedPools ==
  ASSUME TypeOK, NEW roles, pendingBonds' = BondsAfter(roles), NEW a \in Accounts, PoolDrops(a)
  PROVE  a \in roles
<1> SUFFICES ASSUME a \notin roles PROVE FALSE
  OBVIOUS
<1>1. pendingBonds'[a] = pendingBonds[a] /\ pendingBonds[a] \in Nat
  BY DEF BondsAfter, TypeOK
<1>2. QED
  BY <1>1 DEF PoolDrops

LEMMA PooledBond ==
  ASSUME TypeOK, NEW b \in Accounts, NEW bond \in Nat, PoolBond(b, bond), NEW a \in Accounts
  PROVE  ~ PoolDrops(a)
<1>1. pendingBonds[a] \in Nat
  BY DEF TypeOK
<1>2. pendingBonds'[a] = pendingBonds[a] \/ pendingBonds'[a] = pendingBonds[a] + bond
  BY DEF PoolBond, TypeOK
<1>3. QED
  BY <1>1, <1>2 DEF PoolDrops

LEMMA KeptPool ==
  ASSUME TypeOK, pendingBonds' = pendingBonds, NEW a \in Accounts
  PROVE  ~ PoolDrops(a)
<1>1. pendingBonds[a] \in Nat
  BY DEF TypeOK
<1>2. QED
  BY <1>1 DEF PoolDrops

LEMMA CauseStep ==
  ASSUME IInv, [Next]_vars, NEW a \in Accounts, PoolDrops(a)
  PROVE  \E j \in Jobs : HasCause(a, j)
<1> USE DEF IInv, BaseInv
<1>1. pendingBonds' # pendingBonds
  BY KeptPool
<1>2. ASSUME NEW j \in Jobs, Work(j) PROVE FALSE
  <2>1. CASE \E b \in Accounts, tip \in Tips : ClaimJob(b, j, tip) \/ ChallengeResult(b, j, tip)
    <3>1. PICK b \in Accounts, tip \in Tips : PoolBond(b, MINER_BOND + tip)
      BY <2>1 DEF ClaimJob, ChallengeResult
    <3>2. MINER_BOND + tip \in Nat
      BY MoneyAssumption, PeriodsAssumption
    <3>3. QED
      BY <3>1, <3>2, PooledBond
  <2>2. QED
    BY <1>1, <1>2, <2>1 DEF Work, PostJob, SubmitResult, money
<1>3. ASSUME NEW j \in Jobs, Settle(j) PROVE HasCause(a, j)
  <2>1. jobs \in [Jobs -> JobRec]
    BY DEF TypeOK
  <2>2. CASE FinalizeJob(j)
    <3>1. a = jobs[j].miner
      BY <2>2, EmptiedPools DEF FinalizeJob
    <3>2. jobs'[j].status = "complete" /\ jobs[j].status = "submitted"
      BY <2>1, <2>2 DEF FinalizeJob, Complete, Finalizable, JobRec
    <3>3. QED
      BY <3>1, <3>2 DEF HasCause, MinesNow
  <2>3. CASE MinerWins(j) \/ MinerLoses(j)
    <3>1. a \in Parties(j)
      BY <2>3, EmptiedPools DEF MinerWins, MinerLoses
    <3>2. jobs'[j].status \in {"complete", "expired"} /\ jobs[j].status = "disputed"
      BY <2>1, <2>3 DEF MinerWins, MinerLoses, Complete, JobRec
    <3>3. QED
      BY <3>1, <3>2 DEF HasCause, MinesNow, ChallengesNow, Parties
  <2>4. CASE ReclaimUnanswered(j)
    <3>1. a = jobs[j].miner
      BY <2>4, EmptiedPools DEF ReclaimUnanswered
    <3>2. jobs[j].status = "claimed" /\ jobs[j].posted > CLAIM_WINDOW + SUBMIT_DEADLINE
      BY <2>4 DEF ReclaimUnanswered, Overdue
    <3>3. jobs[j].posted >= LastPosted
      BY <2>1, <3>2, MoneyAssumption, PeriodsAssumption DEF LastPosted, JobRec
    <3>4. QED
      BY <3>1, <3>2, <3>3 DEF HasCause, MinesNow
  <2>5. CASE ReclaimUnclaimed(j)
    BY <1>1, <2>5 DEF ReclaimUnclaimed, money
  <2>6. QED
    BY <1>3, <2>2, <2>3, <2>4, <2>5 DEF Settle, ResolveDispute, ResolveExpiredDispute
<1>4. ~ Tick /\ ~ Administer /\ ~ UNCHANGED vars
  BY <1>1 DEF Tick, Administer, WithdrawProtocolFees, SetPaused, SetProtocolFeeBps,
              RegisterModel, vars, money
<1>5. QED
  BY <1>2, <1>3, <1>4 DEF Next

(* Bonds are lost for a cause only, for any accounts, jobs, windows and    *)
(* amounts: to a lost dispute, a lost challenge, or a missed deadline.     *)
THEOREM BondsLostForCause == Spec => PunishedForCause
<1> DEFINE Just == \A a \in Accounts : pendingBonds'[a] < pendingBonds[a] =>
                     \E j \in Jobs :
                        \/ jobs'[j].status = "complete" /\ (MinesNow(a, j) \/ ChallengesNow(a, j))
                        \/ jobs'[j].status = "expired" /\ (MinesNow(a, j) \/ ChallengesNow(a, j))
                        \/ /\ MinesNow(a, j) /\ jobs[j].status = "claimed"
                           /\ jobs[j].posted >= LastPosted
<1>1. IInv /\ [Next]_vars => Just
  BY CauseStep DEF PoolDrops, HasCause
<1>2. Spec => [][Just]_vars
  BY <1>1, MarketInvariant, PTL DEF Spec
<1>3. QED
  BY <1>2 DEF PunishedForCause
-----------------------------------------------------------------------------
\* How the status of a claimed job moves.
Settlements == {<<"claimed", "submitted">>, <<"submitted", "disputed">>, <<"submitted", "complete">>,
                <<"disputed", "complete">>, <<"disputed", "expired">>}

(* How a step that posts and reopens nothing changes a job.                *)
Onward(j) ==
    \/ /\ jobs'[j].status = jobs[j].status
       /\ jobs'[j].miner = jobs[j].miner
       /\ jobs'[j].submitted >= jobs[j].submitted
    \/ jobs[j].status = "open" /\ jobs'[j].status = "claimed"
    \/ /\ jobs'[j].miner = jobs[j].miner
       /\ <<jobs[j].status, jobs'[j].status>> \in Settlements

AllOnward == \A j \in Jobs : Onward(j)

OthersSame(k) == \A j \in Jobs \ {k} : jobs'[j] = jobs[j]

LEMMA SameOnward == ASSUME TypeOK, NEW j \in Jobs, jobs'[j] = jobs[j]
                    PROVE  Onward(j)
  BY DEF Onward, TypeOK, JobRec, LastSubmitted

LEMMA OneOnward ==
  ASSUME TypeOK, NEW k \in Jobs, NEW r,
         jobs' = [jobs EXCEPT ![k] = r],
         \/ jobs[k].status = "open" /\ r.status = "claimed"
         \/ /\ r.miner = jobs[k].miner
            /\ <<jobs[k].status, r.status>> \in Settlements
  PROVE  AllOnward
<1> SUFFICES ASSUME NEW j \in Jobs PROVE Onward(j)
  BY DEF AllOnward
<1>1. CASE j = k
  BY <1>1 DEF Onward, TypeOK
<1>2. CASE j # k
  BY <1>2, SameOnward DEF TypeOK
<1> QED
  BY <1>1, <1>2

LEMMA TickOnward == ASSUME TypeOK, Tick PROVE AllOnward
<1> SUFFICES ASSUME NEW j \in Jobs PROVE Onward(j)
  BY DEF AllOnward
<1>1. jobs[j] \in JobRec /\ jobs[j].submitted \in Int
  BY DEF TypeOK, JobRec
<1>2. /\ jobs'[j].status = jobs[j].status /\ jobs'[j].miner = jobs[j].miner
      /\ jobs'[j].submitted = IF jobs[j].status \in {"submitted", "disputed"}
                                 /\ jobs[j].submitted < LastSubmitted
                              THEN jobs[j].submitted + 1 ELSE jobs[j].submitted
  BY <1>1 DEF Tick, JobRec
<1> QED
  BY <1>1, <1>2 DEF Onward

LEMMA WorkOnward ==
  ASSUME TypeOK, NEW j \in Jobs,
         \/ \E a \in Accounts, tip \in Tips : ClaimJob(a, j, tip) \/ ChallengeResult(a, j, tip)
         \/ SubmitResult(j) \/ FinalizeJob(j) \/ ResolveDispute(j) \/ ResolveExpiredDispute(j)
  PROVE  AllOnward
<1>0. jobs[j] \in JobRec
  BY DEF TypeOK
<1>1. CASE \E a \in Accounts, tip \in Tips : ClaimJob(a, j, tip)
  <2>1. PICK a \in Accounts, tip \in Tips : ClaimJob(a, j, tip)
    BY <1>1
  <2> DEFINE r == [jobs[j] EXCEPT !.status = "claimed", !.miner = a]
  <2>2. jobs' = [jobs EXCEPT ![j] = r] /\ jobs[j].status = "open"
    BY <2>1 DEF ClaimJob
  <2>3. r.status = "claimed"
    BY <1>0 DEF JobRec
  <2> QED
    BY <2>2, <2>3, OneOnward DEF Settlements
<1>2. CASE \E a \in Accounts, tip \in Tips : ChallengeResult(a, j, tip)
  <2>1. PICK a \in Accounts, tip \in Tips : ChallengeResult(a, j, tip)
    BY <1>2
  <2> DEFINE r == [jobs[j] EXCEPT !.status = "disputed", !.challenger = a]
  <2>2. jobs' = [jobs EXCEPT ![j] = r] /\ jobs[j].status = "submitted"
    BY <2>1 DEF ChallengeResult, Challengeable
  <2>3. r.status = "disputed" /\ r.miner = jobs[j].miner
    BY <1>0 DEF JobRec
  <2> QED
    BY <2>2, <2>3, OneOnward DEF Settlements
<1>3. CASE SubmitResult(j)
  <2> DEFINE r == [jobs[j] EXCEPT !.status = "submitted", !.submitted = 0]
  <2>2. jobs' = [jobs EXCEPT ![j] = r] /\ jobs[j].status = "claimed"
    BY <1>3 DEF SubmitResult
  <2>3. r.status = "submitted" /\ r.miner = jobs[j].miner
    BY <1>0 DEF JobRec
  <2> QED
    BY <2>2, <2>3, OneOnward DEF Settlements
<1> DEFINE c == [jobs[j] EXCEPT !.status = "complete"]
           e == [jobs[j] EXCEPT !.status = "expired"]
<1>4. /\ c.status = "complete" /\ c.miner = jobs[j].miner
      /\ e.status = "expired" /\ e.miner = jobs[j].miner
  BY <1>0 DEF JobRec
<1>5. CASE FinalizeJob(j)
  <2>1. jobs' = [jobs EXCEPT ![j] = c] /\ jobs[j].status = "submitted"
    BY <1>5 DEF FinalizeJob, Complete, Finalizable
  <2> QED
    BY <1>4, <2>1, OneOnward DEF Settlements
<1>6. CASE MinerWins(j)
  <2>1. jobs' = [jobs EXCEPT ![j] = c] /\ jobs[j].status = "disputed"
    BY <1>6 DEF MinerWins, Complete
  <2> QED
    BY <1>4, <2>1, OneOnward DEF Settlements
<1>7. CASE MinerLoses(j)
  <2>1. jobs' = [jobs EXCEPT ![j] = e] /\ jobs[j].status = "disputed"
    BY <1>7 DEF MinerLoses
  <2> QED
    BY <1>4, <2>1, OneOnward DEF Settlements
<1> QED
  BY <1>1, <1>2, <1>3, <1>5, <1>6, <1>7 DEF ResolveDispute, ResolveExpiredDispute

LEMMA ReclaimedJob ==
  ASSUME TypeOK, NEW j \in Jobs, ReclaimUnclaimed(j) \/ ReclaimUnanswered(j)
  PROVE  /\ OthersSame(j)
         /\ jobs[j].status \in {"open", "claimed"}
         /\ jobs'[j].status = "open" /\ jobs'[j].miner = NoOne
<1>1. jobs' = Reopened(j) /\ jobs[j].status \in {"open", "claimed"}
  BY DEF ReclaimUnclaimed, ReclaimUnanswered
<1> QED
  BY <1>1 DEF Reopened, OthersSame, TypeOK, JobRec

LEMMA PostedJob ==
  ASSUME TypeOK, NEW a, NEW k \in Jobs, NEW t, NEW m, NEW tip, PostJob(a, k, t, m, tip)
  PROVE  /\ OthersSame(k)
         /\ jobs[k].status = "none"
         /\ jobs'[k].status = "open" /\ jobs'[k].miner = NoOne
  BY DEF PostJob, BlankJob, OthersSame, TypeOK
-----------------------------------------------------------------------------
LEMMA NextJobUnposted == ASSUME Unposted # {}
                         PROVE  NextJob \in Unposted /\ NextJob \in Jobs
<1>1. Unposted \subseteq Nat
  BY JobIds DEF Unposted
<1>2. \E j \in Unposted : \A i \in Unposted : j <= i
  BY <1>1, LeastElement
<1> QED
  BY <1>2 DEF NextJob, Unposted
-----------------------------------------------------------------------------
(* The miner daemon and the client.                                        *)
Stages   == {"idle", "claim", "infer", "submit", "wait", "finalize"}
ProcRec  == [at : Stages, tries : 0 .. MinerRetries - 1]
Requested == {"post", "poll", "answered", "error", "timeout", "failed"}
ReqRec   == [at : Requested, tries : 0 .. ClientRetries - 1, job : SUBSET Jobs]

(* The types, with the ranges of the retries.                              *)
ClientsTyped ==
    /\ pool \in [{Miner, Client} -> Seq(Calls)]
    /\ active \subseteq Jobs /\ seen \subseteq Jobs
    /\ proc \in [Jobs -> ProcRec]
    /\ req \in [Requests -> ReqRec]

(* The miner works on as many jobs as it has slots.                        *)
SlotsKept == Cardinality(active) <= max_jobs

(* A request polls one job.                                                *)
PollsOne == \A q \in Requests : req[q].at = "poll" => \E j \in Jobs : req[q].job = {j}

(* A job nobody claimed has no miner: a claim lost in a reclaim is gone.   *)
OpenUnclaimed == \A j \in Jobs : jobs[j].status \in {"none", "open"} => jobs[j].miner = NoOne

(* The result of a job the miner waits for was submitted, and stays so.    *)
SettlesSubmitted ==
    \A j \in Jobs : proc[j].at \in {"wait", "finalize"}
       => jobs[j].status \in {"submitted", "disputed", "complete", "expired"}

(* Unless a receipt was late, no post is on its way between two steps.     *)
NoLatePost ==
    ~ late => \A a \in {Miner, Client} : \A i \in 1 .. Len(pool[a]) : pool[a][i].fn # "post"

(* Then there are no more jobs than requests that are past posting.        *)
Through == {q \in Requests : req[q].at # "post"}
OneEach == ~ late => Cardinality(Posted) <= Cardinality(Through)

(* None of these is inductive alone: what the miner works on rests on the  *)
(* jobs' roles in the contract, what the client pays on its late posts.    *)
OwnInv ==
    /\ ClientsTyped /\ SlotsKept /\ PollsOne
    /\ OpenUnclaimed /\ WorksOnOwnClaims
    /\ SettlesSubmitted /\ FinalizeNotEarly
    /\ NoLatePost /\ OneEach /\ AnswerIsFinal

ClientsInv == IInv /\ OwnInv
-----------------------------------------------------------------------------
Settling == {"submitted", "disputed", "complete", "expired"}

\* What a step may do to the jobs, as the miner and the client see it.
ChainStep ==
    /\ TypeOK' /\ OpenUnclaimed'
    /\ \A j \in Jobs :
          /\ jobs[j].miner = Miner => jobs'[j].miner = Miner \/ j \in reopened'
          /\ jobs[j].status \in Settling => jobs'[j].status \in Settling
          /\ jobs[j].status = "complete" => jobs'[j].status = "complete"
          /\ jobs[j].status \in Settling /\ jobs'[j].status = "submitted"
               => jobs[j].status = "submitted" /\ jobs'[j].submitted >= jobs[j].submitted

LEMMA MinerIsSomeone == Miner \in Accounts /\ Miner # NoOne
  BY Clients, AccountsAssumption

LEMMA OnwardChain ==
  ASSUME TypeOK, TypeOK', OpenUnclaimed, AllOnward
  PROVE  ChainStep /\ Posted' = Posted
<1>1. \A j \in Jobs : jobs[j] \in JobRec /\ jobs'[j] \in JobRec
  BY DEF TypeOK
<1>2. OpenUnclaimed'
  <2> SUFFICES ASSUME NEW j \in Jobs, jobs'[j].status \in {"none", "open"}
               PROVE  jobs'[j].miner = NoOne
    BY DEF OpenUnclaimed
  <2> QED
    BY DEF AllOnward, Onward, Settlements, OpenUnclaimed
<1>3. ASSUME NEW j \in Jobs
      PROVE  /\ jobs[j].miner = Miner => jobs'[j].miner = Miner
             /\ jobs[j].status \in Settling => jobs'[j].status \in Settling
             /\ jobs[j].status = "complete" => jobs'[j].status = "complete"
             /\ jobs[j].status \in Settling /\ jobs'[j].status = "submitted"
                  => jobs[j].status = "submitted" /\ jobs'[j].submitted >= jobs[j].submitted
             /\ jobs[j].status # "none" <=> jobs'[j].status # "none"
  <2>1. Onward(j)
    BY DEF AllOnward
  <2>2. CASE /\ jobs'[j].status = jobs[j].status
             /\ jobs'[j].miner = jobs[j].miner
             /\ jobs'[j].submitted >= jobs[j].submitted
    BY <2>2
  <2>3. CASE jobs[j].status = "open" /\ jobs'[j].status = "claimed"
    BY <2>3, MinerIsSomeone DEF OpenUnclaimed, Settling
  <2>4. CASE /\ jobs'[j].miner = jobs[j].miner
             /\ <<jobs[j].status, jobs'[j].status>> \in Settlements
    BY <2>4 DEF Settling, Settlements
  <2> QED
    BY <2>1, <2>2, <2>3, <2>4 DEF Onward
<1> QED
  BY <1>2, <1>3 DEF ChainStep, Posted

LEMMA SameChain ==
  ASSUME TypeOK, OpenUnclaimed, UNCHANGED vars
  PROVE  ChainStep /\ Posted' = Posted
<1>1. TypeOK' /\ jobs' = jobs
  BY DEF TypeOK, vars
<1>2. AllOnward
  BY <1>1, SameOnward DEF AllOnward
<1> QED
  BY <1>1, <1>2, OnwardChain

LEMMA PostedChain ==
  ASSUME TypeOK, TypeOK', OpenUnclaimed, NEW a, NEW k \in Jobs, NEW t, NEW m, NEW tip,
         PostJob(a, k, t, m, tip)
  PROVE  ChainStep /\ Posted' = Posted \cup {k} /\ k \notin Posted
<1>1. /\ OthersSame(k) /\ jobs[k].status = "none"
      /\ jobs'[k].status = "open" /\ jobs'[k].miner = NoOne
  BY PostedJob
<1>2. \A j \in Jobs : jobs[j] \in JobRec /\ jobs'[j] \in JobRec
  BY DEF TypeOK
<1>3. OpenUnclaimed'
  BY <1>1 DEF OpenUnclaimed, OthersSame
<1>4. ASSUME NEW j \in Jobs
      PROVE  /\ jobs[j].miner = Miner => jobs'[j].miner = Miner
             /\ jobs[j].status \in Settling => jobs'[j].status \in Settling
             /\ jobs[j].status = "complete" => jobs'[j].status = "complete"
             /\ jobs[j].status \in Settling /\ jobs'[j].status = "submitted"
                  => jobs[j].status = "submitted" /\ jobs'[j].submitted >= jobs[j].submitted
  <2>1. CASE j = k
    BY <1>1, <2>1, MinerIsSomeone DEF Settling, OpenUnclaimed
  <2>2. CASE j # k
    <3>1. jobs'[j] = jobs[j] /\ jobs[j].submitted \in Int
      BY <1>1, <1>2, <2>2 DEF OthersSame, JobRec
    <3> QED
      BY <3>1
  <2> QED
    BY <2>1, <2>2
<1>5. Posted' = Posted \cup {k} /\ k \notin Posted
  BY <1>1 DEF OthersSame, Posted
<1> QED
  BY <1>3, <1>4, <1>5 DEF ChainStep

LEMMA ReclaimedChain ==
  ASSUME TypeOK, TypeOK', OpenUnclaimed, NEW k \in Jobs, k \in reopened',
         ReclaimUnclaimed(k) \/ ReclaimUnanswered(k)
  PROVE  ChainStep /\ Posted' = Posted
<1>1. /\ OthersSame(k) /\ jobs[k].status \in {"open", "claimed"}
      /\ jobs'[k].status = "open" /\ jobs'[k].miner = NoOne
  BY ReclaimedJob
<1>2. \A j \in Jobs : jobs[j] \in JobRec /\ jobs'[j] \in JobRec
  BY DEF TypeOK
<1>3. OpenUnclaimed'
  BY <1>1 DEF OpenUnclaimed, OthersSame
<1>4. ASSUME NEW j \in Jobs
      PROVE  /\ jobs[j].miner = Miner => jobs'[j].miner = Miner \/ j \in reopened'
             /\ jobs[j].status \in Settling => jobs'[j].status \in Settling
             /\ jobs[j].status = "complete" => jobs'[j].status = "complete"
             /\ jobs[j].status \in Settling /\ jobs'[j].status = "submitted"
                  => jobs[j].status = "submitted" /\ jobs'[j].submitted >= jobs[j].submitted
  <2>1. CASE j = k
    BY <1>1, <2>1 DEF Settling
  <2>2. CASE j # k
    <3>1. jobs'[j] = jobs[j] /\ jobs[j].submitted \in Int
      BY <1>1, <1>2, <2>2 DEF OthersSame, JobRec
    <3> QED
      BY <3>1
  <2> QED
    BY <2>1, <2>2
<1>5. Posted' = Posted
  BY <1>1 DEF OthersSame, Posted
<1> QED
  BY <1>3, <1>4, <1>5 DEF ChainStep
-----------------------------------------------------------------------------
\* Where a step may move the miner's task of a job.
TaskStep(j) ==
    \/ proc'[j].at \in {"idle", "claim"} \cup {proc[j].at}
    \/ proc'[j].at = "infer" /\ jobs'[j].miner = Miner
    \/ proc'[j].at = "submit" /\ proc[j].at = "infer"
    \/ proc'[j].at = "wait" /\ jobs'[j].status \in Settling
    \/ proc'[j].at = "finalize" /\ proc[j].at = "wait" /\ Waited(j) /\ jobs' = jobs

LEMMA TasksKept ==
  ASSUME ClientsInv, ChainStep, reopened \subseteq reopened',
         \A j \in Jobs : TaskStep(j)
  PROVE  WorksOnOwnClaims' /\ SettlesSubmitted' /\ FinalizeNotEarly'
<1> USE DEF ClientsInv, OwnInv
<1>1. \A j \in Jobs : jobs[j] \in JobRec /\ jobs'[j] \in JobRec
  BY DEF ChainStep, TypeOK, IInv, BaseInv
<1>2. WorksOnOwnClaims'
  <2> SUFFICES ASSUME NEW j \in Jobs, proc'[j].at \in {"infer", "submit"}
               PROVE  jobs'[j].miner = Miner \/ j \in reopened'
    BY DEF WorksOnOwnClaims
  <2> QED
    BY DEF TaskStep, WorksOnOwnClaims, ChainStep
<1>3. SettlesSubmitted'
  <2> SUFFICES ASSUME NEW j \in Jobs, proc'[j].at \in {"wait", "finalize"}
               PROVE  jobs'[j].status \in Settling
    BY DEF SettlesSubmitted, Settling
  <2>1. proc[j].at \in {"wait", "finalize"} => jobs[j].status \in Settling
    BY DEF SettlesSubmitted, Settling
  <2> QED
    BY <2>1 DEF TaskStep, ChainStep
<1>4. FinalizeNotEarly'
  <2> SUFFICES ASSUME NEW j \in Jobs, proc'[j].at = "finalize", jobs'[j].status = "submitted"
               PROVE  jobs'[j].submitted > CHALLENGE_PERIOD
    BY DEF FinalizeNotEarly, Finalizable
  <2>0. jobs[j].submitted \in Int /\ jobs'[j].submitted \in Int /\ CHALLENGE_PERIOD \in Int
    BY <1>1, PeriodsAssumption DEF JobRec
  <2>1. CASE proc[j].at = "finalize"
    <3>1. jobs[j].status \in Settling
      BY <2>1 DEF SettlesSubmitted, Settling
    <3>2. jobs[j].status = "submitted" /\ jobs'[j].submitted >= jobs[j].submitted
      BY <3>1 DEF ChainStep
    <3>3. jobs[j].submitted > CHALLENGE_PERIOD
      BY <2>1, <3>2 DEF FinalizeNotEarly, Finalizable
    <3> QED
      BY <2>0, <3>2, <3>3
  <2>2. CASE proc[j].at # "finalize"
    <3>1. Waited(j) /\ jobs' = jobs
      BY <2>2 DEF TaskStep
    <3>2. jobs[j].submitted >= challenge_wait
      BY <3>1 DEF Waited
    <3> QED
      BY <2>0, <3>1, <3>2, Waits
  <2> QED
    BY <2>1, <2>2
<1> QED
  BY <1>2, <1>3, <1>4
-----------------------------------------------------------------------------
(* The composition takes only steps of the market.                         *)
LEMMA AcceptedCall ==
  ASSUME ClientsInv, NEW c, c.fn = "post" \/ c.job \in Jobs, Executed(c),
         c.fn = "post" => Unposted # {}
  PROVE  Next
<1> USE Exact, Clients
<1>1. CASE c.fn = "post"
  <2>1. NextJob \in Jobs
    BY <1>1, NextJobUnposted
  <2>2. \E t \in Tokens, m \in Models : PostJob(Client, NextJob, t, m, 0)
    BY <1>1 DEF Executed
  <2> QED
    BY <2>1, <2>2 DEF Next, Work
<1>2. CASE c.fn # "post"
  <2>1. c.job \in Jobs /\ (ClaimJob(Miner, c.job, 0) \/ SubmitResult(c.job) \/ FinalizeJob(c.job))
    BY <1>2 DEF Executed
  <2>2. Work(c.job) \/ Settle(c.job)
    BY <2>1 DEF Work, Settle
  <2> QED
    BY <2>1, <2>2 DEF Next
<1> QED
  BY <1>1, <1>2

LEMMA QueuedCall ==
  ASSUME ClientsTyped, NEW a \in {Miner, Client}, pool[a] # <<>>
  PROVE  /\ Head(pool[a]) \in Calls /\ Tail(pool[a]) \in Seq(Calls)
         /\ Len(pool[a]) \in Nat \ {0} /\ Head(pool[a]) = pool[a][1]
         /\ Len(Tail(pool[a])) = Len(pool[a]) - 1
         /\ \A i \in 1 .. Len(Tail(pool[a])) : Tail(pool[a])[i] = pool[a][i + 1]
<1>1. pool[a] \in Seq(Calls)
  BY DEF ClientsTyped
<1> QED
  BY <1>1

LEMMA CallKinds ==
  ASSUME NEW c \in Calls
  PROVE  c.fn = "post" \/ (c.fn \in {"claim", "submit", "finalize"} /\ c.job \in Jobs)
  BY DEF Calls, PostCall

LEMMA MarketNext ==
  ASSUME ClientsInv, [ClientsNext]_allVars
  PROVE  [Next]_vars
<1> USE Exact, Clients
<1>1. CASE Market
  <2>1. CASE Tick
    BY <2>1 DEF Next
  <2>2. CASE \E j \in Jobs : \/ ClaimJob(Other, j, 0)
                             \/ ChallengeResult(Other, j, 0)
                             \/ ResolveDispute(j) \/ ResolveExpiredDispute(j)
    <3>1. \E j \in Jobs : Work(j) \/ Settle(j)
      BY <2>2 DEF Work, Settle
    <3> QED
      BY <3>1 DEF Next
  <2> QED
    BY <1>1, <2>1, <2>2 DEF Market
<1>2. CASE \E a \in {Miner, Client} : Mine(a)
  <2>1. PICK a \in {Miner, Client} : Mine(a)
    BY <1>2
  <2> DEFINE c == Head(pool[a])
  <2>2. pool[a] # <<>> /\ IF Accepts(c) THEN Executed(c) ELSE UNCHANGED vars
    BY <2>1 DEF Mine
  <2>3. c.fn = "post" \/ c.job \in Jobs
    BY <2>2, QueuedCall, CallKinds DEF ClientsInv, OwnInv
  <2>4. CASE Accepts(c)
    <3>1. c.fn = "post" => Unposted # {}
      BY <2>4 DEF Accepts
    <3> HIDE DEF c
    <3> QED
      BY <2>2, <2>3, <2>4, <3>1, AcceptedCall
  <2> QED
    BY <2>2, <2>4
<1>3. ASSUME NEW j \in Jobs, MinerStep(j) \/ SendUnseen(j) \/ Reclaim(j)
      PROVE  [Next]_vars
  <2>1. CASE SendMined(j)
    <3> DEFINE c == Wanted(j)
    <3>1. c.fn # "post" /\ c.job \in Jobs
      BY <2>1 DEF SendMined, Sending, Wanted
    <3>2. Executed(c) \/ UNCHANGED vars
      BY <2>1 DEF SendMined
    <3> HIDE DEF c
    <3> QED
      BY <3>1, <3>2, AcceptedCall
  <2>2. CASE Reclaim(j)
    <3>1. Settle(j)
      BY <2>2 DEF Reclaim, Settle
    <3> QED
      BY <3>1 DEF Next
  <2> QED
    BY <1>3, <2>1, <2>2 DEF MinerStep, Infer, WaitOver, SendUnseen
<1>4. ASSUME NEW q \in Requests, PostMined(q) \/ PostUnseen(q) \/ Poll(q) \/ GiveUp(q)
      PROVE  [Next]_vars
  <2>1. CASE PostMined(q)
    <3> DEFINE c == PostCall
    <3>1. c.fn = "post" /\ Executed(c) /\ Unposted # {}
      BY <2>1 DEF PostMined, Accepts, PostCall
    <3> HIDE DEF c
    <3> QED
      BY <3>1, AcceptedCall
  <2> QED
    BY <1>4, <2>1 DEF PostUnseen, Poll, GiveUp
<1>5. CASE Scan \/ Restart \/ UNCHANGED allVars
  BY <1>5 DEF Scan, Restart, allVars
<1> QED
  BY <1>1, <1>2, <1>3, <1>4, <1>5 DEF ClientsNext
-----------------------------------------------------------------------------
(* What a step does to one task, and to the slots.                         *)
TasksTyped == active \subseteq Jobs /\ seen \subseteq Jobs /\ proc \in [Jobs -> ProcRec] /\ SlotsKept

StaysOr(j, stage) ==
    /\ proc'[j].at = stage
    /\ \A i \in Jobs \ {j} : proc'[i] = proc[i]

LEMMA Retries == MinerRetries \in Nat /\ 0 \in 0 .. MinerRetries - 1
                 /\ ClientRetries \in Nat /\ 0 \in 0 .. ClientRetries - 1
                 /\ max_jobs \in Nat
  BY Sends

LEMMA TaskEnded ==
  ASSUME ClientsInv, NEW j \in Jobs, NEW done, Ended(j, done)
  PROVE  TasksTyped' /\ StaysOr(j, "idle")
<1>1. /\ active \subseteq Jobs /\ seen \subseteq Jobs /\ proc \in [Jobs -> ProcRec]
      /\ Cardinality(active) <= max_jobs
  BY DEF ClientsInv, OwnInv, ClientsTyped, SlotsKept
<1>2. Idle \in ProcRec
  BY Retries DEF Idle, ProcRec, Stages
<1>3. proc' \in [Jobs -> ProcRec] /\ StaysOr(j, "idle")
  BY <1>1, <1>2 DEF Ended, StaysOr, Idle
<1>4. active' = active \ {j} /\ seen' \subseteq Jobs
  BY <1>1 DEF Ended, Released
<1>5. IsFiniteSet(active)
  BY <1>1, JobsAssumption, FS_Subset
<1>6. Cardinality(active') <= Cardinality(active) /\ Cardinality(active) \in Nat /\ Cardinality(active') \in Nat
  BY <1>4, <1>5, FS_Subset, FS_CardinalityType
<1>7. Cardinality(active') <= max_jobs
  BY <1>1, <1>6, Retries
<1> QED
  BY <1>1, <1>3, <1>4, <1>7 DEF TasksTyped, SlotsKept

LEMMA TaskReaches ==
  ASSUME ClientsInv, NEW j \in Jobs, NEW stage \in Stages, Reaches(j, stage)
  PROVE  TasksTyped' /\ StaysOr(j, stage)
<1>1. /\ active \subseteq Jobs /\ seen \subseteq Jobs /\ proc \in [Jobs -> ProcRec] /\ SlotsKept
  BY DEF ClientsInv, OwnInv, ClientsTyped
<1>2. [at |-> stage, tries |-> 0] \in ProcRec
  BY Retries DEF ProcRec
<1> QED
  BY <1>1, <1>2 DEF Reaches, StaysOr, TasksTyped, SlotsKept

LEMMA TaskAgain ==
  ASSUME ClientsInv, NEW j \in Jobs, Again(j)
  PROVE  TasksTyped' /\ (StaysOr(j, "idle") \/ StaysOr(j, proc[j].at))
<1>1. CASE Ended(j, FALSE)
  BY <1>1, TaskEnded
<1>2. CASE /\ proc[j].tries + 1 # MinerRetries
           /\ proc' = [proc EXCEPT ![j].tries = @ + 1]
           /\ UNCHANGED <<active, seen>>
  <2>1. /\ active \subseteq Jobs /\ seen \subseteq Jobs /\ proc \in [Jobs -> ProcRec] /\ SlotsKept
    BY DEF ClientsInv, OwnInv, ClientsTyped
  <2>2. proc[j] \in ProcRec
    BY <2>1
  <2>3. proc[j].tries + 1 \in 0 .. MinerRetries - 1
    BY <1>2, <2>2, Retries DEF ProcRec
  <2>4. [proc[j] EXCEPT !.tries = @ + 1] \in ProcRec
    BY <2>2, <2>3 DEF ProcRec
  <2>5. proc' = [proc EXCEPT ![j] = [proc[j] EXCEPT !.tries = @ + 1]]
    BY <1>2
  <2>6. proc' \in [Jobs -> ProcRec] /\ StaysOr(j, proc[j].at)
    BY <2>1, <2>2, <2>4, <2>5 DEF StaysOr, ProcRec
  <2> QED
    BY <1>2, <2>1, <2>6 DEF TasksTyped, SlotsKept
<1> QED
  BY <1>1, <1>2 DEF Again

LEMMA TasksSame ==
  ASSUME ClientsInv, UNCHANGED daemon
  PROVE  TasksTyped' /\ \A j \in Jobs : TaskStep(j)
  BY DEF ClientsInv, OwnInv, ClientsTyped, daemon, TasksTyped, SlotsKept, TaskStep

LEMMA OtherTasks ==
  ASSUME NEW j \in Jobs, NEW stage, StaysOr(j, stage), TaskStep(j)
  PROVE  \A i \in Jobs : TaskStep(i)
<1> SUFFICES ASSUME NEW i \in Jobs \ {j} PROVE TaskStep(i)
  OBVIOUS
<1>1. proc'[i] = proc[i]
  BY DEF StaysOr
<1> QED
  BY <1>1 DEF TaskStep

(* The client's side of a step in which no request moves.                  *)
LEMMA RequestsKept ==
  ASSUME ClientsInv, ChainStep, Posted' = Posted, UNCHANGED <<req, late>>
  PROVE  PollsOne' /\ OneEach' /\ AnswerIsFinal' /\ req' \in [Requests -> ReqRec]
<1>1. PollsOne /\ OneEach /\ AnswerIsFinal /\ req \in [Requests -> ReqRec]
  BY DEF ClientsInv, OwnInv, ClientsTyped
<1>2. Through' = Through
  BY DEF Through
<1>3. OneEach'
  BY <1>1, <1>2 DEF OneEach
<1>4. PollsOne'
  BY <1>1 DEF PollsOne
<1>5. AnswerIsFinal'
  <2> SUFFICES ASSUME NEW q \in Requests, req'[q].at = "answered", NEW j \in req'[q].job
               PROVE  jobs'[j].status = "complete"
    BY DEF AnswerIsFinal
  <2>1. j \in Jobs /\ jobs[j].status = "complete"
    BY <1>1 DEF AnswerIsFinal, ReqRec
  <2> QED
    BY <2>1 DEF ChainStep
<1> QED
  BY <1>1, <1>3, <1>4, <1>5

(* Pools.                                                                  *)
PoolsKept == pool \in [{Miner, Client} -> Seq(Calls)] /\ NoLatePost

LEMMA PoolsSame ==
  ASSUME ClientsInv, UNCHANGED <<pool, late>>
  PROVE  PoolsKept'
  BY DEF ClientsInv, OwnInv, ClientsTyped, PoolsKept, NoLatePost

LEMMA PoolMined ==
  ASSUME ClientsInv, NEW a \in {Miner, Client}, pool[a] # <<>>, late' = late,
         pool' = [pool EXCEPT ![a] = Tail(@)]
  PROVE  PoolsKept'
<1>1. pool \in [{Miner, Client} -> Seq(Calls)] /\ NoLatePost /\ ClientsTyped
  BY DEF ClientsInv, OwnInv, ClientsTyped
<1>2. /\ Tail(pool[a]) \in Seq(Calls) /\ Len(pool[a]) \in Nat \ {0}
      /\ Len(Tail(pool[a])) = Len(pool[a]) - 1
      /\ \A i \in 1 .. Len(Tail(pool[a])) : Tail(pool[a])[i] = pool[a][i + 1]
  BY <1>1, QueuedCall
<1>3. pool' \in [{Miner, Client} -> Seq(Calls)] /\ pool'[a] = Tail(pool[a])
      /\ \A b \in {Miner, Client} \ {a} : pool'[b] = pool[b]
  BY <1>1, <1>2
<1>4. NoLatePost'
  <2> SUFFICES ASSUME ~ late', NEW b \in {Miner, Client}, NEW i \in 1 .. Len(pool'[b])
               PROVE  pool'[b][i].fn # "post"
    BY DEF NoLatePost
  <2>1. CASE b = a
    <3>1. i \in 1 .. Len(Tail(pool[a])) /\ i + 1 \in 1 .. Len(pool[a])
      BY <1>2, <1>3, <2>1
    <3> QED
      BY <1>1, <1>2, <1>3, <2>1, <3>1 DEF NoLatePost
  <2>2. CASE b # a
    BY <1>1, <1>3, <2>2 DEF NoLatePost
  <2> QED
    BY <2>1, <2>2
<1> QED
  BY <1>3, <1>4 DEF PoolsKept

LEMMA PoolStuck ==
  ASSUME ClientsInv, NEW a \in {Miner, Client}, NEW c \in Calls, Stuck(a, c),
         (c.fn # "post" /\ late' = late) \/ late'
  PROVE  PoolsKept'
<1>1. pool \in [{Miner, Client} -> Seq(Calls)] /\ NoLatePost
  BY DEF ClientsInv, OwnInv, ClientsTyped
<1>2. pool[a] \in Seq(Calls) /\ Append(pool[a], c) \in Seq(Calls)
  BY <1>1
<1>3. pool' \in [{Miner, Client} -> Seq(Calls)] /\ pool'[a] = Append(pool[a], c)
      /\ \A b \in {Miner, Client} \ {a} : pool'[b] = pool[b]
  BY <1>1, <1>2 DEF Stuck
<1>4. NoLatePost'
  <2> SUFFICES ASSUME ~ late', NEW b \in {Miner, Client}, NEW i \in 1 .. Len(pool'[b])
               PROVE  pool'[b][i].fn # "post"
    BY DEF NoLatePost
  <2>1. CASE b = a
    <3>1. (i \in 1 .. Len(pool[a]) /\ pool'[b][i] = pool[a][i]) \/ pool'[b][i] = c
      BY <1>2, <1>3, <2>1
    <3> QED
      BY <1>1, <2>1, <3>1 DEF NoLatePost
  <2>2. CASE b # a
    BY <1>1, <1>3, <2>2 DEF NoLatePost
  <2> QED
    BY <2>1, <2>2
<1> QED
  BY <1>3, <1>4 DEF PoolsKept

LEMMA Gathered ==
  ASSUME ClientsInv, ChainStep, TasksTyped', \A j \in Jobs : TaskStep(j), reopened \subseteq reopened',
         PoolsKept', req' \in [Requests -> ReqRec], PollsOne', OneEach', AnswerIsFinal'
  PROVE  OwnInv'
<1>1. WorksOnOwnClaims' /\ SettlesSubmitted' /\ FinalizeNotEarly'
  BY TasksKept
<1>2. OpenUnclaimed'
  BY DEF ChainStep
<1>3. ClientsTyped' /\ SlotsKept' /\ NoLatePost'
  BY DEF TasksTyped, PoolsKept, ClientsTyped
<1> QED
  BY <1>1, <1>2, <1>3 DEF OwnInv
-----------------------------------------------------------------------------
(* Every step keeps OwnInv; that it keeps the market's IInv is known.      *)
LEMMA MarketKept ==
  ASSUME ClientsInv, TypeOK', Market
  PROVE  OwnInv'
<1>1. TypeOK /\ OpenUnclaimed
  BY DEF ClientsInv, OwnInv, IInv, BaseInv
<1>2. UNCHANGED <<pool, daemon, req, histories>>
  BY DEF Market
<1>3. AllOnward
  <2>1. CASE Tick
    BY <1>1, <2>1, TickOnward
  <2>2. CASE \E j \in Jobs : \/ ClaimJob(Other, j, 0)
                             \/ ChallengeResult(Other, j, 0)
                             \/ ResolveDispute(j) \/ ResolveExpiredDispute(j)
    BY <1>1, <2>2, WorkOnward, Exact, Clients
  <2> QED
    BY <2>1, <2>2 DEF Market
<1>4. ChainStep /\ Posted' = Posted
  BY <1>1, <1>3, OnwardChain
<1>5. UNCHANGED <<pool, daemon, req, late, reopened>>
  BY <1>2 DEF histories
<1>6. TasksTyped' /\ \A j \in Jobs : TaskStep(j)
  BY <1>5, TasksSame
<1>7. PoolsKept'
  BY <1>5, PoolsSame
<1>8. PollsOne' /\ OneEach' /\ AnswerIsFinal' /\ req' \in [Requests -> ReqRec]
  BY <1>4, <1>5, RequestsKept
<1> QED
  BY <1>4, <1>5, <1>6, <1>7, <1>8, Gathered

\* What a call of the miner that is accepted does to the jobs.
LEMMA AcceptedOnward ==
  ASSUME TypeOK, NEW c, c.fn # "post", c.job \in Jobs, Executed(c)
  PROVE  AllOnward
<1>1. ClaimJob(Miner, c.job, 0) \/ SubmitResult(c.job) \/ FinalizeJob(c.job)
  BY DEF Executed
<1> QED
  BY <1>1, WorkOnward, Exact, Clients

LEMMA MineKept ==
  ASSUME ClientsInv, TypeOK', NEW a \in {Miner, Client}, Mine(a)
  PROVE  OwnInv'
<1> DEFINE c == Head(pool[a])
<1>1. TypeOK /\ OpenUnclaimed /\ ClientsTyped /\ NoLatePost /\ AnswerIsFinal /\ PollsOne
  BY DEF ClientsInv, OwnInv, IInv, BaseInv
<1>2. /\ pool[a] # <<>> /\ pool' = [pool EXCEPT ![a] = Tail(@)]
      /\ IF Accepts(c) THEN Executed(c) ELSE UNCHANGED vars
      /\ UNCHANGED <<daemon, req, late, reopened>>
  BY DEF Mine, histories
<1>3. c \in Calls /\ c = pool[a][1] /\ Len(pool[a]) \in Nat \ {0}
  BY <1>1, <1>2, QueuedCall
<1>4. TasksTyped' /\ \A j \in Jobs : TaskStep(j)
  BY <1>2, TasksSame
<1>5. PoolsKept'
  BY <1>2, PoolMined
<1>6. CASE ~ Accepts(c)
  <2>1. ChainStep /\ Posted' = Posted
    BY <1>1, <1>2, <1>6, SameChain
  <2> QED
    BY <1>2, <1>4, <1>5, <2>1, RequestsKept, Gathered
<1>7. CASE Accepts(c) /\ c.fn # "post"
  <2>1. c.job \in Jobs
    BY <1>3, <1>7, CallKinds
  <2>2. AllOnward
    <3> HIDE DEF c
    <3> QED
      BY <1>1, <1>2, <1>7, <2>1, AcceptedOnward
  <2>3. ChainStep /\ Posted' = Posted
    BY <1>1, <2>2, OnwardChain
  <2> QED
    BY <1>2, <1>4, <1>5, <2>3, RequestsKept, Gathered
<1>8. CASE Accepts(c) /\ c.fn = "post"
  <2>1. Unposted # {}
    BY <1>8 DEF Accepts
  <2>2. PICK t \in Tokens, m \in Models : PostJob(Client, NextJob, t, m, 0)
    BY <1>2, <1>8 DEF Executed
  <2>3. ChainStep
    BY <1>1, <2>1, <2>2, NextJobUnposted, PostedChain
  <2>4. late /\ late'
    <3>1. 1 \in 1 .. Len(pool[a])
      BY <1>3
    <3> QED
      BY <1>1, <1>2, <1>3, <1>8, <3>1 DEF NoLatePost
  <2>5. OneEach'
    BY <2>4 DEF OneEach
  <2>6. PollsOne' /\ req' \in [Requests -> ReqRec]
    BY <1>1, <1>2 DEF PollsOne, ClientsTyped
  <2>7. AnswerIsFinal'
    <3> SUFFICES ASSUME NEW q \in Requests, req'[q].at = "answered", NEW j \in req'[q].job
                 PROVE  jobs'[j].status = "complete"
      BY DEF AnswerIsFinal
    <3>1. j \in Jobs /\ jobs[j].status = "complete"
      BY <1>1, <1>2 DEF AnswerIsFinal, ClientsTyped, ReqRec
    <3> QED
      BY <2>3, <3>1 DEF ChainStep
  <2> QED
    BY <1>2, <1>4, <1>5, <2>3, <2>5, <2>6, <2>7, Gathered
<1> QED
  BY <1>6, <1>7, <1>8

LEMMA SendMinedKept ==
  ASSUME ClientsInv, TypeOK', NEW j \in Jobs, SendMined(j)
  PROVE  OwnInv'
<1> DEFINE c == Wanted(j)
<1>1. TypeOK /\ OpenUnclaimed
  BY DEF ClientsInv, OwnInv, IInv, BaseInv
<1>2. /\ proc[j].at \in {"claim", "submit", "finalize"}
      /\ IF Accepts(c) THEN Executed(c) /\ Confirmed(j) ELSE UNCHANGED vars /\ Reverted(j)
      /\ UNCHANGED <<pool, req, late, reopened>>
  BY DEF SendMined, Sending, histories
<1>3. c.fn = proc[j].at /\ c.job = j /\ c.fn # "post"
  BY <1>2 DEF Wanted
<1>4. PoolsKept'
  BY <1>2, PoolsSame
<1>5. CASE ~ Accepts(c)
  <2>1. ChainStep /\ Posted' = Posted
    BY <1>1, <1>2, <1>5, SameChain
  <2>2. TasksTyped' /\ (StaysOr(j, "idle") \/ StaysOr(j, proc[j].at))
    BY <1>2, <1>5, TaskAgain DEF Reverted
  <2>3. TaskStep(j)
    BY <2>2 DEF TaskStep, StaysOr
  <2>4. \A i \in Jobs : TaskStep(i)
    BY <2>2, <2>3, OtherTasks
  <2> QED
    BY <1>2, <1>4, <2>1, <2>2, <2>4, RequestsKept, Gathered
<1>6. CASE Accepts(c)
  <2>1. AllOnward
    <3> HIDE DEF c
    <3> QED
      BY <1>1, <1>2, <1>3, <1>6, AcceptedOnward
  <2>2. ChainStep /\ Posted' = Posted
    BY <1>1, <2>1, OnwardChain
  <2>3. TasksTyped' /\ \A i \in Jobs : TaskStep(i)
    <3>1. CASE proc[j].at = "finalize"
      <4>1. TasksTyped' /\ StaysOr(j, "idle")
        BY <1>2, <1>6, <3>1, TaskEnded DEF Confirmed
      <4>2. TaskStep(j)
        BY <4>1 DEF TaskStep, StaysOr
      <4> QED
        BY <4>1, <4>2, OtherTasks
    <3>2. CASE proc[j].at = "claim"
      <4>1. TasksTyped' /\ StaysOr(j, "infer")
        BY <1>2, <1>6, <3>2, TaskReaches DEF Confirmed, After, Stages
      <4>2. jobs'[j].miner = Miner
        <5>1. ClaimJob(Miner, j, 0)
          BY <1>2, <1>3, <1>6, <3>2 DEF Executed
        <5> QED
          BY <1>1, <5>1 DEF ClaimJob, TypeOK, JobRec
      <4>3. TaskStep(j)
        BY <4>1, <4>2 DEF TaskStep, StaysOr
      <4> QED
        BY <4>1, <4>3, OtherTasks
    <3>3. CASE proc[j].at = "submit"
      <4>1. TasksTyped' /\ StaysOr(j, "wait")
        BY <1>2, <1>6, <3>3, TaskReaches DEF Confirmed, After, Stages
      <4>2. jobs'[j].status = "submitted"
        <5>1. SubmitResult(j)
          BY <1>2, <1>3, <1>6, <3>3 DEF Executed
        <5> QED
          BY <1>1, <5>1 DEF SubmitResult, TypeOK, JobRec
      <4>3. TaskStep(j)
        BY <4>1, <4>2 DEF TaskStep, StaysOr, Settling
      <4> QED
        BY <4>1, <4>3, OtherTasks
    <3> QED
      BY <1>2, <3>1, <3>2, <3>3
  <2> QED
    BY <1>2, <1>4, <2>2, <2>3, RequestsKept, Gathered
<1> QED
  BY <1>5, <1>6

LEMMA SendUnseenKept ==
  ASSUME ClientsInv, NEW j \in Jobs, SendUnseen(j)
  PROVE  OwnInv'
<1>1. TypeOK /\ OpenUnclaimed
  BY DEF ClientsInv, OwnInv, IInv, BaseInv
<1>2. /\ proc[j].at \in {"claim", "submit", "finalize"} /\ Again(j)
      /\ UNCHANGED <<vars, req, reopened, late>>
  BY DEF SendUnseen, Sending
<1>3. PoolsKept'
  <2>1. CASE UNCHANGED pool
    BY <1>2, <2>1, PoolsSame
  <2>2. CASE Stuck(Miner, Wanted(j))
    <3>1. Wanted(j) \in Calls /\ Wanted(j).fn # "post"
      BY <1>2 DEF Wanted, Calls
    <3> QED
      BY <1>2, <2>2, <3>1, PoolStuck
  <2> QED
    BY <2>1, <2>2 DEF SendUnseen, Unsent
<1>4. ChainStep /\ Posted' = Posted
  BY <1>1, <1>2, SameChain
<1>5. TasksTyped' /\ (StaysOr(j, "idle") \/ StaysOr(j, proc[j].at))
  BY <1>2, TaskAgain
<1>6. TaskStep(j)
  BY <1>5 DEF TaskStep, StaysOr
<1>7. \A i \in Jobs : TaskStep(i)
  BY <1>5, <1>6, OtherTasks
<1> QED
  BY <1>2, <1>3, <1>4, <1>5, <1>7, RequestsKept, Gathered

LEMMA InferKept ==
  ASSUME ClientsInv, NEW j \in Jobs, Infer(j) \/ WaitOver(j)
  PROVE  OwnInv'
<1>1. TypeOK /\ OpenUnclaimed /\ SlotsKept
  BY DEF ClientsInv, OwnInv, IInv, BaseInv
<1>2. UNCHANGED <<vars, pool, req, reopened, late>>
  BY DEF Infer, WaitOver, histories
<1>3. PoolsKept' /\ ChainStep /\ Posted' = Posted
  BY <1>1, <1>2, PoolsSame, SameChain
<1>4. TasksTyped' /\ \A i \in Jobs : TaskStep(i)
  <2>1. CASE proc[j].at = "infer" /\ Ended(j, FALSE)
    <3>1. TasksTyped' /\ StaysOr(j, "idle")
      BY <2>1, TaskEnded
    <3>2. TaskStep(j)
      BY <3>1 DEF TaskStep, StaysOr
    <3> QED
      BY <3>1, <3>2, OtherTasks
  <2>2. CASE proc[j].at = "infer" /\ Reaches(j, "submit")
    <3>1. TasksTyped' /\ StaysOr(j, "submit")
      BY <2>2, TaskReaches DEF Stages
    <3>2. TaskStep(j)
      BY <2>2, <3>1 DEF TaskStep, StaysOr
    <3> QED
      BY <3>1, <3>2, OtherTasks
  <2>3. CASE WaitOver(j)
    <3>1. TasksTyped' /\ StaysOr(j, "finalize")
      BY <2>3, TaskReaches DEF Stages, WaitOver
    <3>2. TaskStep(j)
      BY <1>2, <2>3, <3>1 DEF TaskStep, StaysOr, WaitOver, vars
    <3> QED
      BY <3>1, <3>2, OtherTasks
  <2> QED
    BY <2>1, <2>2, <2>3 DEF Infer
<1> QED
  BY <1>2, <1>3, <1>4, RequestsKept, Gathered

(* A restart forgets the tasks and nothing else.                           *)
LEMMA PausedKept ==
  ASSUME ClientsInv, Restart \/ UNCHANGED allVars
  PROVE  OwnInv'
<1>1. TypeOK /\ OpenUnclaimed
  BY DEF ClientsInv, OwnInv, IInv, BaseInv
<1>2. UNCHANGED <<vars, pool, req, reopened, late>>
  BY DEF Restart, histories, allVars
<1>3. PoolsKept' /\ ChainStep /\ Posted' = Posted
  BY <1>1, <1>2, PoolsSame, SameChain
<1>4. TasksTyped' /\ \A i \in Jobs : TaskStep(i)
  <2>1. CASE Restart
    <3>1. active' = {} /\ seen' = {} /\ proc' = [i \in Jobs |-> Idle]
      BY <2>1 DEF Restart
    <3>2. Idle \in ProcRec /\ Idle.at = "idle"
      BY Retries DEF Idle, ProcRec, Stages
    <3>3. Cardinality(active') <= max_jobs
      BY <3>1, FS_EmptySet, Retries
    <3>4. TasksTyped'
      BY <3>1, <3>2, <3>3 DEF TasksTyped, SlotsKept
    <3>5. \A i \in Jobs : TaskStep(i)
      BY <3>1, <3>2 DEF TaskStep
    <3> QED
      BY <3>4, <3>5
  <2>2. CASE UNCHANGED allVars
    BY <2>2, TasksSame DEF allVars
  <2> QED
    BY <2>1, <2>2
<1> QED
  BY <1>2, <1>3, <1>4, RequestsKept, Gathered

LEMMA ReclaimKept ==
  ASSUME ClientsInv, TypeOK', NEW j \in Jobs, Reclaim(j)
  PROVE  OwnInv'
<1>1. TypeOK /\ OpenUnclaimed
  BY DEF ClientsInv, OwnInv, IInv, BaseInv
<1>2. /\ j \in reopened' /\ reopened \subseteq reopened'
      /\ UNCHANGED <<pool, daemon, req, late>>
      /\ ReclaimUnclaimed(j) \/ ReclaimUnanswered(j)
  BY DEF Reclaim
<1>3. ChainStep /\ Posted' = Posted
  BY <1>1, <1>2, ReclaimedChain
<1> QED
  BY <1>2, <1>3, PoolsSame, TasksSame, RequestsKept, Gathered

(* _scan never starts more jobs than there are free slots: the last one it *)
(* starts, and all before it, fit.                                         *)
LEMMA ScanFits ==
  ASSUME ClientsInv
  PROVE  Cardinality(active \cup {j \in Takes : Reached(j)}) <= max_jobs
<1> DEFINE started == {j \in Takes : Reached(j)}
<1>1. active \subseteq Jobs /\ Cardinality(active) <= max_jobs
  BY DEF ClientsInv, OwnInv, ClientsTyped, SlotsKept
<1>2. Takes \subseteq Jobs /\ started \subseteq Takes
  BY DEF Takes, Posted
<1>3. IsFiniteSet(active) /\ IsFiniteSet(Takes) /\ IsFiniteSet(started)
  BY <1>1, <1>2, JobsAssumption, FS_Subset
<1>4. CASE started = {}
  BY <1>1, <1>4
<1>5. CASE started # {}
  <2>1. started \subseteq Nat
    BY <1>2, JobIds
  <2>2. PICK last \in started : \A i \in started : i <= last
    BY <1>3, <1>5, <2>1, LargestElement
  <2> DEFINE before == {i \in Takes : i < last}
             all    == active \cup before
  <2>3. /\ IsFiniteSet(before)
        /\ Cardinality(before) \in Nat /\ Cardinality(active) \in Nat
        /\ Cardinality(active \cap before) \in Nat
    BY <1>3, FS_Subset, FS_CardinalityType, FS_Intersection
  <2>4. /\ IsFiniteSet(all)
        /\ Cardinality(all) = Cardinality(active) + Cardinality(before) - Cardinality(active \cap before)
    BY <1>3, <2>3, FS_Union
  <2>5. Cardinality(active) + Cardinality(before) < max_jobs
    BY DEF Reached
  <2>6. Cardinality(all) <= Cardinality(active) + Cardinality(before) /\ Cardinality(all) \in Nat
    BY <2>3, <2>4, FS_CardinalityType
  <2> HIDE DEF all
  <2>7. /\ IsFiniteSet(all \cup {last})
        /\ Cardinality(all \cup {last}) <= Cardinality(all) + 1
        /\ Cardinality(all \cup {last}) \in Nat
    <3>1. last \in all => all \cup {last} = all
      OBVIOUS
    <3>2. IsFiniteSet(all \cup {last}) /\ Cardinality(all \cup {last}) \in {Cardinality(all), Cardinality(all) + 1}
      BY <2>4, <3>1, FS_AddElement
    <3> QED
      BY <2>6, <3>2
  <2>8. active \cup started \subseteq all \cup {last}
    BY <2>1, <2>2 DEF all
  <2>9. Cardinality(active \cup started) <= Cardinality(all \cup {last})
        /\ Cardinality(active \cup started) \in Nat
    BY <2>7, <2>8, FS_Subset, FS_CardinalityType
  <2> QED
    BY <2>5, <2>6, <2>7, <2>9, <2>3, Retries
<1> QED
  BY <1>4, <1>5

LEMMA ScanKept ==
  ASSUME ClientsInv, Scan
  PROVE  OwnInv'
<1> DEFINE started == {j \in Takes : Reached(j)}
           over    == {j \in Over : Reached(j)}
<1>1. /\ TypeOK /\ OpenUnclaimed
      /\ active \subseteq Jobs /\ seen \subseteq Jobs /\ proc \in [Jobs -> ProcRec]
  BY DEF ClientsInv, OwnInv, ClientsTyped, IInv, BaseInv
<1>2. /\ active' = active \cup started
      /\ seen' = seen \cup over
      /\ proc' = [j \in Jobs |-> IF j \in started THEN [at |-> "claim", tries |-> 0] ELSE proc[j]]
      /\ UNCHANGED <<vars, pool, req, reopened, late>>
  BY DEF Scan, histories
<1>3. started \subseteq Jobs /\ over \subseteq Jobs
  BY DEF Takes, Over, Posted
<1>4. [at |-> "claim", tries |-> 0] \in ProcRec
  BY Retries DEF ProcRec, Stages
<1>5. Cardinality(active') <= max_jobs
  BY <1>2, ScanFits
<1> HIDE DEF started, over
<1>6. TasksTyped'
  BY <1>1, <1>2, <1>3, <1>4, <1>5 DEF TasksTyped, SlotsKept
<1>7. \A j \in Jobs : TaskStep(j)
  BY <1>1, <1>2 DEF TaskStep
<1>8. ChainStep /\ Posted' = Posted
  BY <1>1, <1>2, SameChain
<1> QED
  BY <1>2, <1>6, <1>7, <1>8, PoolsSame, RequestsKept, Gathered
-----------------------------------------------------------------------------
LEMMA ThroughFinite == IsFiniteSet(Through) /\ Cardinality(Through) \in Nat
                       /\ IsFiniteSet(Posted) /\ Cardinality(Posted) \in Nat
<1>1. Through \subseteq Requests /\ Posted \subseteq Jobs
  BY DEF Through, Posted
<1> QED
  BY <1>1, Clients, JobsAssumption, FS_Subset, FS_CardinalityType

LEMMA PostMinedKept ==
  ASSUME ClientsInv, TypeOK', NEW q \in Requests, PostMined(q)
  PROVE  OwnInv'
<1>1. /\ TypeOK /\ OpenUnclaimed /\ OneEach /\ PollsOne /\ AnswerIsFinal
      /\ req \in [Requests -> ReqRec]
  BY DEF ClientsInv, OwnInv, ClientsTyped, IInv, BaseInv
<1>2. /\ req[q].at = "post" /\ Unposted # {}
      /\ req' = [req EXCEPT ![q] = [req[q] EXCEPT !.at = "poll", !.job = {NextJob}]]
      /\ UNCHANGED <<pool, daemon, reopened, late>>
  BY DEF PostMined, Accepts, PostCall, Heard, histories
<1>3. PICK t \in Tokens, m \in Models : PostJob(Client, NextJob, t, m, 0)
  BY DEF PostMined, Executed, PostCall
<1>4. NextJob \in Jobs
  BY <1>2, NextJobUnposted
<1>5. ChainStep /\ Posted' = Posted \cup {NextJob} /\ NextJob \notin Posted
  BY <1>1, <1>3, <1>4, PostedChain
<1>6. req[q] \in ReqRec /\ [req[q] EXCEPT !.at = "poll", !.job = {NextJob}] \in ReqRec
  BY <1>1, <1>4 DEF ReqRec, Requested
<1>7. /\ req' \in [Requests -> ReqRec]
      /\ req'[q].at = "poll" /\ req'[q].job = {NextJob}
      /\ \A p \in Requests \ {q} : req'[p] = req[p]
  BY <1>1, <1>2, <1>6 DEF ReqRec
<1>8. PollsOne'
  BY <1>1, <1>4, <1>7 DEF PollsOne
<1>9. OneEach'
  <2>1. Through' = Through \cup {q} /\ q \notin Through
    BY <1>2, <1>7 DEF Through
  <2>2. Cardinality(Through') = Cardinality(Through) + 1
    BY <2>1, ThroughFinite, FS_AddElement
  <2>3. Cardinality(Posted') = Cardinality(Posted) + 1
    BY <1>5, ThroughFinite, FS_AddElement
  <2> QED
    BY <1>1, <1>2, <2>2, <2>3, ThroughFinite DEF OneEach
<1>10. AnswerIsFinal'
  <2> SUFFICES ASSUME NEW p \in Requests, req'[p].at = "answered", NEW j \in req'[p].job
               PROVE  jobs'[j].status = "complete"
    BY DEF AnswerIsFinal
  <2>1. p # q /\ j \in Jobs /\ jobs[j].status = "complete"
    BY <1>1, <1>7 DEF AnswerIsFinal, ReqRec
  <2> QED
    BY <1>5, <2>1 DEF ChainStep
<1> QED
  BY <1>2, <1>5, <1>7, <1>8, <1>9, <1>10, PoolsSame, TasksSame, Gathered

(* A request moves on without a new job.                                   *)
LEMMA RequestMoved ==
  ASSUME ClientsInv, NEW q \in Requests, NEW r \in ReqRec,
         req' = [req EXCEPT ![q] = r],
         UNCHANGED <<vars, daemon, reopened>>, late => late',
         r.job = req[q].job,
         r.at = "post" => req[q].at = "post",
         r.at # "poll",
         r.at = "answered" => \A j \in r.job : jobs[j].status = "complete",
         PoolsKept'
  PROVE  OwnInv'
<1>1. /\ TypeOK /\ OpenUnclaimed /\ OneEach /\ PollsOne /\ AnswerIsFinal
      /\ req \in [Requests -> ReqRec]
  BY DEF ClientsInv, OwnInv, ClientsTyped, IInv, BaseInv
<1>2. ChainStep /\ Posted' = Posted /\ jobs' = jobs
  BY <1>1, SameChain DEF vars
<1>3. /\ req' \in [Requests -> ReqRec] /\ req'[q] = r
      /\ \A p \in Requests \ {q} : req'[p] = req[p]
  BY <1>1
<1>4. PollsOne'
  BY <1>1, <1>3 DEF PollsOne
<1>5. OneEach'
  <2>1. Through \subseteq Through'
    BY <1>3 DEF Through
  <2>2. Cardinality(Through) <= Cardinality(Through') /\ Cardinality(Through') \in Nat
    <3>1. Through' \subseteq Requests
      BY DEF Through
    <3>2. IsFiniteSet(Through')
      BY <3>1, Clients, FS_Subset
    <3> QED
      BY <2>1, <3>2, FS_Subset, FS_CardinalityType
  <2> QED
    BY <1>1, <1>2, <2>2, ThroughFinite DEF OneEach
<1>6. AnswerIsFinal'
  BY <1>1, <1>2, <1>3 DEF AnswerIsFinal
<1> QED
  BY <1>2, <1>3, <1>4, <1>5, <1>6, TasksSame, Gathered

LEMMA RetriedRecord ==
  ASSUME ClientsInv, NEW q \in Requests, req[q].at = "post", Retried(q)
  PROVE  \E r \in ReqRec : /\ req' = [req EXCEPT ![q] = r]
                            /\ r.job = req[q].job /\ r.at \in {"post", "failed"}
<1>1. req[q] \in ReqRec
  BY DEF ClientsInv, OwnInv, ClientsTyped
<1>2. CASE req[q].tries + 1 = ClientRetries
  <2> DEFINE r == [req[q] EXCEPT !.at = "failed"]
  <2>1. r \in ReqRec /\ r.job = req[q].job /\ r.at = "failed"
    BY <1>1 DEF ReqRec, Requested
  <2>2. req' = [req EXCEPT ![q] = r]
    BY <1>2 DEF Retried
  <2> QED
    BY <2>1, <2>2
<1>3. CASE req[q].tries + 1 # ClientRetries
  <2> DEFINE r == [req[q] EXCEPT !.tries = @ + 1]
  <2>1. req[q].tries + 1 \in 0 .. ClientRetries - 1
    BY <1>1, <1>3, Retries DEF ReqRec
  <2>2. r \in ReqRec /\ r.job = req[q].job /\ r.at = "post"
    BY <1>1, <2>1 DEF ReqRec, Requested
  <2>3. req' = [req EXCEPT ![q] = r]
    BY <1>3 DEF Retried
  <2> QED
    BY <2>2, <2>3
<1> QED
  BY <1>2, <1>3

LEMMA PostUnseenKept ==
  ASSUME ClientsInv, NEW q \in Requests, PostUnseen(q)
  PROVE  OwnInv'
<1>1. /\ req[q].at = "post" /\ Retried(q)
      /\ UNCHANGED <<vars, daemon, reopened>>
  BY DEF PostUnseen
<1>2. PICK r \in ReqRec : /\ req' = [req EXCEPT ![q] = r]
                          /\ r.job = req[q].job /\ r.at \in {"post", "failed"}
  BY <1>1, RetriedRecord
<1>3. PoolsKept' /\ (late => late')
  <2>1. CASE Unsent(Client) /\ UNCHANGED late
    BY <2>1, PoolsSame DEF Unsent
  <2>2. CASE Stuck(Client, PostCall) /\ late' = TRUE
    <3>1. PostCall \in Calls
      BY DEF Calls
    <3> QED
      BY <2>2, <3>1, PoolStuck
  <2> QED
    BY <2>1, <2>2 DEF PostUnseen
<1> QED
  BY <1>1, <1>2, <1>3, RequestMoved

LEMMA PollKept ==
  ASSUME ClientsInv, NEW q \in Requests, Poll(q) \/ GiveUp(q)
  PROVE  OwnInv'
<1>1. /\ req[q].at = "poll" /\ req[q] \in ReqRec /\ PollsOne
      /\ UNCHANGED <<vars, pool, daemon, reopened, late>>
  BY DEF Poll, GiveUp, histories, ClientsInv, OwnInv, ClientsTyped
<1>2. PoolsKept'
  BY <1>1, PoolsSame
<1>3. CASE GiveUp(q)
  <2> DEFINE r == [req[q] EXCEPT !.at = "timeout"]
  <2>1. r \in ReqRec /\ r.job = req[q].job /\ r.at = "timeout"
    BY <1>1 DEF ReqRec, Requested
  <2>2. req' = [req EXCEPT ![q] = r]
    BY <1>3 DEF GiveUp
  <2> HIDE DEF r
  <2> QED
    BY <1>1, <1>2, <2>1, <2>2, RequestMoved
<1>4. CASE Poll(q)
  <2>1. PICK j \in req[q].job : \E v \in Verdict(jobs[j].status) : req' = [req EXCEPT ![q].at = v]
    BY <1>4 DEF Poll
  <2>2. PICK v \in Verdict(jobs[j].status) : req' = [req EXCEPT ![q].at = v]
    BY <2>1
  <2>3. /\ v \in {"answered", "error"}
        /\ v = "answered" => jobs[j].status = "complete"
    BY <2>2 DEF Verdict, Verdicts
  <2>4. req[q].job = {j}
    BY <1>1, <2>1 DEF PollsOne
  <2> DEFINE r == [req[q] EXCEPT !.at = v]
  <2>5. r \in ReqRec /\ r.job = req[q].job /\ r.at = v
    BY <1>1, <2>3 DEF ReqRec, Requested
  <2>6. req' = [req EXCEPT ![q] = r]
    BY <2>2
  <2> HIDE DEF r
  <2> QED
    BY <1>1, <1>2, <2>3, <2>4, <2>5, <2>6, RequestMoved
<1> QED
  BY <1>3, <1>4
-----------------------------------------------------------------------------
LEMMA ClientsStart == ClientsInit => ClientsInv
<1> SUFFICES ASSUME ClientsInit PROVE OwnInv
  BY InitInv DEF ClientsInit, ClientsInv
<1>1. PICK t \in Tokens, m \in Models : jobs = [j \in Jobs |-> BlankJob(t, m)]
  BY DEF ClientsInit, Init
<1>2. \A j \in Jobs : jobs[j].status = "none" /\ jobs[j].miner = NoOne
  BY <1>1 DEF BlankJob
<1>3. ClientsTyped
  <2>1. Idle \in ProcRec /\ [at |-> "post", tries |-> 0, job |-> {}] \in ReqRec
    BY Retries DEF Idle, ProcRec, Stages, ReqRec, Requested
  <2>2. <<>> \in Seq(Calls)
    OBVIOUS
  <2> QED
    BY <2>1, <2>2 DEF ClientsInit, ClientsTyped
<1>4. SlotsKept
  BY FS_EmptySet, Retries DEF ClientsInit, SlotsKept
<1>5. OneEach
  <2>1. Posted = {}
    BY <1>2 DEF Posted
  <2>2. Cardinality(Posted) = 0
    BY <2>1, FS_EmptySet
  <2> QED
    BY <2>2, ThroughFinite DEF OneEach
<1>6. PollsOne /\ AnswerIsFinal
  BY DEF ClientsInit, PollsOne, AnswerIsFinal
<1>7. NoLatePost
  <2>1. \A a \in {Miner, Client} : pool[a] = <<>>
    BY DEF ClientsInit
  <2>2. \A a \in {Miner, Client} : Len(pool[a]) = 0
    BY <2>1
  <2> QED
    BY <2>2 DEF NoLatePost
<1>8. OpenUnclaimed
  BY <1>2 DEF OpenUnclaimed
<1>9. WorksOnOwnClaims /\ SettlesSubmitted /\ FinalizeNotEarly
  BY DEF ClientsInit, Idle, WorksOnOwnClaims, SettlesSubmitted, FinalizeNotEarly
<1> QED
  BY <1>3, <1>4, <1>5, <1>6, <1>7, <1>8, <1>9 DEF OwnInv

LEMMA ClientsStep == ClientsInv /\ [ClientsNext]_allVars => ClientsInv'
<1> SUFFICES ASSUME ClientsInv, [ClientsNext]_allVars PROVE ClientsInv'
  OBVIOUS
<1>1. IInv'
  BY MarketNext, NextInv DEF ClientsInv
<1>2. TypeOK'
  BY <1>1 DEF IInv, BaseInv
<1>3. OwnInv'
  <2>1. CASE Market
    BY <1>2, <2>1, MarketKept
  <2>2. ASSUME NEW a \in {Miner, Client}, Mine(a) PROVE OwnInv'
    BY <1>2, <2>2, MineKept
  <2>3. ASSUME NEW j \in Jobs, MinerStep(j) \/ SendUnseen(j) \/ Reclaim(j) PROVE OwnInv'
    BY <1>2, <2>3, SendMinedKept, InferKept, SendUnseenKept, ReclaimKept DEF MinerStep
  <2>4. CASE Scan
    BY <2>4, ScanKept
  <2>5. CASE Restart \/ UNCHANGED allVars
    BY <2>5, PausedKept
  <2>6. ASSUME NEW q \in Requests, PostMined(q) \/ PostUnseen(q) \/ Poll(q) \/ GiveUp(q) PROVE OwnInv'
    BY <1>2, <2>6, PostMinedKept, PostUnseenKept, PollKept
  <2> QED
    BY <2>1, <2>2, <2>3, <2>4, <2>5, <2>6 DEF ClientsNext
<1> QED
  BY <1>1, <1>3 DEF ClientsInv

(* The inductive invariant holds throughout.                               *)
THEOREM ClientsInvariant == ClientsSpec => []ClientsInv
<1>1. ClientsInit => ClientsInv
  BY ClientsStart
<1>2. ClientsInv /\ [ClientsNext]_allVars => ClientsInv'
  BY ClientsStep
<1> QED
  BY <1>1, <1>2, PTL DEF ClientsSpec

(* The miner daemon acts on the contract's state: it works on claims it    *)
(* holds, finalizes no sooner than it may, keeps to its slots - for any    *)
(* number of jobs, requests, retries and lost receipts.                    *)
THEOREM MinerIsHonest == ClientsSpec => []MinerActsOnChain
<1>1. ClientsInv => MinerActsOnChain
  <2> SUFFICES ASSUME ClientsInv PROVE ClientsTypeOK /\ WorksOnOwnClaims /\ FinalizeNotEarly
    BY DEF MinerActsOnChain
  <2>1. ClientsTyped /\ SlotsKept /\ PollsOne /\ WorksOnOwnClaims /\ FinalizeNotEarly
    BY DEF ClientsInv, OwnInv
  <2>2. ASSUME NEW q \in Requests
        PROVE  /\ req[q].at \in {"post", "poll", "answered", "error", "timeout", "failed"}
               /\ req[q].tries \in 0 .. ClientRetries - 1
               /\ req[q].job \subseteq Jobs /\ (req[q].at = "poll" => Cardinality(req[q].job) = 1)
    <3>1. req[q] \in ReqRec
      BY <2>1 DEF ClientsTyped
    <3>2. req[q].at = "poll" => Cardinality(req[q].job) = 1
      BY <2>1, FS_Singleton DEF PollsOne
    <3> QED
      BY <3>1, <3>2 DEF ReqRec, Requested
  <2>3. \A a \in {Miner, Client} : pool[a] \in Seq(Calls)
    BY <2>1 DEF ClientsTyped
  <2> QED
    BY <2>1, <2>2, <2>3 DEF ClientsTypeOK, ClientsTyped, SlotsKept, ProcRec, Stages
<1> QED
  BY <1>1, ClientsInvariant, PTL

(* infer() pays for one job unless a receipt was late, and what it returns *)
(* is final.                                                               *)
THEOREM ClientIsServed == ClientsSpec => []InferIsHonest
<1>1. ClientsInv => InferIsHonest
  <2> SUFFICES ASSUME ClientsInv PROVE OneJobPerRequest /\ AnswerIsFinal
    BY DEF InferIsHonest
  <2>1. OneEach /\ AnswerIsFinal
    BY DEF ClientsInv, OwnInv
  <2>2. IsFiniteSet(Requests) /\ Through \subseteq Requests
    BY Clients DEF Through
  <2>3. Cardinality(Through) <= Cardinality(Requests) /\ Cardinality(Requests) \in Nat
    BY <2>2, FS_Subset, FS_CardinalityType
  <2> QED
    BY <2>1, <2>3, ThroughFinite DEF OneEach, OneJobPerRequest
<1> QED
  BY <1>1, ClientsInvariant, PTL

(* The miner and the client use the market as anybody may: the composition *)
(* implements the market, with every property proved of it.                *)
THEOREM ClientsImplementMarket == ClientsSpec => Spec
<1>1. ClientsInit => Init
  BY DEF ClientsInit
<1>2. ClientsInv /\ [ClientsNext]_allVars => [Next]_vars
  BY MarketNext
<1> QED
  BY <1>1, <1>2, ClientsInvariant, PTL DEF ClientsSpec, Spec
=============================================================================
