-------------------------- MODULE MineTokenProofs --------------------------
(***************************************************************************)
(* Proofs about MineToken: a puzzle is rewarded once and a block mints     *)
(* once, the wrapped supply on L1 comes from distinct burns on L2, and     *)
(* what was minted on L2 stays within the cap and the halving schedule.    *)
(***************************************************************************)
EXTENDS MineToken, TotalsTheorems

(***************************************************************************)
(* One state of the token.                                                 *)
(***************************************************************************)

Fields == {"minted", "solutions", "target", "challenge", "lastReward", "periodBlock",
           "periodSolutions", "balance", "used", "nonce", "withdrawals"}

\* Each rewarded digest solves an earlier, hence shorter, challenge.
StateOK(s) ==
    /\ DOMAIN s = Fields
    /\ s.solutions \in Nat /\ s.challenge \in Seq(Block) /\ s.nonce \in [Miners -> Nat]
    /\ s.withdrawals \subseteq Withdrawal
    /\ IsFiniteSet(s.used) /\ Cardinality(s.used) = s.solutions
    /\ \A d \in s.used : Len(d.challenge) \in Nat /\ Len(d.challenge) < Len(s.challenge)
    /\ \A d, e \in s.used : d.challenge = e.challenge => d = e

\* The challenge c has no block of a later chain than k.
UpTo(c, k) == c \in Seq(Block) /\ \A i \in 1 .. Len(c) : c[i].chain <= k

\* A waiting transaction, while the chain is the k-th.
TxOK(tx, k) ==
    /\ tx.sender \in Miners /\ tx.nonce \in Nat
    /\ tx.kind = "MINE_SUBMIT" => tx.block \in Block /\ tx.block.chain = k
    /\ tx.kind # "MINE_SUBMIT" => tx.amount \in Nat

LEMMA EmptyOK == StateOK(EmptyMine) /\ EmptyMine.challenge = <<>> /\ EmptyMine.solutions = 0
<1>1. IsFiniteSet({}) /\ Cardinality({}) = 0
  BY FS_EmptySet
<1> QED
  BY <1>1 DEF StateOK, EmptyMine, Fields

\* What a reward does to the parts that matter here.
LEMMA RewardedFields ==
  ASSUME NEW s, StateOK(s), NEW tx, TxOK(tx, tx.block.chain), NEW r, r = Rewarded(s, tx)
  PROVE  /\ DOMAIN r = Fields
         /\ r.used = s.used \cup {tx.digest} /\ r.solutions = s.solutions + 1
         /\ r.challenge = Append(s.challenge, tx.block)
         /\ r.nonce = WithBalance(s.nonce, tx.sender, s.nonce[tx.sender] + 1)
         /\ r.withdrawals = s.withdrawals
<1>1. PICK b, m, c, n : /\ r = [s EXCEPT !.used = s.used \cup {tx.digest}, !.lastReward = tx.block.number,
                                         !.minted = m, !.solutions = s.solutions + 1,
                                         !.balance = b, !.challenge = c, !.nonce = n]
                        /\ c = Append(s.challenge, tx.block)
                        /\ n = WithBalance(s.nonce, tx.sender, s.nonce[tx.sender] + 1)
  BY DEF Rewarded, Renewed
<1>2. DOMAIN s = Fields
  BY DEF StateOK
<1> QED
  BY <1>1, <1>2 DEF Fields

LEMMA AdjustedFields ==
  ASSUME NEW s, DOMAIN s = Fields, NEW n, NEW r, r = Adjusted(s, n)
  PROVE  /\ DOMAIN r = Fields
         /\ r.used = s.used /\ r.solutions = s.solutions /\ r.challenge = s.challenge
         /\ r.nonce = s.nonce /\ r.withdrawals = s.withdrawals
<1>1. PICK t : r = s \/ r = [s EXCEPT !.target = t, !.periodBlock = n, !.periodSolutions = s.solutions]
  BY DEF Adjusted
<1> QED
  BY <1>1 DEF Fields

\* The withdrawal that a burn records.
Withdrawn(tx) == [sender |-> tx.sender, nonce |-> tx.nonce, amount |-> tx.amount]

LEMMA NextNonce ==
  ASSUME NEW f \in [Miners -> Nat], NEW m \in Miners
  PROVE  WithBalance(f, m, f[m] + 1) \in [Miners -> Nat]
BY DEF WithBalance

\* A valid transaction keeps a state sound; only a solution of the present
\* challenge lengthens it, by the block the solution names.
LEMMA AppliedOK ==
  ASSUME NEW s, StateOK(s), NEW tx, NEW k, TxOK(tx, k), Valid(s, tx)
  PROVE  /\ StateOK(Applied(s, tx))
         /\ \/ /\ Applied(s, tx).challenge = s.challenge
               /\ Applied(s, tx).solutions = s.solutions
            \/ /\ tx.kind = "MINE_SUBMIT" /\ tx.digest.challenge = s.challenge
               /\ Applied(s, tx).challenge = Append(s.challenge, tx.block)
               /\ Applied(s, tx).solutions = s.solutions + 1
<1>0. /\ s.solutions \in Nat /\ s.challenge \in Seq(Block) /\ s.nonce \in [Miners -> Nat]
      /\ s.withdrawals \subseteq Withdrawal /\ tx.sender \in Miners /\ DOMAIN s = Fields
  BY DEF StateOK, TxOK
<1>1. CASE tx.kind = "MINE_SUBMIT"
  <2>1. PICK q : q = Rewarded(s, tx)
    OBVIOUS
  <2>2. PICK r : r = Adjusted(q, tx.block.number)
    OBVIOUS
  <2>3. r = Applied(s, tx)
    BY <1>1, <2>1, <2>2 DEF Applied
  <2>4. /\ DOMAIN q = Fields
        /\ q.used = s.used \cup {tx.digest} /\ q.solutions = s.solutions + 1
        /\ q.challenge = Append(s.challenge, tx.block)
        /\ q.nonce = WithBalance(s.nonce, tx.sender, s.nonce[tx.sender] + 1)
        /\ q.withdrawals = s.withdrawals
    BY <1>1, <2>1, RewardedFields DEF TxOK
  <2>5. /\ DOMAIN r = Fields
        /\ r.used = s.used \cup {tx.digest} /\ r.solutions = s.solutions + 1
        /\ r.challenge = Append(s.challenge, tx.block)
        /\ r.nonce = WithBalance(s.nonce, tx.sender, s.nonce[tx.sender] + 1)
        /\ r.withdrawals = s.withdrawals
    BY <2>2, <2>4, AdjustedFields
  <2>6. tx.digest.challenge = s.challenge /\ tx.digest \notin s.used
    BY <1>1 DEF Valid, MayReward, Verified
  <2>7. tx.block \in Block
    BY <1>1 DEF TxOK
  <2>8. r.challenge \in Seq(Block) /\ Len(r.challenge) = Len(s.challenge) + 1 /\ Len(s.challenge) \in Nat
    BY <1>0, <2>5, <2>7
  <2>9. r.nonce \in [Miners -> Nat]
    BY <1>0, <2>5, NextNonce
  <2>10. IsFiniteSet(r.used) /\ Cardinality(r.used) = r.solutions
    <3>1. IsFiniteSet(s.used) /\ Cardinality(s.used) = s.solutions
      BY DEF StateOK
    <3>2. IsFiniteSet(s.used \cup {tx.digest})
          /\ Cardinality(s.used \cup {tx.digest}) = Cardinality(s.used) + 1
      BY <2>6, <3>1, FS_AddElement
    <3> QED
      BY <2>5, <3>1, <3>2
  <2>11. \A d \in r.used : Len(d.challenge) \in Nat /\ Len(d.challenge) < Len(r.challenge)
    BY <2>5, <2>6, <2>8 DEF StateOK
  <2>12. \A d, e \in r.used : d.challenge = e.challenge => d = e
    <3>1. \A d \in s.used : d.challenge # tx.digest.challenge
      BY <2>6 DEF StateOK
    <3> QED
      BY <2>5, <3>1 DEF StateOK
  <2>13. StateOK(r)
    BY <1>0, <2>5, <2>8, <2>9, <2>10, <2>11, <2>12 DEF StateOK
  <2> QED
    BY <1>1, <2>3, <2>5, <2>6, <2>13
<1>2. CASE tx.kind # "MINE_SUBMIT"
  <2>1. PICK r : r = Burned(s, tx)
    OBVIOUS
  <2>2. r = Applied(s, tx)
    BY <1>2, <2>1 DEF Applied
  <2>3. /\ DOMAIN r = Fields
        /\ r.used = s.used /\ r.solutions = s.solutions /\ r.challenge = s.challenge
        /\ r.nonce = WithBalance(s.nonce, tx.sender, s.nonce[tx.sender] + 1)
        /\ r.withdrawals = s.withdrawals \cup {Withdrawn(tx)}
    <3>1. PICK b, m, w, n : /\ r = [s EXCEPT !.balance = b, !.minted = m, !.nonce = n, !.withdrawals = w]
                            /\ n = WithBalance(s.nonce, tx.sender, s.nonce[tx.sender] + 1)
                            /\ w = s.withdrawals \cup {Withdrawn(tx)}
      BY <2>1 DEF Burned, Withdrawn
    <3>2. DOMAIN s = Fields
      BY <1>0
    <3> QED
      BY <3>1, <3>2 DEF Fields
  <2>4. Withdrawn(tx) \in Withdrawal
    BY <1>2 DEF TxOK, Withdrawal, Withdrawn
  <2>5. r.withdrawals \subseteq Withdrawal
    BY <1>0, <2>3, <2>4
  <2>6. r.nonce \in [Miners -> Nat]
    BY <1>0, <2>3, NextNonce
  <2>7. StateOK(r)
    BY <1>0, <2>3, <2>5, <2>6 DEF StateOK
  <2> QED
    BY <2>2, <2>3, <2>7
<1> QED
  BY <1>1, <1>2

-----------------------------------------------------------------------------
(***************************************************************************)
(* The chain.  What a miner works on and what waits in the pool was a      *)
(* published challenge: no longer than the present one, or without a block *)
(* of the present chain.  A block under construction that has minted has a *)
(* longer one that ends with a block of this chain: nothing that waits     *)
(* solves it.                                                              *)
(***************************************************************************)

SubmittedChallenges(T) == {tx.digest.challenge : tx \in {u \in T : u.kind = "MINE_SUBMIT"}}

SeenBy(c, k, n) == UpTo(c, k) /\ (Len(c) <= n \/ UpTo(c, k - 1))
Seen(c) == SeenBy(c, head.chain, Len(mine.challenge))

ChainTypes ==
    /\ StateOK(mine) /\ StateOK(work) /\ StateOK(disk)
    /\ head \in Block
    /\ DOMAIN batch = {"open", "last", "aside"}
    /\ DOMAIN cpu = Miners
    /\ \A tx \in pool \cup batch.aside : TxOK(tx, head.chain)

NotYetMinted == work.challenge = mine.challenge /\ work.solutions = mine.solutions
MintedOnce   ==
    /\ Len(work.challenge) = Len(mine.challenge) + 1
    /\ work.challenge[Len(work.challenge)].chain = head.chain
    /\ work.solutions = mine.solutions + 1

Challenges ==
    /\ UpTo(mine.challenge, head.chain) /\ UpTo(work.challenge, head.chain)
    /\ UpTo(disk.challenge, head.chain)
    /\ \A m \in Miners : Seen(cpu[m].challenge)
    /\ \A c \in SubmittedChallenges(pool \cup batch.aside) : Seen(c)
    /\ NotYetMinted \/ MintedOnce

ChainInv == ChainTypes /\ Challenges

\* Nothing that waits solves the challenge of a block that has minted.
LEMMA NotSolvedAgain ==
  ASSUME ChainInv, NEW c, Seen(c), MintedOnce
  PROVE  c # work.challenge
<1> SUFFICES ASSUME c = work.challenge PROVE FALSE
  OBVIOUS
<1>1. work.challenge \in Seq(Block) /\ mine.challenge \in Seq(Block) /\ head.chain \in Nat
  BY DEF ChainInv, ChainTypes, StateOK, Block
<1>2. PICK n \in Nat : n = Len(c)
  BY <1>1
<1>3. n = Len(mine.challenge) + 1 /\ Len(mine.challenge) \in Nat /\ c[n].chain = head.chain
  BY <1>1, <1>2 DEF MintedOnce
<1>4. UpTo(c, head.chain - 1)
  BY <1>2, <1>3 DEF Seen, SeenBy
<1>5. c[n].chain <= head.chain - 1
  BY <1>2, <1>3, <1>4 DEF UpTo
<1> QED
  BY <1>1, <1>3, <1>5

\* A challenge of the present state has been seen.
LEMMA PresentIsSeen == ASSUME ChainInv PROVE Seen(mine.challenge)
<1>1. Len(mine.challenge) \in Nat
  BY DEF ChainInv, ChainTypes, StateOK
<1> QED
  BY <1>1 DEF ChainInv, Challenges, Seen, SeenBy

LEMMA EmptyIsUpTo == ASSUME NEW k PROVE UpTo(<<>>, k) /\ Len(<<>>) = 0
BY DEF UpTo

LEMMA EmptyIsSeen == ASSUME ChainInv PROVE Seen(<<>>)
<1>1. Len(mine.challenge) \in Nat
  BY DEF ChainInv, ChainTypes, StateOK
<1> QED
  BY <1>1, EmptyIsUpTo DEF Seen, SeenBy

\* Steps of the miners and the wallets.
LEMMA CpuSteps ==
  ASSUME ChainInv, NEW m \in Miners, NEW p, Seen(p.challenge),
         cpu' = [cpu EXCEPT ![m] = p],
         UNCHANGED <<mine, work, disk, head, batch>>,
         \A tx \in pool' \ pool : /\ TxOK(tx, head.chain)
                                  /\ tx.kind = "MINE_SUBMIT" => Seen(tx.digest.challenge)
  PROVE  ChainInv'
<1>1. \A n \in Miners : cpu'[n] = IF n = m THEN p ELSE cpu[n]
  BY DEF ChainInv, ChainTypes
<1>2. \A n \in Miners : Seen(cpu'[n].challenge)
  BY <1>1 DEF ChainInv, Challenges
<1>3. \A c \in SubmittedChallenges(pool' \cup batch.aside) : Seen(c)
  BY DEF ChainInv, Challenges, SubmittedChallenges
<1>5. Challenges'
  BY <1>2, <1>3 DEF ChainInv, Challenges, Seen, SeenBy, UpTo, NotYetMinted, MintedOnce
<1>6. ChainTypes'
  BY DEF ChainInv, ChainTypes, StateOK
<1> QED
  BY <1>5, <1>6 DEF ChainInv

LEMMA MinerSteps ==
  ASSUME ChainInv, NEW m \in Miners,
         FetchInfo(m) \/ SearchedBatch(m) \/ \E n \in HashNonces : SolutionFound(m, n)
  PROVE  ChainInv'
<1>1. Seen(mine.challenge) /\ Seen(<<>>) /\ Seen(cpu[m].challenge)
  BY PresentIsSeen, EmptyIsSeen DEF ChainInv, Challenges
<1>2. Seen(Puzzle.challenge) /\ Seen(Idle.challenge) /\ Seen(Stopped.challenge)
  BY <1>1 DEF Puzzle, Idle, Stopped
<1>3. CASE FetchInfo(m)
  BY <1>2, <1>3, CpuSteps DEF FetchInfo
<1>4. CASE SearchedBatch(m)
  BY <1>2, <1>4, CpuSteps DEF SearchedBatch
<1>5. ASSUME NEW n \in HashNonces, SolutionFound(m, n)
      PROVE  ChainInv'
  <2>1. PICK tx : tx = Solution(m, n)
    OBVIOUS
  <2>2. /\ tx.kind = "MINE_SUBMIT" /\ tx.sender = m /\ tx.nonce = mine.nonce[m]
        /\ tx.digest.challenge = cpu[m].challenge /\ tx.block = head
    BY <2>1 DEF Solution
  <2>3. mine.nonce[m] \in Nat /\ head \in Block
    BY DEF ChainInv, ChainTypes, StateOK
  <2>4. TxOK(tx, head.chain) /\ Seen(tx.digest.challenge)
    BY <1>1, <2>2, <2>3 DEF TxOK
  <2> QED
    BY <1>2, <1>5, <2>1, <2>4, CpuSteps DEF SolutionFound
<1> QED
  BY <1>3, <1>4, <1>5

\* A step that leaves the chain, the miners and the blocks alone.
LEMMA StillChain ==
  ASSUME ChainInv, UNCHANGED <<mine, work, disk, head, batch, cpu>>,
         \A tx \in pool' \ pool : /\ TxOK(tx, head.chain)
                                  /\ tx.kind = "MINE_SUBMIT" => Seen(tx.digest.challenge)
  PROVE  ChainInv'
<1>1. \A c \in SubmittedChallenges(pool' \cup batch.aside) : Seen(c)
  BY DEF ChainInv, Challenges, SubmittedChallenges
<1>2. Challenges'
  BY <1>1 DEF ChainInv, Challenges, Seen, SeenBy, UpTo, NotYetMinted, MintedOnce
<1>3. ChainTypes'
  BY DEF ChainInv, ChainTypes, StateOK
<1> QED
  BY <1>2, <1>3 DEF ChainInv

LEMMA BurnSteps ==
  ASSUME ChainInv, NEW m \in Miners, NEW x \in Amounts, BridgeWithdraw(m, x)
  PROVE  ChainInv'
<1>1. PICK tx : tx = [kind |-> "MINE_BRIDGE", sender |-> m, nonce |-> mine.nonce[m], amount |-> x]
  OBVIOUS
<1>2. mine.nonce[m] \in Nat /\ x \in Nat
  BY MineAmounts DEF ChainInv, ChainTypes, StateOK
<1>3. TxOK(tx, head.chain) /\ tx.kind # "MINE_SUBMIT"
  BY <1>1, <1>2 DEF TxOK
<1> QED
  BY <1>1, <1>3, StillChain DEF BridgeWithdraw

\* Steps of block production.
LEMMA StartSteps == ASSUME ChainInv, StartBlock PROVE ChainInv'
<1>1. UNCHANGED <<mine, disk, head, pool, cpu>> /\ work' = mine
  BY DEF StartBlock
<1>2. DOMAIN batch' = {"open", "last", "aside"} /\ batch'.aside = {}
  BY DEF StartBlock, IdleBatch
<1>3. \A c \in SubmittedChallenges(pool' \cup batch'.aside) : Seen(c)
  BY <1>1, <1>2 DEF ChainInv, Challenges, SubmittedChallenges
<1>4. ChainTypes'
  BY <1>1, <1>2 DEF ChainInv, ChainTypes, StateOK
<1>5. Challenges'
  BY <1>1, <1>3 DEF ChainInv, Challenges, Seen, SeenBy, UpTo, NotYetMinted
<1> QED
  BY <1>4, <1>5 DEF ChainInv

LEMMA BatchSteps == ASSUME ChainInv, BatchStep PROVE ChainInv'
<1>1. PICK tx \in pool :
        /\ pool' = pool \ {tx}
        /\ batch' = IF OutOfOrder(tx) THEN [batch EXCEPT !.aside = batch.aside \cup {tx}]
                    ELSE [batch EXCEPT !.last[tx.sender] = tx.nonce]
        /\ work' = IF ~ OutOfOrder(tx) /\ Valid(work, tx) THEN Applied(work, tx) ELSE work
  BY DEF BatchStep, Top
<1>2. UNCHANGED <<mine, disk, head, cpu>>
  BY DEF BatchStep
<1>3. DOMAIN batch' = {"open", "last", "aside"} /\ batch'.aside \subseteq batch.aside \cup {tx}
  <2>1. DOMAIN batch = {"open", "last", "aside"}
    BY DEF ChainInv, ChainTypes
  <2>2. CASE OutOfOrder(tx)
    BY <1>1, <2>1, <2>2
  <2>3. CASE ~ OutOfOrder(tx)
    <3>1. PICK l : batch' = [batch EXCEPT !.last = l]
      BY <1>1, <2>3
    <3> QED
      BY <2>1, <3>1
  <2> QED
    BY <2>2, <2>3
<1>4. TxOK(tx, head.chain) /\ (tx.kind = "MINE_SUBMIT" => Seen(tx.digest.challenge))
  BY DEF ChainInv, ChainTypes, Challenges, SubmittedChallenges
<1>5. \A c \in SubmittedChallenges(pool' \cup batch'.aside) : Seen(c)
  BY <1>1, <1>3 DEF ChainInv, Challenges, SubmittedChallenges
<1>6. \A u \in pool' \cup batch'.aside : TxOK(u, head.chain)
  BY <1>1, <1>3 DEF ChainInv, ChainTypes
<1>7. /\ StateOK(work') /\ UpTo(work'.challenge, head.chain)
      /\ NotYetMinted' \/ MintedOnce'
  <2>1. CASE work' = work
    BY <1>2, <2>1 DEF ChainInv, ChainTypes, Challenges, NotYetMinted, MintedOnce
  <2>2. CASE work' = Applied(work, tx) /\ Valid(work, tx)
    <3>1. StateOK(work)
      BY DEF ChainInv, ChainTypes
    <3>2. /\ StateOK(work')
          /\ \/ work'.challenge = work.challenge /\ work'.solutions = work.solutions
             \/ /\ tx.kind = "MINE_SUBMIT" /\ tx.digest.challenge = work.challenge
                /\ work'.challenge = Append(work.challenge, tx.block)
                /\ work'.solutions = work.solutions + 1
      BY <1>4, <2>2, <3>1, AppliedOK
    <3>3. CASE work'.challenge = work.challenge /\ work'.solutions = work.solutions
      BY <1>2, <3>2, <3>3 DEF ChainInv, Challenges, NotYetMinted, MintedOnce
    <3>4. CASE /\ tx.kind = "MINE_SUBMIT" /\ tx.digest.challenge = work.challenge
               /\ work'.challenge = Append(work.challenge, tx.block)
               /\ work'.solutions = work.solutions + 1
      <4>1. NotYetMinted
        BY <1>4, <3>4, NotSolvedAgain DEF ChainInv, Challenges
      <4>2. /\ work.challenge \in Seq(Block) /\ work.challenge = mine.challenge
            /\ tx.block \in Block /\ tx.block.chain = head.chain /\ head.chain \in Nat
        BY <1>4, <3>1, <3>4, <4>1 DEF StateOK, TxOK, NotYetMinted, ChainInv, ChainTypes, Block
      <4>3. /\ work'.challenge \in Seq(Block)
            /\ Len(work'.challenge) = Len(work.challenge) + 1
            /\ work'.challenge[Len(work'.challenge)] = tx.block
            /\ \A i \in 1 .. Len(work.challenge) : work'.challenge[i] = work.challenge[i]
        BY <3>4, <4>2
      <4>4. MintedOnce'
        BY <1>2, <3>4, <4>1, <4>2, <4>3 DEF MintedOnce, NotYetMinted
      <4>5. UpTo(work'.challenge, head.chain)
        <5>1. UpTo(work.challenge, head.chain) /\ Len(work.challenge) \in Nat
          BY <4>2 DEF ChainInv, Challenges
        <5>2. ASSUME NEW i \in 1 .. Len(work'.challenge)
              PROVE  work'.challenge[i].chain <= head.chain
          <6>1. CASE i = Len(work'.challenge)
            BY <4>2, <4>3, <6>1
          <6>2. CASE i # Len(work'.challenge)
            <7>1. i \in 1 .. Len(work.challenge)
              BY <4>3, <5>1, <6>2
            <7> QED
              BY <4>3, <5>1, <7>1 DEF UpTo
          <6> QED
            BY <6>1, <6>2
        <5> QED
          BY <4>3, <5>2 DEF UpTo
      <4> QED
        BY <3>2, <4>4, <4>5
    <3> QED
      BY <3>2, <3>3, <3>4
  <2> QED
    BY <1>1, <2>1, <2>2
<1>8. ChainTypes'
  BY <1>2, <1>3, <1>6, <1>7 DEF ChainInv, ChainTypes
<1>9. Challenges'
  BY <1>2, <1>5, <1>7 DEF ChainInv, Challenges, Seen, SeenBy, UpTo
<1> QED
  BY <1>8, <1>9 DEF ChainInv

LEMMA EndSteps == ASSUME ChainInv, NEW parses \in BOOLEAN, EndBlock(parses) PROVE ChainInv'
<1>1. UNCHANGED <<work, cpu>> /\ mine' = work /\ (disk' = work \/ disk' = disk) /\ pool' = batch.aside
  BY DEF EndBlock
<1>2. head' \in Block /\ head'.chain = head.chain
  <2>1. head \in Block
    BY DEF ChainInv, ChainTypes
  <2>2. head' = [number |-> head.number + 1, chain |-> head.chain, parses |-> parses]
    BY DEF EndBlock
  <2> QED
    BY <2>1, <2>2 DEF Block
<1>3. DOMAIN batch' = {"open", "last", "aside"} /\ batch'.aside = {}
  BY DEF EndBlock, IdleBatch
<1>4. Len(mine.challenge) \in Nat /\ Len(work.challenge) \in Nat /\ Len(mine.challenge) <= Len(work.challenge)
  BY DEF ChainInv, ChainTypes, Challenges, StateOK, NotYetMinted, MintedOnce
<1>5. ASSUME NEW c, Seen(c) PROVE SeenBy(c, head'.chain, Len(mine'.challenge))
  <2>1. Len(c) \in Nat
    BY <1>5 DEF Seen, SeenBy, UpTo
  <2> QED
    BY <1>1, <1>2, <1>4, <1>5, <2>1 DEF Seen, SeenBy
<1>6. \A m \in Miners : SeenBy(cpu'[m].challenge, head'.chain, Len(mine'.challenge))
  <2>1. \A m \in Miners : SeenBy(cpu[m].challenge, head'.chain, Len(mine'.challenge))
    BY <1>5 DEF ChainInv, Challenges
  <2> QED
    BY <1>1, <2>1
<1>7. \A c \in SubmittedChallenges(pool' \cup batch'.aside) : SeenBy(c, head'.chain, Len(mine'.challenge))
  BY <1>1, <1>3, <1>5 DEF ChainInv, Challenges, SubmittedChallenges
<1>8. ChainTypes'
  BY <1>1, <1>2, <1>3 DEF ChainInv, ChainTypes
<1>9. /\ UpTo(mine'.challenge, head'.chain) /\ UpTo(work'.challenge, head'.chain)
      /\ UpTo(disk'.challenge, head'.chain)
  BY <1>1, <1>2 DEF ChainInv, Challenges
<1>10. NotYetMinted'
  BY <1>1 DEF NotYetMinted
<1>11. Challenges'
  BY <1>6, <1>7, <1>9, <1>10 DEF Challenges, Seen
<1> QED
  BY <1>8, <1>11 DEF ChainInv

LEMMA RestartSteps == ASSUME ChainInv, Restart PROVE ChainInv'
<1>1. UNCHANGED <<disk, cpu>> /\ mine' = disk /\ work' = disk /\ pool' = {}
  BY DEF Restart
<1>2. head.chain \in Nat /\ head' \in Block /\ head'.chain = head.chain + 1
  BY DEF Restart, Genesis, ChainInv, ChainTypes, Block
<1>3. DOMAIN batch' = {"open", "last", "aside"} /\ batch'.aside = {}
  BY DEF Restart, IdleBatch
<1>4. ASSUME NEW c, UpTo(c, head.chain) PROVE UpTo(c, head'.chain) /\ UpTo(c, head'.chain - 1)
  <2>1. \A i \in 1 .. Len(c) : c[i] \in Block
    BY <1>4 DEF UpTo
  <2>2. \A i \in 1 .. Len(c) : c[i].chain \in Nat /\ c[i].chain <= head.chain
    BY <1>4, <2>1 DEF UpTo, Block
  <2> QED
    BY <1>2, <1>4, <2>2 DEF UpTo
<1>5. \A m \in Miners : SeenBy(cpu'[m].challenge, head'.chain, Len(mine'.challenge))
  BY <1>1, <1>4 DEF ChainInv, Challenges, Seen, SeenBy
<1>6. SubmittedChallenges(pool' \cup batch'.aside) = {}
  BY <1>1, <1>3 DEF SubmittedChallenges
<1>7. ChainTypes'
  BY <1>1, <1>2, <1>3 DEF ChainInv, ChainTypes
<1>8. /\ UpTo(mine'.challenge, head'.chain) /\ UpTo(work'.challenge, head'.chain)
      /\ UpTo(disk'.challenge, head'.chain)
  BY <1>1, <1>4 DEF ChainInv, Challenges
<1>9. NotYetMinted'
  BY <1>1 DEF NotYetMinted
<1>10. Challenges'
  BY <1>5, <1>6, <1>8, <1>9 DEF Challenges, Seen
<1> QED
  BY <1>7, <1>10 DEF ChainInv

LEMMA ChainSteps == ASSUME ChainInv, [Next]_vars PROVE ChainInv'
<1>1. CASE UNCHANGED <<mine, work, disk, head, pool, batch, cpu>>
  BY <1>1, StillChain
<1>2. ASSUME NEW m \in Miners,
             \/ FetchInfo(m) \/ SearchedBatch(m)
             \/ \E n \in HashNonces : SolutionFound(m, n)
             \/ \E x \in Amounts : BridgeWithdraw(m, x)
      PROVE  ChainInv'
  BY <1>2, MinerSteps, BurnSteps
<1>3. CASE \/ \E m \in Miners, x \in Amounts : DepositToL2(m, x) \/ EmergencyRelease(m, x)
           \/ \E w \in mine.withdrawals : FinalizeWithdrawal(w)
           \/ vars' = vars
  BY <1>1, <1>3 DEF DepositToL2, EmergencyRelease, FinalizeWithdrawal, vars
<1>4. CASE StartBlock \/ BatchStep \/ Restart \/ \E parses \in BOOLEAN : EndBlock(parses)
  BY <1>4, StartSteps, BatchSteps, RestartSteps, EndSteps
<1> QED
  BY <1>2, <1>3, <1>4 DEF Next

LEMMA ChainInvHolds == Spec => []ChainInv
<1>1. Init => ChainInv
  <2> SUFFICES ASSUME Init PROVE ChainInv
    OBVIOUS
  <2>1. /\ mine = EmptyMine /\ work = EmptyMine /\ disk = EmptyMine /\ head = Genesis(0)
        /\ pool = {} /\ batch = IdleBatch /\ cpu = [m \in Miners |-> Idle]
    BY DEF Init
  <2>2. head \in Block /\ head.chain = 0
    BY <2>1 DEF Genesis, Block
  <2>3. DOMAIN batch = {"open", "last", "aside"} /\ batch.aside = {}
    BY <2>1 DEF IdleBatch
  <2>4. ChainTypes
    BY <2>1, <2>2, <2>3, EmptyOK DEF ChainTypes
  <2>5. \A m \in Miners : cpu[m].challenge = <<>>
    BY <2>1 DEF Idle
  <2>6. Seen(<<>>) /\ UpTo(<<>>, head.chain)
    <3>1. UpTo(<<>>, head.chain) /\ UpTo(<<>>, head.chain - 1)
      BY EmptyIsUpTo
    <3> QED
      BY <3>1 DEF Seen, SeenBy
  <2>7. SubmittedChallenges(pool \cup batch.aside) = {}
    BY <2>1, <2>3 DEF SubmittedChallenges
  <2>8. Challenges
    BY <2>1, <2>5, <2>6, <2>7, EmptyOK DEF Challenges, NotYetMinted
  <2> QED
    BY <2>4, <2>8 DEF ChainInv
<1> QED
  BY <1>1, ChainSteps, PTL DEF Spec

(* A puzzle is rewarded once and a block mints once, for any number of     *)
(* miners, blocks, refused and set-aside transactions and restarts.        *)
THEOREM PuzzlesPayOnce == Spec => []OneRewardPerPuzzle
<1>1. ASSUME ChainInv PROVE OneRewardPerPuzzle
  <2>1. ASSUME NEW s \in {mine, work, disk}
        PROVE  /\ \A d, e \in s.used : d.challenge = e.challenge => d = e
               /\ Cardinality(s.used) = s.solutions
    BY <1>1, <2>1 DEF ChainInv, ChainTypes, StateOK
  <2>2. work.solutions <= mine.solutions + 1
    BY <1>1 DEF ChainInv, ChainTypes, StateOK, Challenges, NotYetMinted, MintedOnce
  <2> QED
    BY <2>1, <2>2 DEF OneRewardPerPuzzle
<1> QED
  BY <1>1, ChainInvHolds, PTL

-----------------------------------------------------------------------------
(***************************************************************************)
(* The wrapped token.                                                      *)
(***************************************************************************)

Holders == Miners \cup {Vault}
Worths(W) == [w \in W |-> w.amount]

L1Inv ==
    /\ DOMAIN l1 = {"balance", "bridgedIn", "locked", "processed"}
    /\ l1.balance \in [Holders -> Nat] /\ l1.locked \in Nat
    /\ l1.processed \subseteq Withdrawal /\ IsFiniteSet(l1.processed)
    /\ Total(l1.balance) = Total(Worths(l1.processed))
    /\ l1.bridgedIn = Total(l1.balance)
    /\ l1.locked <= l1.balance[Vault]

LEMMA HoldersFinite == IsFiniteSet(Holders)
BY MineSets, FS_AddElement DEF Holders

LEMMA WorthsType == ASSUME NEW W, W \subseteq Withdrawal PROVE Worths(W) \in [W -> Nat]
BY DEF Worths, Withdrawal

\* Moving tokens from one holder to another keeps the total.
LEMMA MovedKeepsTotal ==
  ASSUME L1Inv, NEW a \in Holders, NEW b \in Holders, a # b, NEW x \in Nat, x <= l1.balance[a]
  PROVE  /\ L1Moved(a, b, x) \in [Holders -> Nat]
         /\ Total(L1Moved(a, b, x)) = Total(l1.balance)
         /\ L1Moved(a, b, x)[a] = l1.balance[a] - x
         /\ L1Moved(a, b, x)[b] = l1.balance[b] + x
<1>1. PICK f \in [Holders -> Nat] : f = l1.balance
  BY DEF L1Inv
<1>2. PICK n, k \in Nat : n = f[a] - x /\ k = f[b] + x
  BY <1>1
<1>3. PICK g : g = WithBalance(f, a, n)
  OBVIOUS
<1>4. g \in [Holders -> Nat] /\ Total(g) = Total(f) - f[a] + n
  BY <1>3, HoldersFinite, TotalUpdate
<1>5. g[b] = f[b] /\ g[a] = n
  BY <1>3 DEF WithBalance
<1>6. PICK h : h = WithBalance(g, b, k)
  OBVIOUS
<1>7. h \in [Holders -> Nat] /\ Total(h) = Total(g) - g[b] + k
  <2>1. h \in [Holders -> Nat] /\ h[b] = k /\ \A c \in Holders : c # b => h[c] = g[c]
    BY <1>2, <1>4, <1>6 DEF WithBalance
  <2>2. Total(h) = Total(g) - g[b] + h[b]
    BY <1>4, <2>1, HoldersFinite, TotalChanged
  <2> QED
    BY <2>1, <2>2
<1>8. h[b] = k /\ h[a] = n
  BY <1>4, <1>5, <1>6 DEF WithBalance
<1>9. Total(f) \in Nat /\ Total(g) \in Nat
  BY <1>4, HoldersFinite, TotalType
<1>10. h = L1Moved(a, b, x)
  BY <1>1, <1>2, <1>3, <1>6 DEF L1Moved
<1> QED
  BY <1>1, <1>2, <1>4, <1>5, <1>7, <1>8, <1>9, <1>10

LEMMA FinalizeSteps ==
  ASSUME ChainInv, L1Inv, NEW w \in mine.withdrawals, FinalizeWithdrawal(w)
  PROVE  L1Inv'
<1>1. w \in Withdrawal /\ w \notin l1.processed
  BY DEF ChainInv, ChainTypes, StateOK, FinalizeWithdrawal, Unprocessed
<1>2. w.sender \in Holders /\ w.amount \in Nat
  BY <1>1 DEF Withdrawal, Holders
<1>3. PICK f \in [Holders -> Nat] : f = l1.balance
  BY DEF L1Inv
<1>4. PICK g : g = WithBalance(f, w.sender, f[w.sender] + w.amount)
  OBVIOUS
<1>5. g \in [Holders -> Nat] /\ Total(g) = Total(f) + w.amount
  BY <1>2, <1>4, HoldersFinite, TotalGain
<1>6. g[Vault] = f[Vault]
  BY <1>1, <1>4, MineSets DEF WithBalance, Withdrawal
<1>7. PICK W : W = l1.processed
  OBVIOUS
<1>8. PICK p, q : p = Worths(W) /\ q = Worths(W \cup {w})
  OBVIOUS
<1>9. W \subseteq Withdrawal /\ IsFiniteSet(W) /\ IsFiniteSet(W \cup {w})
  BY <1>7, FS_AddElement DEF L1Inv
<1>10. Total(q) = Total(p) + w.amount
  <2>1. p \in [W -> Nat] /\ q \in [W \cup {w} -> Nat]
    BY <1>1, <1>8, <1>9, WorthsType
  <2>2. q[w] = w.amount /\ \A v \in W : q[v] = p[v]
    BY <1>8 DEF Worths
  <2>3. w \notin W
    BY <1>1, <1>7
  <2>4. Total(q) = Total(p) + q[w]
    BY <1>9, <2>1, <2>2, <2>3, TotalExtended
  <2> QED
    BY <2>2, <2>4
<1>11. l1' = [l1 EXCEPT !.processed = W \cup {w}, !.bridgedIn = l1.bridgedIn + w.amount, !.balance = g]
  BY <1>3, <1>4, <1>7 DEF FinalizeWithdrawal
<1>12. /\ DOMAIN l1' = {"balance", "bridgedIn", "locked", "processed"}
       /\ l1'.processed = W \cup {w} /\ l1'.bridgedIn = l1.bridgedIn + w.amount
       /\ l1'.balance = g /\ l1'.locked = l1.locked
  BY <1>11 DEF L1Inv
<1>13. Total(f) = Total(p) /\ l1.bridgedIn = Total(f) /\ l1.locked \in Nat /\ l1.locked <= f[Vault]
  BY <1>3, <1>7, <1>8 DEF L1Inv
<1> QED
  BY <1>1, <1>5, <1>6, <1>8, <1>9, <1>10, <1>12, <1>13 DEF L1Inv

LEMMA VaultSteps ==
  ASSUME L1Inv, NEW m \in Miners, NEW x \in Amounts, DepositToL2(m, x) \/ EmergencyRelease(m, x)
  PROVE  L1Inv'
<1>1. m \in Holders /\ Vault \in Holders /\ m # Vault /\ x \in Nat
  BY MineSets, MineAmounts DEF Holders
<1>2. l1.balance[Vault] \in Nat /\ l1.locked \in Nat /\ l1.locked <= l1.balance[Vault]
  BY <1>1 DEF L1Inv
<1>3. CASE DepositToL2(m, x)
  <2>1. PICK g : g = L1Moved(m, Vault, x)
    OBVIOUS
  <2>2. g \in [Holders -> Nat] /\ Total(g) = Total(l1.balance) /\ g[Vault] = l1.balance[Vault] + x
    BY <1>1, <1>3, <2>1, MovedKeepsTotal DEF DepositToL2
  <2>3. l1' = [l1 EXCEPT !.balance = g, !.locked = l1.locked + x]
    BY <1>3, <2>1 DEF DepositToL2
  <2>4. /\ DOMAIN l1' = {"balance", "bridgedIn", "locked", "processed"}
        /\ l1'.processed = l1.processed /\ l1'.bridgedIn = l1.bridgedIn
        /\ l1'.balance = g /\ l1'.locked = l1.locked + x
    BY <2>3 DEF L1Inv
  <2> QED
    BY <1>1, <1>2, <2>2, <2>4 DEF L1Inv
<1>4. CASE EmergencyRelease(m, x)
  <2>1. PICK g : g = L1Moved(Vault, m, x)
    OBVIOUS
  <2>2. g \in [Holders -> Nat] /\ Total(g) = Total(l1.balance) /\ g[Vault] = l1.balance[Vault] - x
    BY <1>1, <1>4, <2>1, MovedKeepsTotal DEF EmergencyRelease
  <2>3. l1' = [l1 EXCEPT !.balance = g, !.locked = l1.locked - x] /\ x <= l1.locked
    BY <1>4, <2>1 DEF EmergencyRelease
  <2>4. /\ DOMAIN l1' = {"balance", "bridgedIn", "locked", "processed"}
        /\ l1'.processed = l1.processed /\ l1'.bridgedIn = l1.bridgedIn
        /\ l1'.balance = g /\ l1'.locked = l1.locked - x
    BY <2>3 DEF L1Inv
  <2> QED
    BY <1>1, <1>2, <2>2, <2>3, <2>4 DEF L1Inv
<1> QED
  BY <1>3, <1>4

LEMMA L1InvHolds == Spec => []L1Inv
<1>1. Init => L1Inv
  <2> SUFFICES ASSUME Init PROVE L1Inv
    OBVIOUS
  <2>1. PICK f : f = [a \in Holders |-> 0]
    OBVIOUS
  <2>2. l1 = [balance |-> f, bridgedIn |-> 0, locked |-> 0, processed |-> {}]
    BY <2>1 DEF Init, Holders
  <2>3. f \in [Holders -> Nat] /\ f[Vault] = 0 /\ Total(f) = 0
    <3>1. f \in [Holders -> Nat] /\ \A a \in Holders : f[a] = 0
      BY <2>1
    <3>2. Vault \in Holders
      BY DEF Holders
    <3> QED
      BY <3>1, <3>2, TotalZero
  <2>4. PICK p : p = Worths({})
    OBVIOUS
  <2>5. p \in [{} -> Nat]
    BY <2>4 DEF Worths
  <2>6. Total(p) = 0 /\ IsFiniteSet({})
    BY <2>5, TotalZero, FS_EmptySet
  <2>7. /\ DOMAIN l1 = {"balance", "bridgedIn", "locked", "processed"}
        /\ l1.balance = f /\ l1.bridgedIn = 0 /\ l1.locked = 0 /\ l1.processed = {}
    BY <2>2
  <2> QED
    BY <2>3, <2>4, <2>6, <2>7 DEF L1Inv
<1>2. ChainInv /\ L1Inv /\ [Next]_vars => L1Inv'
  <2> SUFFICES ASSUME ChainInv, L1Inv, [Next]_vars PROVE L1Inv'
    OBVIOUS
  <2>1. CASE l1' = l1
    BY <2>1 DEF L1Inv
  <2>2. CASE \/ \E m \in Miners :
                  \/ FetchInfo(m) \/ SearchedBatch(m)
                  \/ \E n \in HashNonces : SolutionFound(m, n)
                  \/ \E x \in Amounts : BridgeWithdraw(m, x)
             \/ StartBlock \/ BatchStep \/ Restart
             \/ \E parses \in BOOLEAN : EndBlock(parses)
             \/ vars' = vars
    BY <2>1, <2>2 DEF FetchInfo, SearchedBatch, SolutionFound, BridgeWithdraw, StartBlock, BatchStep,
       Restart, EndBlock, vars
  <2> QED
    BY <2>2, VaultSteps, FinalizeSteps DEF Next
<1> QED
  BY <1>1, <1>2, ChainInvHolds, PTL DEF Spec

(* Everything that was minted on L1 was burned on L2, each burn once, and  *)
(* what was deposited for L2 is in the vault, for any burns, repeated      *)
(* relays, transfers into and out of the vault and restarts of L2.         *)
THEOREM WrappedIsBacked == Spec => []WrappedWasBurned
<1>1. L1Inv => WrappedWasBurned
  BY DEF L1Inv, WrappedWasBurned, Worths
<1> QED
  BY <1>1, L1InvHolds, PTL
-----------------------------------------------------------------------------
(***************************************************************************)
(* The schedule.  Every state of the token keeps its books: each wallet's  *)
(* balance is counted in what was minted, and what was minted or burned    *)
(* was emitted by the halvings of the solutions so far.                    *)
(***************************************************************************)

Slot(k)  == INITIAL_REWARD \div 2 ^ (k \div HALVING_INTERVAL)
Slots(n) == [k \in 0 .. (n - 1) |-> Slot(k)]

Books(s) ==
    /\ s \in MineState /\ IsFiniteSet(s.withdrawals)
    /\ Total(s.balance) = s.minted /\ s.minted <= MAX_SUPPLY
    /\ s.minted + Total(Worths(s.withdrawals)) <= Total(Slots(s.solutions))

\* A power of two is the number of subsets.
LEMMA PowerOfTwo == ASSUME NEW h \in Nat PROVE 2 ^ h \in Nat \ {0}
<1>1. IsFiniteSet(1 .. h) /\ Cardinality(1 .. h) = h
  BY FS_Interval
<1>2. IsFiniteSet(SUBSET (1 .. h)) /\ Cardinality(SUBSET (1 .. h)) = 2 ^ h
  BY <1>1, FS_SUBSET
<1>3. SUBSET (1 .. h) # {}
  OBVIOUS
<1>4. Cardinality(SUBSET (1 .. h)) \in Nat /\ Cardinality(SUBSET (1 .. h)) # 0
  BY <1>2, <1>3, FS_CardinalityType, FS_EmptySet
<1> QED
  BY <1>2, <1>4

LEMMA SlotType == ASSUME NEW k \in Nat PROVE Slot(k) \in Nat
<1>1. HALVING_INTERVAL \in Nat \ {0} /\ INITIAL_REWARD \in Nat
  BY MineAmounts
<1>2. PICK h \in Nat : h = k \div HALVING_INTERVAL
  BY <1>1
<1>3. PICK d \in Nat \ {0} : d = 2 ^ h
  BY PowerOfTwo
<1>4. Slot(k) = INITIAL_REWARD \div d
  BY <1>2, <1>3 DEF Slot
<1> QED
  BY <1>1, <1>4

LEMMA SlotsFacts ==
  ASSUME NEW n \in Nat
  PROVE  /\ Total(Slots(n)) \in Nat
         /\ Total(Slots(n + 1)) = Total(Slots(n)) + Slot(n)
<1>1. \A k \in 0 .. n : Slot(k) \in Nat
  BY SlotType
<1>2. PICK S : S = 0 .. (n - 1)
  OBVIOUS
<1>3. IsFiniteSet(S) /\ n \notin S /\ S \cup {n} = 0 .. n
  BY <1>2, FS_Interval
<1>4. PICK f, g : f = Slots(n) /\ g = Slots(n + 1)
  OBVIOUS
<1>5. f \in [S -> Nat] /\ \A k \in S : f[k] = Slot(k)
  BY <1>1, <1>2, <1>4 DEF Slots
<1>6. (n + 1) - 1 = n
  OBVIOUS
<1>7. g \in [S \cup {n} -> Nat] /\ \A k \in S \cup {n} : g[k] = Slot(k)
  BY <1>1, <1>3, <1>4, <1>6 DEF Slots
<1>8. Total(g) = Total(f) + g[n]
  BY <1>3, <1>5, <1>7, TotalExtended
<1> QED
  BY <1>3, <1>4, <1>5, <1>7, <1>8, TotalType

LEMMA RewardFacts ==
  ASSUME NEW s, Books(s)
  PROVE  /\ Reward(s) \in Nat /\ Reward(s) <= Slot(s.solutions)
         /\ s.minted + Reward(s) <= MAX_SUPPLY
<1>1. s.solutions \in Nat /\ s.minted \in Nat /\ s.minted <= MAX_SUPPLY /\ MAX_SUPPLY \in Nat
  BY MineAmounts DEF Books, MineState
<1>2. Slot(s.solutions) \in Nat
  BY <1>1, SlotType
<1>3. Emission(s.solutions) = 0 \/ Emission(s.solutions) = Slot(s.solutions)
  BY DEF Emission, Slot
<1> QED
  BY <1>1, <1>2, <1>3 DEF Reward, Least

LEMMA RewardedBooks ==
  ASSUME NEW s, Books(s), NEW tx \in SubmitTx
  PROVE  Books(Rewarded(s, tx))
<1>1. PICK q : q = Rewarded(s, tx)
  OBVIOUS
<1>2. PICK r \in Nat : r = Reward(s)
  BY RewardFacts
<1>3. s \in MineState
  BY DEF Books
<1>4. /\ tx.sender \in Miners /\ tx.digest \in Digest /\ tx.block \in Block
  BY DEF SubmitTx
<1>5. PICK b, n : /\ b = WithBalance(s.balance, tx.sender, s.balance[tx.sender] + r)
                  /\ n = WithBalance(s.nonce, tx.sender, s.nonce[tx.sender] + 1)
  OBVIOUS
<1>6. b \in [Miners -> Nat] /\ Total(b) = Total(s.balance) + r
  <2>1. s.balance \in [Miners -> Nat] /\ IsFiniteSet(Miners)
    BY <1>3, MineSets DEF MineState
  <2> QED
    BY <1>4, <1>5, <2>1, TotalGain
<1>7. n \in [Miners -> Nat]
  BY <1>3, <1>4, <1>5, NextNonce DEF MineState
<1>8. PICK c : c = Append(s.challenge, tx.block)
  OBVIOUS
<1>9. c \in Seq(Block)
  BY <1>3, <1>4, <1>8 DEF MineState
<1>10. tx.block.number \in Nat
  BY <1>4 DEF Block
<1>11. q = [s EXCEPT !.used = s.used \cup {tx.digest}, !.lastReward = tx.block.number,
                     !.minted = s.minted + r, !.solutions = s.solutions + 1,
                     !.balance = b, !.challenge = c, !.nonce = n]
  BY <1>1, <1>2, <1>5, <1>8 DEF Rewarded, Renewed
<1>12. q \in MineState
  <2>1. s.used \cup {tx.digest} \in SUBSET Digest /\ s.minted + r \in Nat /\ s.solutions + 1 \in Nat
    BY <1>2, <1>3, <1>4 DEF MineState
  <2> QED
    BY <1>3, <1>6, <1>7, <1>9, <1>10, <1>11, <2>1 DEF MineState
<1>13. /\ q.balance = b /\ q.minted = s.minted + r /\ q.solutions = s.solutions + 1
       /\ q.withdrawals = s.withdrawals
  BY <1>3, <1>11 DEF MineState
<1>14. /\ s.solutions \in Nat /\ s.minted \in Nat
       /\ IsFiniteSet(s.withdrawals) /\ s.withdrawals \subseteq Withdrawal
       /\ Total(s.balance) = s.minted
       /\ s.minted + Total(Worths(s.withdrawals)) <= Total(Slots(s.solutions))
  BY <1>3 DEF Books, MineState
<1>15. Total(Worths(s.withdrawals)) \in Nat
  BY <1>14, WorthsType, TotalType
<1>16. /\ Total(Slots(s.solutions)) \in Nat /\ Slot(s.solutions) \in Nat
       /\ Total(Slots(q.solutions)) = Total(Slots(s.solutions)) + Slot(s.solutions)
  BY <1>13, <1>14, SlotsFacts, SlotType
<1>17. r <= Slot(s.solutions) /\ s.minted + r <= MAX_SUPPLY
  BY <1>2, RewardFacts
<1>18. q.minted + Total(Worths(q.withdrawals)) <= Total(Slots(q.solutions))
  <2>1. q.minted + Total(Worths(q.withdrawals)) = s.minted + r + Total(Worths(s.withdrawals))
    BY <1>13
  <2> QED
    BY <1>2, <1>14, <1>15, <1>16, <1>17, <2>1
<1> QED
  BY <1>1, <1>6, <1>12, <1>13, <1>14, <1>17, <1>18 DEF Books

LEMMA DivType == ASSUME NEW a \in Int, NEW b \in Nat \ {0} PROVE a \div b \in Int
  OBVIOUS

LEMMA AdjustedBooks ==
  ASSUME NEW s, Books(s), NEW number \in Nat
  PROVE  Books(Adjusted(s, number))
<1>1. PICK q : q = Adjusted(s, number)
  OBVIOUS
<1>2. CASE q = s
  BY <1>1, <1>2
<1>3. CASE q # s
  <2>1. s \in MineState
    BY DEF Books
  <2>2. s.target \in Nat /\ s.solutions \in Nat /\ s.periodBlock \in Nat /\ s.periodSolutions \in Nat
    BY <2>1 DEF MineState
  <2>3. TARGET_BLOCK_TIME \in Nat /\ MINIMUM_TARGET \in Nat /\ MAXIMUM_TARGET \in Nat
        /\ MINIMUM_TARGET <= MAXIMUM_TARGET
    BY MineAmounts
  <2>4. PICK i, e \in Int : i = InPeriod(s) /\ e = Elapsed(s, number) /\ e # 0
    BY <2>2 DEF InPeriod, Elapsed
  <2>5. PICK w \in Int : w = TARGET_BLOCK_TIME * i
    BY <2>3
  <2>6. PICK x \in Int : x = Scaled(s.target, w, e)
    <3>1. s.target \div 4 \in Int /\ 4 * s.target \in Int
      BY <2>2
    <3>2. CASE e < 0
      BY <3>1, <3>2 DEF Scaled
    <3>3. CASE ~ (e < 0)
      <4>1. e \in Nat \ {0}
        BY <2>4, <3>3
      <4>2. PICK y \in Int : y = s.target * w
        BY <2>2
      <4>3. y \div e \in Int
        BY <4>1, DivType
      <4> QED
        BY <3>1, <4>2, <4>3 DEF Scaled
    <3> QED
      BY <3>2, <3>3
  <2>7. PICK t : t = Greater(MINIMUM_TARGET, Least(MAXIMUM_TARGET, x))
    OBVIOUS
  <2>8. t \in Nat
    BY <2>3, <2>7 DEF Greater, Least
  <2>9. q = [s EXCEPT !.target = t, !.periodBlock = number, !.periodSolutions = s.solutions]
    BY <1>1, <1>3, <2>4, <2>5, <2>6, <2>7 DEF Adjusted
  <2>10. q \in MineState
    BY <2>1, <2>2, <2>8, <2>9 DEF MineState
  <2>11. /\ q.balance = s.balance /\ q.minted = s.minted /\ q.solutions = s.solutions
         /\ q.withdrawals = s.withdrawals
    BY <2>1, <2>9 DEF MineState
  <2> QED
    BY <1>1, <2>10, <2>11 DEF Books
<1> QED
  BY <1>2, <1>3

LEMMA BurnedBooks ==
  ASSUME NEW s, Books(s), NEW tx \in BridgeTx, Valid(s, tx)
  PROVE  Books(Burned(s, tx))
<1>1. PICK q : q = Burned(s, tx)
  OBVIOUS
<1>2. s \in MineState
  BY DEF Books
<1>3. PICK m \in Miners, a \in Nat : m = tx.sender /\ a = tx.amount
  BY DEF BridgeTx
<1>4. PICK f \in [Miners -> Nat] : f = s.balance
  BY <1>2 DEF MineState
<1>5. a <= f[m]
  BY <1>3, <1>4 DEF Valid, BridgeTx
<1>6. PICK d \in Nat : d = f[m] - a
  BY <1>5
<1>7. PICK b, n : b = WithBalance(f, m, d) /\ n = WithBalance(s.nonce, m, s.nonce[m] + 1)
  OBVIOUS
<1>8. b \in [Miners -> Nat] /\ Total(b) = Total(f) - f[m] + d
  BY <1>7, MineSets, TotalUpdate
<1>9. n \in [Miners -> Nat]
  BY <1>2, <1>7, NextNonce DEF MineState
<1>10. PICK w : w = Withdrawn(tx)
  OBVIOUS
<1>11. w \in Withdrawal /\ w.amount = a
  BY <1>3, <1>10 DEF Withdrawn, Withdrawal, BridgeTx
<1>12. q = [s EXCEPT !.balance = b, !.minted = s.minted - a, !.nonce = n,
                     !.withdrawals = s.withdrawals \cup {w}]
  BY <1>1, <1>3, <1>4, <1>6, <1>7, <1>10 DEF Burned, Withdrawn
<1>13. /\ s.minted \in Nat /\ s.withdrawals \subseteq Withdrawal /\ IsFiniteSet(s.withdrawals)
       /\ Total(f) = s.minted /\ s.minted <= MAX_SUPPLY
       /\ s.minted + Total(Worths(s.withdrawals)) <= Total(Slots(s.solutions))
       /\ s.solutions \in Nat
  BY <1>2, <1>4 DEF Books, MineState
<1>14. f[m] <= s.minted
  BY <1>13, MineSets, TotalAtLeast
<1>15. s.minted - a \in Nat
  BY <1>5, <1>13, <1>14
<1>16. q \in MineState
  <2>1. s.withdrawals \cup {w} \in SUBSET Withdrawal
    BY <1>11, <1>13
  <2> QED
    BY <1>2, <1>8, <1>9, <1>12, <1>15, <2>1 DEF MineState
<1>17. /\ q.balance = b /\ q.minted = s.minted - a /\ q.solutions = s.solutions
       /\ q.withdrawals = s.withdrawals \cup {w}
  BY <1>2, <1>12 DEF MineState
<1>18. PICK W : W = s.withdrawals
  OBVIOUS
<1>19. PICK g, h : g = Worths(W) /\ h = Worths(W \cup {w})
  OBVIOUS
<1>20. g \in [W -> Nat] /\ h \in [W \cup {w} -> Nat] /\ h[w] = a /\ \A v \in W : h[v] = g[v]
  BY <1>11, <1>13, <1>18, <1>19, WorthsType DEF Worths
<1>21. IsFiniteSet(W) /\ IsFiniteSet(W \cup {w}) /\ Total(g) \in Nat
  BY <1>13, <1>18, <1>20, FS_AddElement, TotalType
<1>22. Total(h) \in Nat /\ Total(h) <= Total(g) + a
  <2>1. CASE w \in W
    <3>1. W \cup {w} = W
      BY <2>1
    <3>2. h = g
      BY <1>19, <3>1
    <3> QED
      BY <1>21, <3>2
  <2>2. CASE w \notin W
    <3>1. Total(h) = Total(g) + h[w]
      BY <1>20, <1>21, <2>2, TotalExtended
    <3> QED
      BY <1>20, <1>21, <3>1
  <2> QED
    BY <2>1, <2>2
<1>23. Total(b) = s.minted - a
  BY <1>3, <1>6, <1>8, <1>13
<1>24. Total(Slots(s.solutions)) \in Nat
  BY <1>13, SlotsFacts
<1>25. (s.minted - a) + Total(h) <= Total(Slots(s.solutions))
  BY <1>13, <1>18, <1>19, <1>21, <1>22, <1>24
<1>26. q.minted <= MAX_SUPPLY
  BY <1>13, <1>17, MineAmounts
<1> QED
  BY <1>1, <1>16, <1>17, <1>18, <1>19, <1>21, <1>23, <1>25, <1>26 DEF Books

LEMMA AppliedBooks ==
  ASSUME NEW s, Books(s), NEW tx \in SubmitTx \cup BridgeTx, Valid(s, tx)
  PROVE  Books(Applied(s, tx))
<1>1. CASE tx.kind = "MINE_SUBMIT"
  <2>1. tx \in SubmitTx
    BY <1>1 DEF SubmitTx, BridgeTx
  <2>2. PICK q : q = Rewarded(s, tx)
    OBVIOUS
  <2>3. Books(q) /\ tx.block.number \in Nat
    BY <2>1, <2>2, RewardedBooks DEF SubmitTx, Block
  <2>4. Books(Adjusted(q, tx.block.number))
    BY <2>3, AdjustedBooks
  <2> QED
    BY <1>1, <2>2, <2>4 DEF Applied
<1>2. CASE tx.kind # "MINE_SUBMIT"
  <2>1. tx \in BridgeTx
    BY <1>2 DEF SubmitTx, BridgeTx
  <2> QED
    BY <1>2, <2>1, BurnedBooks DEF Applied
<1> QED
  BY <1>1, <1>2

Waiting  == SubmitTx \cup BridgeTx
BatchRec == [open : BOOLEAN, last : [Miners -> Nat \cup {-1}], aside : SUBSET Waiting]
CpuRec   == [at : {"idle", "mining", "stopped"}, challenge : Seq(Block), target : Nat]
L1Rec    == [balance : [Holders -> Nat], bridgedIn : Nat, locked : Nat,
             processed : SUBSET Withdrawal]

SupplyInv ==
    /\ Books(mine) /\ Books(work) /\ Books(disk)
    /\ head \in Block /\ pool \in SUBSET Waiting /\ batch \in BatchRec
    /\ cpu \in [Miners -> CpuRec] /\ l1 \in L1Rec

LEMMA IdleTypes ==
  /\ IdleBatch \in BatchRec
  /\ Idle \in CpuRec /\ Stopped \in CpuRec
  /\ \A c \in Nat : Genesis(c) \in Block
<1>1. <<>> \in Seq(Block)
  OBVIOUS
<1>2. [m \in Miners |-> -1] \in [Miners -> Nat \cup {-1}]
  OBVIOUS
<1> QED
  BY <1>1, <1>2 DEF IdleBatch, BatchRec, Idle, Stopped, CpuRec, Genesis, Block

LEMMA EmptyBooks == Books(EmptyMine)
<1>1. PICK f : f = [m \in Miners |-> 0]
  OBVIOUS
<1>2. f \in [Miners -> Nat] /\ Total(f) = 0
  <2>1. f \in [Miners -> Nat] /\ \A m \in Miners : f[m] = 0
    BY <1>1
  <2> QED
    BY <2>1, TotalZero
<1>3. PICK p : p = Worths({})
  OBVIOUS
<1>4. Total(p) = 0 /\ IsFiniteSet({})
  <2>1. p \in [{} -> Nat]
    BY <1>3 DEF Worths
  <2> QED
    BY <2>1, TotalZero, FS_EmptySet
<1>5. Total(Slots(0)) \in Nat
  BY SlotsFacts
<1>6. MAXIMUM_TARGET \in Nat /\ MAX_SUPPLY \in Nat /\ <<>> \in Seq(Block)
  BY MineAmounts
<1>7. EmptyMine \in MineState
  BY <1>1, <1>2, <1>6 DEF EmptyMine, MineState
<1>8. /\ EmptyMine.balance = f /\ EmptyMine.minted = 0 /\ EmptyMine.solutions = 0
      /\ EmptyMine.withdrawals = {}
  BY <1>1 DEF EmptyMine
<1> QED
  BY <1>2, <1>3, <1>4, <1>5, <1>6, <1>7, <1>8 DEF Books

LEMMA SupplyInit == Init => SupplyInv
<1> SUFFICES ASSUME Init PROVE SupplyInv
  OBVIOUS
<1>1. Books(mine) /\ Books(work) /\ Books(disk)
  BY EmptyBooks DEF Init
<1>2. head \in Block /\ batch \in BatchRec /\ pool = {}
  BY IdleTypes DEF Init
<1>3. cpu \in [Miners -> CpuRec]
  BY IdleTypes DEF Init
<1>4. l1 \in L1Rec
  BY DEF Init, L1Rec, Holders
<1> QED
  BY <1>1, <1>2, <1>3, <1>4 DEF SupplyInv

MinerMoves(m) ==
    \/ FetchInfo(m) \/ SearchedBatch(m)
    \/ \E n \in HashNonces : SolutionFound(m, n)
    \/ \E x \in Amounts : BridgeWithdraw(m, x)

LEMMA MinersKeepBooks ==
  ASSUME SupplyInv, NEW m \in Miners, MinerMoves(m)
  PROVE  SupplyInv'
<1>1. mine \in MineState /\ cpu[m] \in CpuRec /\ cpu \in [Miners -> CpuRec] /\ head \in Block
  BY DEF SupplyInv, Books
<1>2. UNCHANGED <<mine, work, disk, head, batch, l1>>
  BY DEF MinerMoves, FetchInfo, SearchedBatch, SolutionFound, BridgeWithdraw
<1>3. Puzzle \in CpuRec
  BY <1>1 DEF Puzzle, CpuRec, MineState
<1>4. cpu' \in [Miners -> CpuRec]
  BY <1>1, <1>3, IdleTypes DEF MinerMoves, FetchInfo, SearchedBatch, SolutionFound, BridgeWithdraw
<1>5. mine.nonce[m] \in Nat
  BY <1>1 DEF MineState
<1>6. ASSUME NEW n \in HashNonces PROVE Solution(m, n) \in Waiting
  <2>1. [challenge |-> cpu[m].challenge, miner |-> m, nonce |-> n] \in Digest /\ cpu[m].target \in Nat
    BY <1>1 DEF CpuRec, Digest
  <2> QED
    BY <1>1, <1>5, <2>1 DEF Solution, Waiting, SubmitTx
<1>7. ASSUME NEW x \in Amounts
      PROVE  [kind |-> "MINE_BRIDGE", sender |-> m, nonce |-> mine.nonce[m], amount |-> x] \in Waiting
  BY <1>5, MineAmounts DEF Waiting, BridgeTx
<1>8. pool' \in SUBSET Waiting
  <2>1. pool \in SUBSET Waiting
    BY DEF SupplyInv
  <2> QED
    BY <1>6, <1>7, <2>1 DEF MinerMoves, FetchInfo, SearchedBatch, SolutionFound, BridgeWithdraw
<1> QED
  BY <1>2, <1>4, <1>8 DEF SupplyInv

LEMMA BlocksKeepBooks ==
  ASSUME SupplyInv, StartBlock \/ BatchStep \/ Restart \/ \E parses \in BOOLEAN : EndBlock(parses)
  PROVE  SupplyInv'
<1>1. /\ Books(mine) /\ Books(work) /\ Books(disk)
      /\ head \in Block /\ pool \in SUBSET Waiting /\ batch \in BatchRec
  BY DEF SupplyInv
<1>2. UNCHANGED <<cpu, l1>>
  BY DEF StartBlock, BatchStep, Restart, EndBlock
<1>3. batch.aside \in SUBSET Waiting /\ head.number \in Nat /\ head.chain \in Nat
  BY <1>1 DEF BatchRec, Block
<1>4. CASE StartBlock
  <2>1. batch' \in BatchRec
    BY <1>4, IdleTypes DEF StartBlock, BatchRec
  <2> QED
    BY <1>1, <1>2, <1>4, <2>1 DEF StartBlock, SupplyInv
<1>5. CASE BatchStep
  <2>1. PICK tx \in pool :
           /\ pool' = pool \ {tx}
           /\ batch' = IF OutOfOrder(tx) THEN [batch EXCEPT !.aside = batch.aside \cup {tx}]
                       ELSE [batch EXCEPT !.last[tx.sender] = tx.nonce]
           /\ work' = IF ~ OutOfOrder(tx) /\ Valid(work, tx) THEN Applied(work, tx) ELSE work
    BY <1>5 DEF BatchStep, Top
  <2>2. tx \in Waiting
    BY <1>1
  <2>3. tx.sender \in Miners /\ tx.nonce \in Nat
    BY <2>2 DEF Waiting, SubmitTx, BridgeTx
  <2>4. Books(work')
    BY <1>1, <2>1, <2>2, AppliedBooks DEF Waiting
  <2>5. batch' \in BatchRec
    <3>1. CASE OutOfOrder(tx)
      BY <1>1, <1>3, <2>1, <2>2, <3>1 DEF BatchRec
    <3>2. CASE ~ OutOfOrder(tx)
      BY <1>1, <2>1, <2>3, <3>2 DEF BatchRec
    <3> QED
      BY <3>1, <3>2
  <2>6. pool' \in SUBSET Waiting /\ UNCHANGED <<mine, disk, head>>
    BY <1>1, <1>5, <2>1 DEF BatchStep
  <2> QED
    BY <1>1, <1>2, <2>4, <2>5, <2>6 DEF SupplyInv
<1>6. CASE Restart
  <2>1. head' \in Block
    BY <1>3, <1>6, IdleTypes DEF Restart
  <2> QED
    BY <1>1, <1>2, <1>6, <2>1, IdleTypes DEF Restart, SupplyInv
<1>7. ASSUME NEW parses \in BOOLEAN, EndBlock(parses) PROVE SupplyInv'
  <2>1. head' \in Block
    BY <1>3, <1>7 DEF EndBlock, Block
  <2> QED
    BY <1>1, <1>2, <1>3, <1>7, <2>1, IdleTypes DEF EndBlock, SupplyInv
<1> QED
  BY <1>4, <1>5, <1>6, <1>7

LEMMA L1KeepsBooks ==
  ASSUME SupplyInv, L1Inv', UNCHANGED <<mine, work, disk, head, pool, batch, cpu>>,
         \/ \E b, k : l1' = [l1 EXCEPT !.balance = b, !.locked = k]
         \/ \E p, i, b : l1' = [l1 EXCEPT !.processed = p, !.bridgedIn = i, !.balance = b]
  PROVE  SupplyInv'
<1>1. /\ l1'.balance \in [Holders -> Nat] /\ l1'.locked \in Nat
      /\ l1'.processed \in SUBSET Withdrawal /\ l1'.bridgedIn \in Nat
  <2>1. /\ l1'.balance \in [Holders -> Nat] /\ l1'.locked \in Nat
        /\ l1'.processed \in SUBSET Withdrawal
    BY DEF L1Inv
  <2>2. PICK f \in [Holders -> Nat] : f = l1'.balance
    BY <2>1
  <2>3. l1'.bridgedIn = Total(f)
    BY <2>2 DEF L1Inv
  <2>4. Total(f) \in Nat
    BY HoldersFinite, TotalType
  <2> QED
    BY <2>1, <2>3, <2>4
<1>2. l1 \in L1Rec
  BY DEF SupplyInv
<1>3. CASE \E b, k : l1' = [l1 EXCEPT !.balance = b, !.locked = k]
  <2>1. PICK b, k : l1' = [l1 EXCEPT !.balance = b, !.locked = k]
    BY <1>3
  <2>2. l1'.balance = b /\ l1'.locked = k
    BY <1>2, <2>1 DEF L1Rec
  <2>3. l1' \in L1Rec
    BY <1>1, <1>2, <2>1, <2>2 DEF L1Rec
  <2> QED
    BY <2>3 DEF SupplyInv
<1>4. CASE \E p, i, b : l1' = [l1 EXCEPT !.processed = p, !.bridgedIn = i, !.balance = b]
  <2>1. PICK p, i, b : l1' = [l1 EXCEPT !.processed = p, !.bridgedIn = i, !.balance = b]
    BY <1>4
  <2>2. l1'.balance = b /\ l1'.processed = p /\ l1'.bridgedIn = i
    BY <1>2, <2>1 DEF L1Rec
  <2>3. l1' \in L1Rec
    BY <1>1, <1>2, <2>1, <2>2 DEF L1Rec
  <2> QED
    BY <2>3 DEF SupplyInv
<1> QED
  BY <1>3, <1>4

LEMMA SupplyStep == SupplyInv /\ L1Inv' /\ [Next]_vars => SupplyInv'
<1> SUFFICES ASSUME SupplyInv, L1Inv', [Next]_vars PROVE SupplyInv'
  OBVIOUS
<1>1. ASSUME NEW m \in Miners, NEW x \in Amounts, DepositToL2(m, x) \/ EmergencyRelease(m, x)
      PROVE  SupplyInv'
  BY <1>1, L1KeepsBooks DEF DepositToL2, EmergencyRelease
<1>2. ASSUME NEW w \in mine.withdrawals, FinalizeWithdrawal(w)
      PROVE  SupplyInv'
  BY <1>2, L1KeepsBooks DEF FinalizeWithdrawal
<1>3. CASE UNCHANGED vars
  BY <1>3 DEF SupplyInv, vars
<1>4. ASSUME NEW m \in Miners, MinerMoves(m)
      PROVE  SupplyInv'
  BY <1>4, MinersKeepBooks
<1>5. CASE StartBlock \/ BatchStep \/ Restart \/ \E parses \in BOOLEAN : EndBlock(parses)
  BY <1>5, BlocksKeepBooks
<1> QED
  BY <1>1, <1>2, <1>3, <1>4, <1>5 DEF Next, MinerMoves

(* The books balance within the cap and the halving schedule in every      *)
(* state, published, under construction or on disk, for any rewards,       *)
(* intervals, targets, burns, refused transactions and restarts.           *)
THEOREM SupplyFollowsSchedule == Spec => []SupplyIsScheduled
<1>1. SupplyInv => SupplyIsScheduled
  <2> SUFFICES ASSUME SupplyInv PROVE SupplyIsScheduled
    OBVIOUS
  <2>1. \A s \in {mine, work, disk} : Books(s)
    BY DEF SupplyInv
  <2>2. BooksBalance
    BY <2>1 DEF Books, BooksBalance
  <2>3. WithinSchedule
    <3>1. \A s : Schedule(s) = Total(Slots(s.solutions))
      BY DEF Schedule, Slots, Slot
    <3> QED
      BY <2>1, <3>1 DEF WithinSchedule, Books, Worths
  <2>4. TypeOK
    BY <2>1 DEF SupplyInv, Books, TypeOK, BatchRec, CpuRec, L1Rec, Holders, Waiting
  <2> QED
    BY <2>2, <2>3, <2>4 DEF SupplyIsScheduled
<1> QED
  BY <1>1, SupplyInit, SupplyStep, L1InvHolds, PTL DEF Spec
=============================================================================
