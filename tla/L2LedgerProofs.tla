--------------------------- MODULE L2LedgerProofs ---------------------------
(***************************************************************************)
(* What each transaction does to the type of a state, to the tokens in use *)
(* and to the nonces; and from it: type correctness, replay protection, the*)
(* pending nonces and the absence of inflation are invariants of L2Ledger  *)
(* for all values of its constants.                                        *)
(***************************************************************************)
EXTENDS L2Ledger, TotalsTheorems

\* A transaction as the RPC methods, the orchestrator and the watcher make it.
TxOK(tx) ==
    /\ tx.sender = NoOne <=> tx.body.kind \notin UserKinds
    /\ tx.body.kind = "TRANSFER" => tx.body.peer \in Accounts
    /\ tx.body.kind = "JOB_POST" => tx.body.id \in Jobs /\ tx.body.n # 0
    /\ tx.body.kind = "SHARD_COMMIT" => tx.body.id \in Jobs /\ tx.body.peer \in Accounts
    /\ tx.body.kind = "BRIDGE_DEPOSIT" =>
          /\ tx.body.id \in Deposits /\ tx.body.peer \in Accounts
          /\ tx.body.amount = Deposit[tx.body.id].amount
    /\ tx.body.kind = "SLASH_HARD" => tx.body.peer \in Accounts

UserOK(tx) == tx \in Tx /\ TxOK(tx) /\ tx.body.kind \in UserKinds

(* The fields of a transaction.                                            *)
LEMMA TxFields ==
  ASSUME NEW tx \in Tx
  PROVE  /\ tx.nonce \in Nat /\ tx.body.amount \in Nat /\ tx.body.n \in Nat
         /\ tx.sender \in Holder /\ tx.body.peer \in Holder /\ tx.body.kind \in Kinds
  BY DEF Tx, Bodies

(* A wallet's transaction has a sender.                                    *)
LEMMA UserFields ==
  ASSUME NEW tx, UserOK(tx)
  PROVE  tx \in Tx /\ tx.sender \in Accounts /\ tx.nonce \in Nat /\ tx.body.amount \in Nat
  BY TxFields DEF UserOK, TxOK, Holder

(* The fields of a state.                                                  *)
LEMMA StateFields ==
  ASSUME NEW s \in StateRec
  PROVE  /\ s.balance \in [Accounts -> Nat] /\ s.stake \in [Accounts -> Nat]
         /\ s.nonce \in [Accounts -> Nat] /\ s.jobs \in [Jobs -> JobRec]
         /\ s.credits \in [Deposits -> Nat] /\ s.withdrawn \in Nat /\ s.accepted \in SUBSET Tx
  BY DEF StateRec

(* Balances after a debit that is covered, a credit, and both.             *)
LEMMA DebitedTotal ==
  ASSUME NEW s \in StateRec, NEW a \in Accounts, NEW x \in Nat, x <= s.balance[a]
  PROVE  Debited(s, a, x) \in [Accounts -> Nat] /\ Total(Debited(s, a, x)) = Total(s.balance) - x
<1>1. PICK f \in [Accounts -> Nat] : f = s.balance
  BY StateFields
<1>2. PICK n \in Nat : n = f[a] - x
  BY <1>1
<1>3. WithBalance(f, a, n) \in [Accounts -> Nat] /\ Total(WithBalance(f, a, n)) = Total(f) - f[a] + n
  BY TotalUpdate, LedgerSets
<1>4. Total(f) \in Nat
  BY TotalType, LedgerSets
<1>5. f[a] \in Nat
  OBVIOUS
<1>6. QED
  BY <1>1, <1>2, <1>3, <1>4, <1>5 DEF Debited

LEMMA CreditedTotal ==
  ASSUME NEW s \in StateRec, NEW a \in Accounts, NEW x \in Nat
  PROVE  Credited(s, a, x) \in [Accounts -> Nat] /\ Total(Credited(s, a, x)) = Total(s.balance) + x
<1>1. PICK f \in [Accounts -> Nat] : f = s.balance
  BY StateFields
<1>2. WithBalance(f, a, f[a] + x) \in [Accounts -> Nat] /\ Total(WithBalance(f, a, f[a] + x)) = Total(f) + x
  BY TotalGain, LedgerSets
<1>3. QED
  BY <1>1, <1>2 DEF Credited

LEMMA MovedTotal ==
  ASSUME NEW s \in StateRec, NEW a \in Accounts, NEW b \in Accounts, a # b,
         NEW x \in Nat, x <= s.balance[a]
  PROVE  Moved(s, a, b, x) \in [Accounts -> Nat] /\ Total(Moved(s, a, b, x)) = Total(s.balance)
<1>1. PICK f \in [Accounts -> Nat] : f = s.balance
  BY StateFields
<1>2. PICK g : g = Debited(s, a, x)
  OBVIOUS
<1>3. g \in [Accounts -> Nat] /\ Total(g) = Total(f) - x
  BY <1>1, <1>2, DebitedTotal
<1>4. g[b] = f[b] /\ f[b] \in Nat
  BY <1>1, <1>2 DEF Debited, WithBalance
<1>5. WithBalance(g, b, g[b] + x) \in [Accounts -> Nat] /\ Total(WithBalance(g, b, g[b] + x)) = Total(g) + x
  BY <1>3, TotalGain, LedgerSets
<1>6. Total(f) \in Nat
  BY TotalType, LedgerSets
<1>7. QED
  BY <1>1, <1>2, <1>3, <1>4, <1>5, <1>6 DEF Moved

(* A wallet's nonce after a transaction.                                   *)
LEMMA BumpedType ==
  ASSUME NEW s \in StateRec, NEW a \in Accounts
  PROVE  Bumped(s, a) \in [Accounts -> Nat] /\ Bumped(s, a)[a] = s.nonce[a] + 1
<1>1. PICK f \in [Accounts -> Nat] : f = s.nonce
  BY StateFields
<1>2. PICK n \in Nat : n = f[a] + 1
  BY <1>1
<1>3. WithBalance(f, a, n) \in [Accounts -> Nat] /\ WithBalance(f, a, n)[a] = n
  BY <1>1, <1>2 DEF WithBalance
<1>4. QED
  BY <1>1, <1>2, <1>3 DEF Bumped

(* Stakes after a change of one of them.                                   *)
LEMMA StakeTotal ==
  ASSUME NEW s \in StateRec, NEW a \in Accounts, NEW n \in Nat
  PROVE  /\ WithBalance(s.stake, a, n) \in [Accounts -> Nat]
         /\ Total(WithBalance(s.stake, a, n)) = Total(s.stake) - s.stake[a] + n
<1>1. PICK f \in [Accounts -> Nat] : f = s.stake
  BY StateFields
<1>2. WithBalance(f, a, n) \in [Accounts -> Nat] /\ Total(WithBalance(f, a, n)) = Total(f) - f[a] + n
  BY TotalUpdate, LedgerSets
<1>3. QED
  BY <1>1, <1>2

\* s after tx, with the given balances, stakes, jobs and withdrawals.
AfterUser(s, tx, B, K, J, W) ==
    [s EXCEPT !.balance = B, !.stake = K, !.jobs = J, !.withdrawn = W,
              !.nonce = Bumped(s, tx.sender), !.accepted = Recorded(s, tx)]

(* The fields of a state that a wallet's transaction changed.              *)
LEMMA UserStep ==
  ASSUME NEW s \in StateRec, NEW tx, UserOK(tx),
         NEW B \in [Accounts -> Nat], NEW K \in [Accounts -> Nat],
         NEW J \in [Jobs -> JobRec], NEW W \in Nat
  PROVE  \A t : t = AfterUser(s, tx, B, K, J, W) =>
            /\ t \in StateRec
            /\ t.balance = B /\ t.stake = K /\ t.jobs = J /\ t.withdrawn = W /\ t.credits = s.credits
            /\ t.nonce = Bumped(s, tx.sender) /\ t.accepted = s.accepted \cup {tx}
<1>1. PICK N \in [Accounts -> Nat] : N = Bumped(s, tx.sender)
  BY UserFields, BumpedType
<1>2. PICK A \in SUBSET Tx : A = s.accepted \cup {tx}
  BY UserFields, StateFields
<1>3. SUFFICES ASSUME NEW t, t = AfterUser(s, tx, B, K, J, W)
               PROVE  /\ t \in StateRec
                      /\ t.balance = B /\ t.stake = K /\ t.jobs = J /\ t.withdrawn = W
                      /\ t.credits = s.credits
                      /\ t.nonce = Bumped(s, tx.sender) /\ t.accepted = s.accepted \cup {tx}
  OBVIOUS
<1>4. t = [s EXCEPT !.balance = B, !.stake = K, !.jobs = J, !.withdrawn = W,
                    !.nonce = N, !.accepted = A]
  BY <1>1, <1>2, <1>3 DEF Recorded, AfterUser
<1>5. /\ t \in StateRec
      /\ t.balance = B /\ t.stake = K /\ t.jobs = J /\ t.withdrawn = W /\ t.credits = s.credits
      /\ t.nonce = N /\ t.accepted = A
  BY <1>4 DEF StateRec
<1>6. QED
  BY <1>1, <1>2, <1>3, <1>5

LEMMA TransferredFields ==
  ASSUME NEW s \in StateRec, NEW tx, UserOK(tx), tx.body.kind = "TRANSFER",
         tx.body.peer # tx.sender, Valid(s, tx), NEW t, t = Transferred(s, tx)
  PROVE  /\ t \in StateRec /\ Total(t.balance) = Total(s.balance)
         /\ t.stake = s.stake /\ t.jobs = s.jobs /\ t.withdrawn = s.withdrawn /\ t.credits = s.credits
         /\ t.nonce = Bumped(s, tx.sender) /\ t.accepted = s.accepted \cup {tx}
<1>1. PICK B : B = Moved(s, tx.sender, tx.body.peer, tx.body.amount)
  OBVIOUS
<1>2. tx.body.amount <= s.balance[tx.sender]
  BY UserFields, StateFields DEF Valid, Covered, UserKinds
<1>3. tx.body.peer \in Accounts
  BY DEF UserOK, TxOK
<1>4. B \in [Accounts -> Nat] /\ Total(B) = Total(s.balance)
  BY <1>1, <1>2, <1>3, UserFields, MovedTotal
<1>20. PICK K \in [Accounts -> Nat] : K = s.stake
  BY StateFields
<1>5. t = AfterUser(s, tx, B, K, s.jobs, s.withdrawn)
  BY <1>1, <1>20 DEF Transferred, AfterUser, StateRec
<1>6. s.stake \in [Accounts -> Nat] /\ s.jobs \in [Jobs -> JobRec] /\ s.withdrawn \in Nat
  BY StateFields
<1>7. /\ t \in StateRec
      /\ t.balance = B /\ t.stake = K /\ t.jobs = s.jobs /\ t.withdrawn = s.withdrawn
      /\ t.credits = s.credits
      /\ t.nonce = Bumped(s, tx.sender) /\ t.accepted = s.accepted \cup {tx}
  BY <1>4, <1>5, <1>6, <1>20, UserStep
<1>8. QED
  BY <1>20, <1>4, <1>7

LEMMA StakedFields ==
  ASSUME NEW s \in StateRec, NEW tx, UserOK(tx), tx.body.kind = "STAKE",
         Valid(s, tx), NEW t, t = Staked(s, tx)
  PROVE  /\ t \in StateRec /\ Total(t.balance) = Total(s.balance) - tx.body.amount
         /\ Total(t.stake) = Total(s.stake) + tx.body.amount
         /\ t.jobs = s.jobs /\ t.withdrawn = s.withdrawn /\ t.credits = s.credits
         /\ t.nonce = Bumped(s, tx.sender) /\ t.accepted = s.accepted \cup {tx}
<1> DEFINE a == tx.sender
           x == tx.body.amount
<1>1. PICK B : B = Debited(s, a, x)
  OBVIOUS
<1>2. x <= s.balance[a]
  BY UserFields, StateFields DEF Valid, Covered, UserKinds
<1>3. B \in [Accounts -> Nat] /\ Total(B) = Total(s.balance) - x
  BY <1>1, <1>2, UserFields, DebitedTotal
<1>4. PICK n \in Nat : n = s.stake[a] + x
  BY UserFields, StateFields
<1>5. PICK K : K = WithBalance(s.stake, a, n)
  OBVIOUS
<1>6. K \in [Accounts -> Nat] /\ Total(K) = Total(s.stake) - s.stake[a] + n
  BY <1>5, UserFields, StakeTotal
<1>7. Total(s.stake) \in Nat /\ s.stake[a] \in Nat
  BY UserFields, StateFields, TotalType, LedgerSets
<1>8. Total(K) = Total(s.stake) + x
  BY <1>4, <1>6, <1>7, UserFields
<1>9. t = AfterUser(s, tx, B, K, s.jobs, s.withdrawn)
  BY <1>1, <1>4, <1>5 DEF Staked, AfterUser, StateRec
<1>10. /\ B \in [Accounts -> Nat] /\ K \in [Accounts -> Nat]
       /\ s.jobs \in [Jobs -> JobRec] /\ s.withdrawn \in Nat
  BY <1>3, <1>6, StateFields
<1>11. /\ t \in StateRec
       /\ t.balance = B /\ t.stake = K /\ t.jobs = s.jobs /\ t.withdrawn = s.withdrawn
       /\ t.credits = s.credits
       /\ t.nonce = Bumped(s, tx.sender) /\ t.accepted = s.accepted \cup {tx}
  BY <1>9, <1>10, UserStep
<1>12. QED
  BY <1>3, <1>6, <1>8, <1>9, <1>11

LEMMA UnstakedFields ==
  ASSUME NEW s \in StateRec, NEW tx, UserOK(tx), tx.body.kind = "UNSTAKE",
         Valid(s, tx), NEW t, t = Unstaked(s, tx)
  PROVE  /\ t \in StateRec /\ t.balance = s.balance
         /\ Total(t.stake) = Total(s.stake) - tx.body.amount
         /\ t.jobs = s.jobs /\ t.withdrawn = s.withdrawn /\ t.credits = s.credits
         /\ t.nonce = Bumped(s, tx.sender) /\ t.accepted = s.accepted \cup {tx}
<1> DEFINE a == tx.sender
           x == tx.body.amount
<1>2. x <= s.stake[a]
  BY UserFields, StateFields DEF Valid, Covered, UserKinds
<1>4. PICK n \in Nat : n = s.stake[a] - x
  BY <1>2, UserFields, StateFields
<1>5. PICK K : K = WithBalance(s.stake, a, n)
  OBVIOUS
<1>6. K \in [Accounts -> Nat] /\ Total(K) = Total(s.stake) - s.stake[a] + n
  BY <1>5, UserFields, StakeTotal
<1>7. Total(s.stake) \in Nat /\ s.stake[a] \in Nat
  BY UserFields, StateFields, TotalType, LedgerSets
<1>8. Total(K) = Total(s.stake) - x
  BY <1>4, <1>6, <1>7, UserFields
<1>20. PICK B \in [Accounts -> Nat] : B = s.balance
  BY StateFields
<1>9. t = AfterUser(s, tx, B, K, s.jobs, s.withdrawn)
  BY <1>4, <1>5, <1>20 DEF Unstaked, AfterUser, StateRec
<1>10. /\ B \in [Accounts -> Nat] /\ K \in [Accounts -> Nat]
       /\ s.jobs \in [Jobs -> JobRec] /\ s.withdrawn \in Nat
  BY <1>6, <1>20, StateFields
<1>11. /\ t \in StateRec
       /\ t.balance = B /\ t.stake = K /\ t.jobs = s.jobs /\ t.withdrawn = s.withdrawn
       /\ t.credits = s.credits
       /\ t.nonce = Bumped(s, tx.sender) /\ t.accepted = s.accepted \cup {tx}
  BY <1>9, <1>10, UserStep
<1>12. QED
  BY <1>20, <1>6, <1>8, <1>9, <1>11

LEMMA WithdrawnFields ==
  ASSUME NEW s \in StateRec, NEW tx, UserOK(tx), tx.body.kind = "BRIDGE_WITHDRAW",
         Valid(s, tx), NEW t, t = Withdrawn(s, tx)
  PROVE  /\ t \in StateRec /\ Total(t.balance) = Total(s.balance) - tx.body.amount
         /\ t.withdrawn = s.withdrawn + tx.body.amount
         /\ t.stake = s.stake /\ t.jobs = s.jobs /\ t.credits = s.credits
         /\ t.nonce = Bumped(s, tx.sender) /\ t.accepted = s.accepted \cup {tx}
<1> DEFINE a == tx.sender
           x == tx.body.amount
<1>1. PICK B : B = Debited(s, a, x)
  OBVIOUS
<1>2. x <= s.balance[a]
  BY UserFields, StateFields DEF Valid, Covered, UserKinds
<1>3. B \in [Accounts -> Nat] /\ Total(B) = Total(s.balance) - x
  BY <1>1, <1>2, UserFields, DebitedTotal
<1>4. PICK W \in Nat : W = s.withdrawn + x
  BY UserFields, StateFields
<1>20. PICK K \in [Accounts -> Nat] : K = s.stake
  BY StateFields
<1>5. t = AfterUser(s, tx, B, K, s.jobs, W)
  BY <1>1, <1>4, <1>20 DEF Withdrawn, AfterUser, StateRec
<1>6. /\ B \in [Accounts -> Nat] /\ K \in [Accounts -> Nat]
       /\ s.jobs \in [Jobs -> JobRec] /\ W \in Nat
  BY <1>3, <1>4, <1>20, StateFields
<1>7. /\ t \in StateRec
       /\ t.balance = B /\ t.stake = K /\ t.jobs = s.jobs /\ t.withdrawn = W
       /\ t.credits = s.credits
       /\ t.nonce = Bumped(s, tx.sender) /\ t.accepted = s.accepted \cup {tx}
  BY <1>5, <1>6, UserStep
<1>8. QED
  BY <1>20, <1>3, <1>4, <1>5, <1>7

(* There are n numbers below n.                                            *)
LEMMA CountBelow ==
  ASSUME NEW n \in Nat \ {0}
  PROVE  Cardinality(0 .. (n - 1)) = n
<1>1. PICK m \in Int : m = n - 1
  OBVIOUS
<1>2. PICK o \in Int : o = 0
  OBVIOUS
<1>3. Cardinality(o .. m) = IF o > m THEN 0 ELSE m - o + 1
  BY FS_Interval
<1>4. QED
  BY <1>1, <1>2, <1>3

(* The shares of a fee never exceed it.                                    *)
LEMMA SharesWithinFee ==
  ASSUME NEW fee \in Nat, NEW n \in Nat \ {0}
  PROVE  fee \div n \in Nat /\ (fee \div n) * n <= fee
  OBVIOUS

(* What is due for a job.                                                  *)
LEMMA DueType ==
  ASSUME NEW job \in JobRec
  PROVE  DueTo(job) \in Nat /\ Share(job) \in Nat /\ IsFiniteSet(Missing(job))
<1>1. job.fee \in Nat /\ job.n \in Nat \ {0}
  BY DEF JobRec
<1>2. PICK q \in Nat : q = Share(job)
  BY <1>1, SharesWithinFee DEF Share
<1>3. IsFiniteSet(0 .. (job.n - 1))
  BY <1>1, FS_Interval
<1>4. IsFiniteSet(Missing(job))
  BY <1>3, FS_Subset DEF Missing
<1>5. PICK c \in Nat : c = Cardinality(Missing(job))
  BY <1>4, FS_CardinalityType
<1>6. q * c \in Nat
  OBVIOUS
<1>7. QED
  BY <1>2, <1>4, <1>5, <1>6 DEF DueTo

LEMMA DueFunction ==
  ASSUME NEW s \in StateRec
  PROVE  Due(s) \in [Jobs -> Nat] /\ Total(Due(s)) \in Nat
<1>1. \A j \in Jobs : s.jobs[j] \in JobRec
  BY StateFields
<1>2. \A j \in Jobs : DueTo(s.jobs[j]) \in Nat
  BY <1>1, DueType
<1>3. Due(s) \in [Jobs -> Nat]
  BY <1>2 DEF Due
<1>4. QED
  BY <1>3, TotalType, LedgerSets

(* A new job: its shares are due, and no more than its fee.                *)
LEMMA NewJobDue ==
  ASSUME NEW tx, UserOK(tx), tx.body.kind = "JOB_POST"
  PROVE  /\ NewJob(tx) \in JobRec
         /\ DueTo(NewJob(tx)) \in Nat /\ DueTo(NewJob(tx)) <= tx.body.amount
<1>1. tx.body.n \in Nat \ {0} /\ tx.body.amount \in Nat
  BY UserFields, TxFields DEF UserOK, TxOK
<1>2. PICK n \in Nat \ {0} : n = tx.body.n
  BY <1>1
<1>3. PICK fee \in Nat : fee = tx.body.amount
  BY <1>1
<1>4. PICK job : job = NewJob(tx)
  OBVIOUS
<1>5. job \in JobRec /\ job.known /\ job.fee = fee /\ job.n = n /\ job.results = {}
  BY <1>2, <1>3, <1>4 DEF NewJob, JobRec
<1>6. Missing(job) = 0 .. (n - 1)
  BY <1>5 DEF Missing
<1>7. Cardinality(0 .. (n - 1)) = n
  BY CountBelow
<1>8. PICK q \in Nat : q = fee \div n
  BY SharesWithinFee
<1>9. q * n \in Nat /\ q * n <= fee
  BY <1>8, SharesWithinFee
<1>10. DueTo(job) = q * n
  BY <1>5, <1>6, <1>7, <1>8 DEF DueTo, Share
<1>11. QED
  BY <1>3, <1>4, <1>5, <1>9, <1>10

LEMMA JobPostedType ==
  ASSUME NEW s \in StateRec, NEW tx, UserOK(tx), tx.body.kind = "JOB_POST",
         Valid(s, tx), NEW t, t = JobPosted(s, tx)
  PROVE  /\ t \in StateRec /\ Total(t.balance) = Total(s.balance) - tx.body.amount
         /\ t.jobs[tx.body.id] = NewJob(tx)
         /\ \A i \in Jobs : i # tx.body.id => t.jobs[i] = s.jobs[i]
         /\ t.stake = s.stake /\ t.withdrawn = s.withdrawn /\ t.credits = s.credits
         /\ t.nonce = Bumped(s, tx.sender) /\ t.accepted = s.accepted \cup {tx}
<1> DEFINE a == tx.sender
           x == tx.body.amount
           j == tx.body.id
<1>1. PICK B : B = Debited(s, a, x)
  OBVIOUS
<1>2. x <= s.balance[a]
  BY UserFields, StateFields DEF Valid, Covered, UserKinds
<1>3. B \in [Accounts -> Nat] /\ Total(B) = Total(s.balance) - x
  BY <1>1, <1>2, UserFields, DebitedTotal
<1>4. PICK K \in [Accounts -> Nat] : K = s.stake
  BY StateFields
<1>5. j \in Jobs
  BY DEF UserOK, TxOK
<1>6. PICK job \in JobRec : job = NewJob(tx)
  BY NewJobDue
<1>7. PICK J : J = [s.jobs EXCEPT ![j] = job]
  OBVIOUS
<1>8. J \in [Jobs -> JobRec]
  BY <1>5, <1>7, StateFields
<1>9. t = AfterUser(s, tx, B, K, J, s.withdrawn)
  BY <1>1, <1>4, <1>6, <1>7 DEF JobPosted, AfterUser, StateRec
<1>10. /\ B \in [Accounts -> Nat] /\ K \in [Accounts -> Nat]
       /\ J \in [Jobs -> JobRec] /\ s.withdrawn \in Nat
  BY <1>3, <1>4, <1>8, StateFields
<1>11. /\ t \in StateRec
       /\ t.balance = B /\ t.stake = K /\ t.jobs = J /\ t.withdrawn = s.withdrawn
       /\ t.credits = s.credits
       /\ t.nonce = Bumped(s, tx.sender) /\ t.accepted = s.accepted \cup {tx}
  BY <1>9, <1>10, UserStep
<1>12. J[j] = job /\ \A i \in Jobs : i # j => J[i] = s.jobs[i]
  BY <1>5, <1>7, StateFields
<1>13. QED
  BY <1>3, <1>4, <1>6, <1>11, <1>12

(* The shares of a job that is posted for the first time are paid for.     *)
LEMMA JobPostedDue ==
  ASSUME NEW s \in StateRec, NEW tx, UserOK(tx), tx.body.kind = "JOB_POST",
         Valid(s, tx), ~ s.jobs[tx.body.id].known, NEW t, t = JobPosted(s, tx)
  PROVE  Total(Due(t)) <= Total(Due(s)) + tx.body.amount
<1> DEFINE j == tx.body.id
<1>1. j \in Jobs
  BY DEF UserOK, TxOK
<1>2. PICK job \in JobRec : job = NewJob(tx)
  BY NewJobDue
<1>3. PICK d \in Nat : d = DueTo(job) /\ d <= tx.body.amount
  BY <1>2, NewJobDue
<1>5. t.jobs[j] = job /\ \A i \in Jobs : i # j => t.jobs[i] = s.jobs[i]
  BY <1>2, JobPostedType
<1>6. PICK f \in [Jobs -> Nat] : f = Due(s)
  BY DueFunction
<1>7. PICK g \in [Jobs -> Nat] : g = Due(t)
  BY JobPostedType, DueFunction
<1>8. f[j] = 0 /\ g[j] = d /\ \A i \in Jobs : i # j => g[i] = f[i]
  BY <1>1, <1>3, <1>5, <1>6, <1>7 DEF Due, DueTo
<1>9. Total(g) = Total(f) - f[j] + g[j]
  BY <1>1, <1>8, TotalChanged, LedgerSets
<1>10. Total(f) \in Nat /\ tx.body.amount \in Nat
  BY TotalType, LedgerSets, UserFields
<1>11. QED
  BY <1>3, <1>6, <1>7, <1>8, <1>9, <1>10

(* A commit of a shard that was not committed yet: what is due for the job *)
(* shrinks by the share that is paid.                                      *)
LEMMA CommittedDue ==
  ASSUME NEW job \in JobRec, job.known, NEW n \in 0 .. (job.n - 1), n \notin job.results,
         NEW after, after = Committed(job, n)
  PROVE  after \in JobRec /\ DueTo(job) = DueTo(after) + Share(job)
<1>1. /\ after \in JobRec /\ after.known /\ Share(after) = Share(job)
      /\ Missing(after) = Missing(job) \ {n}
  BY DEF JobRec, Missing, Share, Committed
<1>2. n \in Missing(job)
  BY DEF Missing
<1>3. IsFiniteSet(Missing(job)) /\ DueTo(after) \in Nat
  BY <1>1, DueType
<1>4. PICK c \in Nat : c = Cardinality(Missing(job))
  BY <1>3, FS_CardinalityType
<1>5. PICK k \in Nat : k = Cardinality(Missing(after))
  BY <1>1, <1>3, FS_Subset, FS_CardinalityType
<1>6. k = c - 1
  BY <1>1, <1>2, <1>3, <1>4, <1>5, FS_RemoveElement
<1>7. PICK q \in Nat : q = Share(job)
  BY DueType
<1>8. q * c = q * k + q
  BY <1>6
<1>9. DueTo(job) = q * c /\ DueTo(after) = q * k
  BY <1>1, <1>4, <1>5, <1>7 DEF DueTo
<1>10. QED
  BY <1>1, <1>7, <1>8, <1>9

(* A commit keeps the type of the state, whether it is the first or not.   *)
LEMMA CommittedType ==
  ASSUME NEW s \in StateRec, NEW tx \in Tx, TxOK(tx), tx.body.kind = "SHARD_COMMIT",
         NEW t, t = ShardCommitted(s, tx)
  PROVE  /\ t \in StateRec
         /\ t.jobs[tx.body.id] = Committed(s.jobs[tx.body.id], tx.body.n)
         /\ \A i \in Jobs : i # tx.body.id => t.jobs[i] = s.jobs[i]
         /\ Total(t.balance) = Total(s.balance) + Share(s.jobs[tx.body.id])
         /\ t.stake = s.stake /\ t.withdrawn = s.withdrawn /\ t.credits = s.credits
         /\ t.nonce = s.nonce /\ t.accepted = s.accepted
<1> DEFINE j == tx.body.id
           m == tx.body.peer
<1>1. j \in Jobs /\ m \in Accounts /\ tx.body.n \in Nat
  BY TxFields DEF TxOK
<1>2. PICK job \in JobRec : job = s.jobs[j]
  BY <1>1, StateFields
<1>3. PICK x \in Nat : x = Share(job)
  BY DueType
<1>4. PICK B : B = Credited(s, m, x)
  OBVIOUS
<1>5. B \in [Accounts -> Nat] /\ Total(B) = Total(s.balance) + x
  BY <1>1, <1>4, CreditedTotal
<1>6. PICK after : after = Committed(job, tx.body.n)
  OBVIOUS
<1>7. after \in JobRec
  BY <1>1, <1>6 DEF JobRec, Committed
<1>8. PICK J : J = [s.jobs EXCEPT ![j] = after]
  OBVIOUS
<1>9. J \in [Jobs -> JobRec]
  BY <1>1, <1>7, <1>8, StateFields
<1>10. t = [s EXCEPT !.balance = B, !.jobs = J]
  BY <1>2, <1>3, <1>4, <1>6, <1>8 DEF ShardCommitted, StateRec
<1>11. /\ t \in StateRec /\ t.balance = B /\ t.jobs = J
       /\ t.stake = s.stake /\ t.withdrawn = s.withdrawn /\ t.credits = s.credits
       /\ t.nonce = s.nonce /\ t.accepted = s.accepted
  <2>1. B \in [Accounts -> Nat]
    BY <1>5
  <2>2. QED
    BY <2>1, <1>9, <1>10 DEF StateRec
<1>12. J[j] = Committed(s.jobs[j], tx.body.n) /\ \A i \in Jobs : i # j => J[i] = s.jobs[i]
  BY <1>1, <1>2, <1>6, <1>8, StateFields
<1>13. QED
  BY <1>2, <1>3, <1>5, <1>11, <1>12

LEMMA CommittedFields ==
  ASSUME NEW s \in StateRec, NEW tx \in Tx, TxOK(tx), tx.body.kind = "SHARD_COMMIT",
         s.jobs[tx.body.id].known, tx.body.n \in 0 .. (s.jobs[tx.body.id].n - 1),
         tx.body.n \notin s.jobs[tx.body.id].results, NEW t, t = ShardCommitted(s, tx)
  PROVE  Total(t.balance) + Total(Due(t)) = Total(s.balance) + Total(Due(s))
<1> DEFINE j == tx.body.id
<1>1. j \in Jobs
  BY DEF TxOK
<1>2. PICK job \in JobRec : job = s.jobs[j]
  BY <1>1, StateFields
<1>3. PICK x \in Nat : x = Share(job)
  BY DueType
<1>4. PICK after : after = Committed(job, tx.body.n)
  OBVIOUS
<1>5. after \in JobRec /\ DueTo(job) = DueTo(after) + Share(job)
  BY <1>2, <1>4, CommittedDue
<1>6. PICK d \in Nat : d = DueTo(after)
  BY <1>5, DueType
<1>7. PICK f \in [Jobs -> Nat] : f = Due(s)
  BY DueFunction
<1>8. f[j] = d + x
  BY <1>1, <1>2, <1>3, <1>5, <1>6, <1>7 DEF Due
<1>9. Total(t.balance) = Total(s.balance) + x
  BY <1>2, <1>3, <1>4, CommittedType
<1>10. t.jobs[j] = after /\ \A i \in Jobs : i # j => t.jobs[i] = s.jobs[i]
  BY <1>1, <1>2, <1>4, CommittedType
<1>11. PICK g \in [Jobs -> Nat] : g = Due(t)
  BY CommittedType, DueFunction
<1>12. g[j] = d /\ \A i \in Jobs : i # j => g[i] = f[i]
  BY <1>1, <1>6, <1>7, <1>10, <1>11 DEF Due
<1>13. Total(g) = Total(f) - f[j] + g[j]
  BY <1>1, <1>12, TotalChanged, LedgerSets
<1>14. Total(f) \in Nat /\ Total(s.balance) \in Nat
  BY StateFields, TotalType, LedgerSets
<1>15. QED
  BY <1>7, <1>8, <1>9, <1>11, <1>12, <1>13, <1>14

\* The credited deposits of a state.
LEMMA BridgedType ==
  ASSUME NEW s \in StateRec
  PROVE  Bridged(s) \in [Deposits -> Nat] /\ Total(Bridged(s)) \in Nat /\ Supply(s) \in Nat
<1>1. \A d \in Deposits : s.credits[d] \in Nat /\ Deposit[d].amount \in Nat
  BY StateFields, GenesisAmounts
<1>2. \A x, y \in Nat : x * y \in Nat
  OBVIOUS
<1>3. Bridged(s) \in [Deposits -> Nat]
  BY <1>1, <1>2 DEF Bridged
<1>4. Total(Bridged(s)) \in Nat
  BY <1>3, TotalType, LedgerSets
<1>5. Total(GenesisBalance) \in Nat /\ Total(GenesisStake) \in Nat
  BY TotalType, LedgerSets, GenesisAmounts
<1>6. QED
  BY <1>3, <1>4, <1>5 DEF Supply

LEMMA DepositFields ==
  ASSUME NEW s \in StateRec, NEW tx \in Tx, TxOK(tx), tx.body.kind = "BRIDGE_DEPOSIT",
         NEW t, t = DepositCredited(s, tx)
  PROVE  /\ t \in StateRec /\ Total(t.balance) = Total(s.balance) + tx.body.amount
         /\ Supply(t) = Supply(s) + tx.body.amount
         /\ t.jobs = s.jobs /\ t.stake = s.stake /\ t.withdrawn = s.withdrawn
         /\ t.nonce = s.nonce /\ t.accepted = s.accepted
<1> DEFINE d == tx.body.id
           m == tx.body.peer
<1>1. d \in Deposits /\ m \in Accounts /\ tx.body.amount = Deposit[d].amount
  BY DEF TxOK
<1>2. PICK x \in Nat : x = tx.body.amount
  BY TxFields
<1>3. PICK B : B = Credited(s, m, x)
  OBVIOUS
<1>4. B \in [Accounts -> Nat] /\ Total(B) = Total(s.balance) + x
  BY <1>1, <1>3, CreditedTotal
<1>5. PICK k \in Nat : k = s.credits[d]
  BY <1>1, StateFields
<1>6. PICK C : C = WithBalance(s.credits, d, k + 1)
  OBVIOUS
<1>7. C \in [Deposits -> Nat] /\ C[d] = k + 1 /\ \A e \in Deposits : e # d => C[e] = s.credits[e]
  BY <1>1, <1>6, StateFields DEF WithBalance
<1>8. t = [s EXCEPT !.balance = B, !.credits = C]
  BY <1>2, <1>3, <1>5, <1>6 DEF DepositCredited
<1>9. /\ t \in StateRec /\ t.balance = B /\ t.credits = C
      /\ t.jobs = s.jobs /\ t.stake = s.stake /\ t.withdrawn = s.withdrawn
      /\ t.nonce = s.nonce /\ t.accepted = s.accepted
  <2>1. B \in [Accounts -> Nat] /\ C \in [Deposits -> Nat]
    BY <1>4, <1>7
  <2>2. QED
    BY <2>1, <1>8 DEF StateRec
<1>10. PICK f \in [Deposits -> Nat] : f = Bridged(s)
  BY BridgedType
<1>11. f[d] = k * x
  BY <1>1, <1>2, <1>5, <1>10 DEF Bridged
<1>12. f[d] + x = (k + 1) * x
  BY <1>11
<1>18. PICK y \in Nat : y = f[d] + x
  BY <1>1
<1>19. Bridged(t)[d] = y
  BY <1>1, <1>2, <1>7, <1>9, <1>12, <1>18 DEF Bridged
<1>20. \A e \in Deposits : e # d => Bridged(t)[e] = f[e]
  BY <1>7, <1>9, <1>10 DEF Bridged
<1>21. PICK g \in [Deposits -> Nat] : g = Bridged(t)
  BY <1>9, BridgedType
<1>13. g = WithBalance(f, d, y)
  BY <1>1, <1>19, <1>20, <1>21 DEF WithBalance
<1>14. Total(WithBalance(f, d, f[d] + x)) = Total(f) + x
  BY <1>1, TotalGain, LedgerSets
<1>15. Total(GenesisBalance) \in Nat /\ Total(GenesisStake) \in Nat /\ Total(f) \in Nat
  BY TotalType, LedgerSets, GenesisAmounts
<1>16. Supply(t) = Supply(s) + x
  BY <1>10, <1>13, <1>14, <1>15, <1>18, <1>21 DEF Supply
<1>17. QED
  BY <1>2, <1>4, <1>9, <1>16

(* A slash takes three tenths of a stake, rounded down.                    *)
LEMMA SlashedFields ==
  ASSUME NEW s \in StateRec, NEW tx \in Tx, TxOK(tx), tx.body.kind = "SLASH_HARD",
         NEW t, t = Slashed(s, tx)
  PROVE  /\ t \in StateRec /\ Total(t.stake) <= Total(s.stake)
         /\ t.balance = s.balance /\ t.jobs = s.jobs /\ t.withdrawn = s.withdrawn
         /\ t.credits = s.credits /\ t.nonce = s.nonce /\ t.accepted = s.accepted
<1> DEFINE m == tx.body.peer
<1>1. m \in Accounts
  BY DEF TxOK
<1>2. PICK x \in Nat : x = s.stake[m]
  BY <1>1, StateFields
<1>3. (3 * x) \div 10 \in Nat /\ (3 * x) \div 10 <= x
  OBVIOUS
<1>4. PICK n \in Nat : n = x - (3 * x) \div 10 /\ n <= x
  BY <1>3
<1>5. PICK K : K = WithBalance(s.stake, m, n)
  OBVIOUS
<1>6. K \in [Accounts -> Nat] /\ Total(K) = Total(s.stake) - s.stake[m] + n
  BY <1>1, <1>5, StakeTotal
<1>7. Total(s.stake) \in Nat
  BY StateFields, TotalType, LedgerSets
<1>8. Total(K) <= Total(s.stake)
  BY <1>2, <1>4, <1>6, <1>7
<1>9. t = [s EXCEPT !.stake = K]
  BY <1>2, <1>4, <1>5 DEF Slashed
<1>10. /\ t \in StateRec /\ t.stake = K
       /\ t.balance = s.balance /\ t.jobs = s.jobs /\ t.withdrawn = s.withdrawn
       /\ t.credits = s.credits /\ t.nonce = s.nonce /\ t.accepted = s.accepted
  <2>1. K \in [Accounts -> Nat]
    BY <1>6
  <2>2. QED
    BY <2>1, <1>9 DEF StateRec
<1>11. QED
  BY <1>8, <1>10

(* A transfer to oneself leaves its trace in the accepted transactions.    *)
LEMMA SelfTransferredFields ==
  ASSUME NEW s \in StateRec, NEW tx, UserOK(tx), tx.body.kind = "TRANSFER",
         tx.body.peer = tx.sender, NEW t, t = SelfTransferred(s, tx)
  PROVE  /\ t \in StateRec /\ t.jobs = s.jobs /\ ~ NobodyPaysItself(t)
<1>1. PICK B : B = Credited(s, tx.sender, tx.body.amount)
  OBVIOUS
<1>2. B \in [Accounts -> Nat]
  BY <1>1, UserFields, CreditedTotal
<1>3. PICK A \in SUBSET Tx : A = s.accepted \cup {tx}
  BY UserFields, StateFields
<1>4. t = [s EXCEPT !.balance = B, !.accepted = A]
  BY <1>1, <1>3 DEF SelfTransferred, Recorded
<1>5. t \in StateRec /\ t.jobs = s.jobs /\ t.accepted = A
  BY <1>2, <1>4 DEF StateRec
<1>6. QED
  BY <1>3, <1>5 DEF NobodyPaysItself
-----------------------------------------------------------------------------
\* The state t is s after the valid transaction tx.
Becomes(s, tx, t) ==
    \/ tx.body.kind = "TRANSFER" /\ tx.body.peer = tx.sender /\ t = SelfTransferred(s, tx)
    \/ tx.body.kind = "TRANSFER" /\ tx.body.peer # tx.sender /\ t = Transferred(s, tx)
    \/ tx.body.kind = "STAKE" /\ t = Staked(s, tx)
    \/ tx.body.kind = "UNSTAKE" /\ t = Unstaked(s, tx)
    \/ tx.body.kind = "JOB_POST" /\ t = JobPosted(s, tx)
    \/ tx.body.kind = "BRIDGE_WITHDRAW" /\ t = Withdrawn(s, tx)
    \/ tx.body.kind = "SHARD_COMMIT" /\ t = ShardCommitted(s, tx)
    \/ tx.body.kind = "BRIDGE_DEPOSIT" /\ t = DepositCredited(s, tx)
    \/ tx.body.kind = "SLASH_HARD" /\ t = Slashed(s, tx)

(* What every transaction but a transfer to oneself does to the nonces and *)
(* to the history.                                                         *)
LEMMA BecomesFields ==
  ASSUME NEW s \in StateRec, NEW tx \in Tx, TxOK(tx), Valid(s, tx),
         NEW t, Becomes(s, tx, t)
  PROVE  /\ t \in StateRec
         /\ \/ ~ NobodyPaysItself(t)
            \/ t.nonce = s.nonce /\ t.accepted = s.accepted
            \/ UserOK(tx) /\ t.nonce = Bumped(s, tx.sender) /\ t.accepted = s.accepted \cup {tx}
<1>1. CASE tx.body.kind \in UserKinds
  <2>1. UserOK(tx)
    BY <1>1 DEF UserOK
  <2>2. CASE tx.body.kind = "TRANSFER" /\ tx.body.peer = tx.sender
    BY <2>1, <2>2, SelfTransferredFields DEF Becomes
  <2>3. CASE tx.body.kind = "TRANSFER" /\ tx.body.peer # tx.sender
    BY <2>1, <2>3, TransferredFields DEF Becomes
  <2>4. CASE tx.body.kind = "STAKE"
    BY <2>1, <2>4, StakedFields DEF Becomes
  <2>5. CASE tx.body.kind = "UNSTAKE"
    BY <2>1, <2>5, UnstakedFields DEF Becomes
  <2>6. CASE tx.body.kind = "JOB_POST"
    <3>1. t = JobPosted(s, tx)
      BY <2>6 DEF Becomes
    <3>2. t \in StateRec
      BY <2>1, <2>6, <3>1, JobPostedType
    <3>3. t.nonce = Bumped(s, tx.sender) /\ t.accepted = s.accepted \cup {tx}
      BY <2>1, <2>6, <3>1, JobPostedType
    <3>4. QED
      BY <2>1, <3>2, <3>3
  <2>7. CASE tx.body.kind = "BRIDGE_WITHDRAW"
    BY <2>1, <2>7, WithdrawnFields DEF Becomes
  <2>8. QED
    BY <1>1, <2>2, <2>3, <2>4, <2>5, <2>6, <2>7 DEF UserKinds
<1>2. CASE tx.body.kind = "SHARD_COMMIT"
  <2>1. t = ShardCommitted(s, tx)
    BY <1>2 DEF Becomes
  <2>2. t \in StateRec /\ t.nonce = s.nonce /\ t.accepted = s.accepted
    BY <1>2, <2>1, CommittedType
  <2>3. QED
    BY <2>2
<1>3. CASE tx.body.kind = "BRIDGE_DEPOSIT"
  BY <1>3, DepositFields DEF Becomes
<1>4. CASE tx.body.kind = "SLASH_HARD"
  BY <1>4, SlashedFields DEF Becomes
<1>5. QED
  BY <1>1, <1>2, <1>3, <1>4, TxFields DEF Kinds

(* Only two kinds of transactions change the jobs.                         *)
LEMMA BecomesJobs ==
  ASSUME NEW s \in StateRec, NEW tx \in Tx, TxOK(tx), Valid(s, tx),
         NEW t, Becomes(s, tx, t), tx.body.kind \notin {"JOB_POST", "SHARD_COMMIT"}
  PROVE  t.jobs = s.jobs
<1>1. CASE tx.body.kind \in UserKinds
  <2>1. UserOK(tx)
    BY <1>1 DEF UserOK
  <2>2. CASE tx.body.kind = "TRANSFER" /\ tx.body.peer = tx.sender
    BY <2>1, <2>2, SelfTransferredFields DEF Becomes
  <2>3. CASE tx.body.kind = "TRANSFER" /\ tx.body.peer # tx.sender
    BY <2>1, <2>3, TransferredFields DEF Becomes
  <2>4. CASE tx.body.kind = "STAKE"
    BY <2>1, <2>4, StakedFields DEF Becomes
  <2>5. CASE tx.body.kind = "UNSTAKE"
    BY <2>1, <2>5, UnstakedFields DEF Becomes
  <2>6. CASE tx.body.kind = "BRIDGE_WITHDRAW"
    BY <2>1, <2>6, WithdrawnFields DEF Becomes
  <2>7. QED
    BY <1>1, <2>2, <2>3, <2>4, <2>5, <2>6 DEF UserKinds
<1>2. CASE tx.body.kind = "BRIDGE_DEPOSIT"
  BY <1>2, DepositFields DEF Becomes
<1>3. CASE tx.body.kind = "SLASH_HARD"
  BY <1>3, SlashedFields DEF Becomes
<1>4. QED
  BY <1>1, <1>2, <1>3, TxFields DEF Kinds

\* The tokens of a state are covered, and its nonces used once.
Backed(s)     == NobodyPaysItself(s) => InUse(s) <= Supply(s)
UsedOnce(s) == NobodyPaysItself(s) => ~ Replayed(s)

(* The tokens in use.                                                      *)
LEMMA InUseType ==
  ASSUME NEW s \in StateRec
  PROVE  /\ Total(s.balance) \in Nat /\ Total(s.stake) \in Nat /\ Total(Due(s)) \in Nat
         /\ s.withdrawn \in Nat /\ InUse(s) \in Nat
<1>1. Total(s.balance) \in Nat /\ Total(s.stake) \in Nat /\ s.withdrawn \in Nat
  BY StateFields, TotalType, LedgerSets
<1>2. Total(Due(s)) \in Nat
  BY DueFunction
<1>3. QED
  BY <1>1, <1>2 DEF InUse

(* A step that adds nothing to the tokens in use that it does not add to   *)
(* the supply keeps them covered.                                          *)
LEMMA BackedStep ==
  ASSUME NEW s \in StateRec, NEW t \in StateRec, s.accepted \subseteq t.accepted, Backed(s),
         InUse(t) + Supply(s) <= InUse(s) + Supply(t)
  PROVE  Backed(t)
<1>1. InUse(s) \in Nat /\ InUse(t) \in Nat /\ Supply(s) \in Nat /\ Supply(t) \in Nat
  BY InUseType, BridgedType
<1>2. NobodyPaysItself(t) => NobodyPaysItself(s)
  BY DEF NobodyPaysItself
<1>3. QED
  BY <1>1, <1>2 DEF Backed

\* The first time a job is posted and the first commit of a shard.
FirstOfItsKind(s, tx) ==
    /\ tx.body.kind = "JOB_POST" => ~ s.jobs[tx.body.id].known
    /\ tx.body.kind = "SHARD_COMMIT" =>
          /\ tx.body.n < s.jobs[tx.body.id].n
          /\ tx.body.n \notin s.jobs[tx.body.id].results

(* No transaction makes tokens.                                            *)
LEMMA BecomesBacked ==
  ASSUME NEW s \in StateRec, NEW tx \in Tx, TxOK(tx), Valid(s, tx), FirstOfItsKind(s, tx),
         NEW t, Becomes(s, tx, t), Backed(s)
  PROVE  Backed(t)
<1>1. t \in StateRec
  BY BecomesFields
<1>2. PICK x \in Nat : x = tx.body.amount
  BY TxFields
<1>3. CASE ~ NobodyPaysItself(t)
  BY <1>3 DEF Backed
<1>4. CASE NobodyPaysItself(t)
  <2>1. s.accepted \subseteq t.accepted
    BY <1>4, BecomesFields
  <2>2. SUFFICES InUse(t) + Supply(s) <= InUse(s) + Supply(t)
    BY <1>1, <2>1, BackedStep
  <2>3. /\ Total(s.balance) \in Nat /\ Total(s.stake) \in Nat /\ Total(Due(s)) \in Nat
        /\ s.withdrawn \in Nat /\ Supply(s) \in Nat
    BY InUseType, BridgedType
  <2>4. /\ Total(t.balance) \in Nat /\ Total(t.stake) \in Nat /\ Total(Due(t)) \in Nat
        /\ t.withdrawn \in Nat /\ Supply(t) \in Nat
    BY <1>1, InUseType, BridgedType
  <2>5. s.jobs = t.jobs => Due(s) = Due(t)
    BY DEF Due
  <2>6. s.credits = t.credits => Supply(s) = Supply(t)
    BY DEF Supply, Bridged
  <2>7. CASE tx.body.kind = "TRANSFER"
    <3>1. UserOK(tx) /\ tx.body.peer # tx.sender /\ t = Transferred(s, tx)
      BY <1>4, <2>7, SelfTransferredFields DEF UserOK, UserKinds, Becomes
    <3>2. /\ Total(t.balance) = Total(s.balance)
          /\ t.stake = s.stake /\ t.jobs = s.jobs /\ t.withdrawn = s.withdrawn /\ t.credits = s.credits
      BY <2>7, <3>1, TransferredFields
    <3>3. QED
      BY <2>3, <2>4, <2>5, <2>6, <3>2 DEF InUse
  <2>8. CASE tx.body.kind = "STAKE"
    <3>1. UserOK(tx) /\ t = Staked(s, tx)
      BY <2>8 DEF UserOK, UserKinds, Becomes
    <3>2. /\ Total(t.balance) = Total(s.balance) - x /\ Total(t.stake) = Total(s.stake) + x
          /\ t.jobs = s.jobs /\ t.withdrawn = s.withdrawn /\ t.credits = s.credits
      BY <1>2, <2>8, <3>1, StakedFields
    <3>3. QED
      BY <2>3, <2>4, <2>5, <2>6, <3>2 DEF InUse
  <2>9. CASE tx.body.kind = "UNSTAKE"
    <3>1. UserOK(tx) /\ t = Unstaked(s, tx)
      BY <2>9 DEF UserOK, UserKinds, Becomes
    <3>2. /\ t.balance = s.balance /\ Total(t.stake) = Total(s.stake) - x
          /\ t.jobs = s.jobs /\ t.withdrawn = s.withdrawn /\ t.credits = s.credits
      BY <1>2, <2>9, <3>1, UnstakedFields
    <3>3. QED
      BY <2>3, <2>4, <2>5, <2>6, <3>2 DEF InUse
  <2>10. CASE tx.body.kind = "JOB_POST"
    <3>1. UserOK(tx) /\ t = JobPosted(s, tx)
      BY <2>10 DEF UserOK, UserKinds, Becomes
    <3>2. /\ Total(t.balance) = Total(s.balance) - x
          /\ t.stake = s.stake /\ t.withdrawn = s.withdrawn /\ t.credits = s.credits
      BY <1>2, <2>10, <3>1, JobPostedType
    <3>3. Total(Due(t)) <= Total(Due(s)) + x
      BY <1>2, <2>10, <3>1, JobPostedDue DEF FirstOfItsKind
    <3>4. QED
      BY <2>3, <2>4, <2>6, <3>2, <3>3 DEF InUse
  <2>11. CASE tx.body.kind = "BRIDGE_WITHDRAW"
    <3>1. UserOK(tx) /\ t = Withdrawn(s, tx)
      BY <2>11 DEF UserOK, UserKinds, Becomes
    <3>2. /\ Total(t.balance) = Total(s.balance) - x /\ t.withdrawn = s.withdrawn + x
          /\ t.stake = s.stake /\ t.jobs = s.jobs /\ t.credits = s.credits
      BY <1>2, <2>11, <3>1, WithdrawnFields
    <3>3. QED
      BY <2>3, <2>4, <2>5, <2>6, <3>2 DEF InUse
  <2>12. CASE tx.body.kind = "SHARD_COMMIT"
    <3>1. t = ShardCommitted(s, tx)
      BY <2>12 DEF Becomes
    <3>2. t.stake = s.stake /\ t.withdrawn = s.withdrawn /\ t.credits = s.credits
      BY <2>12, <3>1, CommittedType
    <3>3. s.jobs[tx.body.id].known
      BY <2>12 DEF Valid, UserKinds
    <3>4. tx.body.n \in 0 .. (s.jobs[tx.body.id].n - 1) /\ tx.body.n \notin s.jobs[tx.body.id].results
      <4>1. tx.body.id \in Jobs /\ tx.body.n \in Nat
        BY <2>12, TxFields DEF TxOK
      <4>2. s.jobs[tx.body.id].n \in Nat
        BY <4>1, StateFields DEF JobRec
      <4>3. QED
        BY <2>12, <4>1, <4>2 DEF FirstOfItsKind
    <3>5. Total(t.balance) + Total(Due(t)) = Total(s.balance) + Total(Due(s))
      BY <2>12, <3>1, <3>3, <3>4, CommittedFields
    <3>6. QED
      BY <2>3, <2>4, <2>6, <3>2, <3>5 DEF InUse
  <2>13. CASE tx.body.kind = "BRIDGE_DEPOSIT"
    <3>1. t = DepositCredited(s, tx)
      BY <2>13 DEF Becomes
    <3>2. /\ Total(t.balance) = Total(s.balance) + x /\ Supply(t) = Supply(s) + x
          /\ t.jobs = s.jobs /\ t.stake = s.stake /\ t.withdrawn = s.withdrawn
      BY <1>2, <2>13, <3>1, DepositFields
    <3>3. QED
      BY <2>3, <2>4, <2>5, <3>2 DEF InUse
  <2>14. CASE tx.body.kind = "SLASH_HARD"
    <3>1. t = Slashed(s, tx)
      BY <2>14 DEF Becomes
    <3>2. /\ Total(t.stake) <= Total(s.stake) /\ t.balance = s.balance
          /\ t.jobs = s.jobs /\ t.withdrawn = s.withdrawn /\ t.credits = s.credits
      BY <1>2, <2>14, <3>1, SlashedFields
    <3>3. QED
      BY <2>3, <2>4, <2>5, <2>6, <3>2 DEF InUse
  <2>15. QED
    BY <2>7, <2>8, <2>9, <2>10, <2>11, <2>12, <2>13, <2>14, TxFields DEF Kinds, UserKinds
<1>5. QED
  BY <1>3, <1>4

(* The nonces that a's accepted transactions used.                         *)
UsedBy(s, a) == {tx.nonce : tx \in {t \in s.accepted : t.sender = a}}

(* A transaction whose nonce is the account's is the first with its nonce. *)
LEMMA NextNonceOnce ==
  ASSUME NEW s \in StateRec, NEW tx, UserOK(tx), Expected(s, tx), ~ Replayed(s),
         NEW t, t.nonce = Bumped(s, tx.sender), t.accepted = s.accepted \cup {tx}
  PROVE  ~ Replayed(t)
<1> DEFINE a == tx.sender
<1>1. a \in Accounts /\ tx.nonce = s.nonce[a] /\ s.nonce[a] \in Nat
  BY UserFields, StateFields DEF Expected
<1>2. \A b \in Accounts : UsedBy(s, b) = 0 .. (s.nonce[b] - 1)
  BY DEF Replayed, UsedBy
<1>3. \A u \in s.accepted : u.sender = a => u.nonce # tx.nonce
  <2>1. \A u \in s.accepted : u.sender = a => u.nonce \in UsedBy(s, a)
    BY DEF UsedBy
  <2>2. \A k \in 0 .. (s.nonce[a] - 1) : k # tx.nonce
    BY <1>1
  <2>3. QED
    BY <1>1, <1>2, <2>1, <2>2
<1>4. \A u, v \in t.accepted : u # v => ~ (u.sender = v.sender /\ u.nonce = v.nonce)
  BY <1>3 DEF Replayed
<1>5. \A b \in Accounts : UsedBy(t, b) = 0 .. (t.nonce[b] - 1)
  <2>1. TAKE b \in Accounts
  <2>2. CASE b = a
    <3>1. UsedBy(t, b) = UsedBy(s, b) \cup {tx.nonce}
      BY <2>2 DEF UsedBy
    <3>2. t.nonce[b] = s.nonce[b] + 1
      BY <1>1, <2>2, BumpedType
    <3>3. PICK k \in Nat : k = s.nonce[b]
      BY <1>1, <2>2
    <3>4. 0 .. k = (0 .. (k - 1)) \cup {k}
      OBVIOUS
    <3>5. UsedBy(s, b) = 0 .. (k - 1) /\ tx.nonce = k /\ t.nonce[b] - 1 = k
      BY <1>1, <1>2, <2>2, <3>2, <3>3
    <3>6. QED
      BY <3>1, <3>4, <3>5
  <2>3. CASE b # a
    <3>1. UsedBy(t, b) = UsedBy(s, b)
      BY <2>3 DEF UsedBy
    <3>2. t.nonce[b] = s.nonce[b]
      BY <1>1, <2>3, StateFields DEF Bumped, WithBalance
    <3>3. QED
      BY <1>2, <3>1, <3>2
  <2>4. QED
    BY <2>2, <2>3
<1>6. QED
  BY <1>4, <1>5 DEF Replayed, UsedBy

(* No transaction makes a replay.                                          *)
LEMMA BecomesUsedOnce ==
  ASSUME NEW s \in StateRec, NEW tx \in Tx, TxOK(tx), Valid(s, tx),
         NEW t, Becomes(s, tx, t), UsedOnce(s)
  PROVE  UsedOnce(t)
<1>1. CASE ~ NobodyPaysItself(t)
  BY <1>1 DEF UsedOnce
<1>2. CASE t.nonce = s.nonce /\ t.accepted = s.accepted
  BY <1>2 DEF UsedOnce, Replayed, NobodyPaysItself
<1>3. CASE /\ UserOK(tx) /\ t.nonce = Bumped(s, tx.sender)
           /\ t.accepted = s.accepted \cup {tx}
  <2>1. Expected(s, tx)
    BY <1>3 DEF Valid, UserOK, UserKinds
  <2>2. NobodyPaysItself(t) => NobodyPaysItself(s)
    BY <1>3 DEF NobodyPaysItself
  <2>3. ~ Replayed(s) => ~ Replayed(t)
    BY <1>3, <2>1, NextNonceOnce
  <2>4. QED
    BY <2>2, <2>3 DEF UsedOnce
<1>4. QED
  BY <1>1, <1>2, <1>3, BecomesFields

(* The jobs are lost with a restart, and what was due for them.            *)
LEMMA NoJobsType ==
  NoJobs \in [Jobs -> JobRec] /\ \A j \in Jobs : NoJobs[j].results = {} /\ ~ NoJobs[j].known
  BY DEF NoJobs, JobRec

LEMMA NothingDue ==
  ASSUME NEW s \in StateRec, s.jobs = NoJobs
  PROVE  Total(Due(s)) = 0
<1>1. PICK f \in [Jobs -> Nat] : f = Due(s)
  BY DueFunction
<1>2. \A j \in Jobs : f[j] = 0
  BY <1>1, NoJobsType DEF Due, DueTo
<1>3. QED
  BY <1>1, <1>2, TotalZero

LEMMA PersistedFields ==
  ASSUME NEW s \in StateRec, NEW t, t = Persisted(s)
  PROVE  /\ t \in StateRec /\ t.jobs = NoJobs
         /\ Backed(s) => Backed(t)
         /\ UsedOnce(s) => UsedOnce(t)
<1>1. PICK J \in [Jobs -> JobRec] : J = NoJobs
  BY NoJobsType
<1>2. t = [s EXCEPT !.jobs = J]
  BY <1>1 DEF Persisted
<1>3. /\ t \in StateRec /\ t.jobs = J /\ t.balance = s.balance /\ t.stake = s.stake
      /\ t.nonce = s.nonce /\ t.credits = s.credits /\ t.withdrawn = s.withdrawn
      /\ t.accepted = s.accepted
  BY <1>2 DEF StateRec
<1>4. UsedOnce(s) => UsedOnce(t)
  BY <1>3 DEF UsedOnce, Replayed, NobodyPaysItself
<1>5. Total(Due(t)) = 0
  BY <1>1, <1>3, NothingDue
<1>6. Supply(t) = Supply(s)
  BY <1>3 DEF Supply, Bridged
<1>7. Supply(s) \in Nat
  BY BridgedType
<1>8. InUse(t) + Supply(s) <= InUse(s) + Supply(t)
  BY <1>3, <1>5, <1>6, <1>7, InUseType DEF InUse
<1>9. Backed(s) => Backed(t)
  BY <1>3, <1>8, BackedStep
<1>10. QED
  BY <1>1, <1>3, <1>4, <1>9

LEMMA GenesisFields ==
  /\ Genesis \in StateRec /\ Genesis.jobs = NoJobs /\ Backed(Genesis) /\ UsedOnce(Genesis)
<1>1. PICK s : s = Genesis
  OBVIOUS
<1>2. /\ s.balance = GenesisBalance /\ s.stake = GenesisStake
      /\ s.nonce = [a \in Accounts |-> 0] /\ s.jobs = NoJobs
      /\ s.credits = [d \in Deposits |-> 0] /\ s.withdrawn = 0 /\ s.accepted = {}
  BY <1>1 DEF Genesis
<1>3. s \in StateRec
  BY <1>1, NoJobsType, GenesisAmounts DEF Genesis, StateRec
<1>4. UsedOnce(s)
  <2>1. \A a \in Accounts : 0 .. (s.nonce[a] - 1) = {}
    BY <1>2
  <2>2. \A a \in Accounts : UsedBy(s, a) = {}
    BY <1>2 DEF UsedBy
  <2>3. \A a \in Accounts : UsedBy(s, a) = 0 .. (s.nonce[a] - 1)
    BY <2>1, <2>2
  <2>4. QED
    BY <1>2, <2>3 DEF UsedOnce, Replayed, UsedBy
<1>5. Total(GenesisBalance) \in Nat /\ Total(GenesisStake) \in Nat /\ Total(Bridged(s)) \in Nat
  BY <1>3, TotalType, LedgerSets, GenesisAmounts, BridgedType
<1>6. Total(Due(s)) = 0
  BY <1>2, <1>3, NothingDue
<1>7. InUse(s) <= Supply(s)
  BY <1>2, <1>5, <1>6 DEF InUse, Supply
<1>8. QED
  BY <1>1, <1>2, <1>3, <1>4, <1>7 DEF Backed
-----------------------------------------------------------------------------
\* The transactions that wait, those a block under construction set aside
\* included.
Queue == pool \cup block.aside

\* A block under construction starts from the state and sets nothing aside.
Idle == ~ block.building => work = state /\ block.aside = {}

BaseInv ==
    /\ TypeOK
    /\ \A tx \in Queue : TxOK(tx)
    /\ Idle
    /\ pool \cap block.aside = {}
-----------------------------------------------------------------------------
(* What a wallet submits, and what is injected, are transactions.          *)
LEMMA SubmittedTx ==
  ASSUME NEW a \in Wallets, NEW seq \in 0 .. MaxNonce, NEW gas \in GasPrices,
         NEW body \in UserBodies, NEW tx, tx = UserTx(a, seq, gas, body)
  PROVE  UserOK(tx) /\ tx.sender = a /\ tx.nonce = seq /\ tx.body = body /\ a \in Accounts
<1>1. PICK k \in UserKinds, peer \in Holder, x \in Nat, id \in Ids, n \in Nat :
          /\ body = Body(k, peer, x, id, n)
          /\ k = "TRANSFER" => peer \in Accounts
          /\ k = "JOB_POST" => id \in Jobs /\ n # 0
  <2>1. CASE body \in {Body("TRANSFER", b, x, NoId, 0) : b \in Accounts, x \in Amounts}
    <3>1. PICK b \in Accounts, x \in Amounts : body = Body("TRANSFER", b, x, NoId, 0)
      BY <2>1
    <3>2. b \in Holder /\ x \in Nat /\ NoId \in Ids /\ "TRANSFER" \in UserKinds
      BY LedgerInputs DEF Holder, Ids, UserKinds
    <3>3. QED
      BY <3>1, <3>2
  <2>2. CASE body \in {Body(k, NoOne, x, NoId, 0) :
                          k \in {"STAKE", "UNSTAKE", "BRIDGE_WITHDRAW"}, x \in Amounts}
    <3>1. PICK k \in {"STAKE", "UNSTAKE", "BRIDGE_WITHDRAW"}, x \in Amounts :
             body = Body(k, NoOne, x, NoId, 0)
      BY <2>2
    <3>2. NoOne \in Holder /\ x \in Nat /\ NoId \in Ids /\ k \in UserKinds
      BY LedgerInputs DEF Holder, Ids, UserKinds
    <3>3. QED
      BY <3>1, <3>2
  <2>3. CASE body \in {Body("JOB_POST", NoOne, x, j, n) : x \in Fees, j \in Jobs, n \in ShardCounts}
    <3>1. PICK x \in Fees, j \in Jobs, n \in ShardCounts : body = Body("JOB_POST", NoOne, x, j, n)
      BY <2>3
    <3>2. NoOne \in Holder /\ x \in Nat /\ j \in Ids /\ n \in Nat \ {0} /\ "JOB_POST" \in UserKinds
      BY LedgerInputs DEF Holder, Ids, UserKinds
    <3>3. QED
      BY <3>1, <3>2
  <2>4. QED
    BY <2>1, <2>2, <2>3 DEF UserBodies
<1>2. /\ body \in Bodies /\ body.kind = k /\ body.peer = peer /\ body.id = id /\ body.n = n
  BY <1>1 DEF Body, Bodies, Kinds
<1>3. a \in Accounts /\ seq \in Nat /\ gas \in Nat /\ a # NoOne
  BY LedgerInputs, LedgerLimits, LedgerSets
<1>4. tx \in Tx /\ tx.sender = a /\ tx.nonce = seq /\ tx.body = body
  BY <1>2, <1>3 DEF UserTx, Tx, Holder
<1>5. QED
  BY <1>1, <1>2, <1>3, <1>4 DEF UserOK, TxOK, UserKinds

LEMMA InjectedCommit ==
  ASSUME NEW j \in Jobs, NEW n \in Nat, NEW m \in Miners, NEW tx, tx = CommitTx(j, n, m)
  PROVE  /\ tx \in Tx /\ TxOK(tx) /\ tx.sender = NoOne
         /\ tx.body.kind = "SHARD_COMMIT" /\ tx.body.id = j /\ tx.body.n = n
<1>1. m \in Accounts
  BY LedgerInputs
<1>2. PICK body : body = Body("SHARD_COMMIT", m, 0, j, n)
  OBVIOUS
<1>3. /\ body \in Bodies /\ body.kind = "SHARD_COMMIT" /\ body.peer = m
      /\ body.id = j /\ body.n = n
  BY <1>1, <1>2 DEF Body, Bodies, Kinds, UserKinds, Holder, Ids
<1>4. tx = [sender |-> NoOne, nonce |-> 0, gas |-> 0, body |-> body]
  BY <1>2 DEF CommitTx, ProtocolTx
<1>5. tx \in Tx /\ tx.sender = NoOne /\ tx.body = body
  BY <1>3, <1>4 DEF Tx, Holder
<1>6. QED
  BY <1>1, <1>3, <1>5 DEF TxOK, UserKinds

LEMMA InjectedSlash ==
  ASSUME NEW j \in Jobs, NEW m \in Miners, NEW tx, tx = SlashTx(j, m)
  PROVE  tx \in Tx /\ TxOK(tx) /\ tx.sender = NoOne /\ tx.body.kind = "SLASH_HARD"
<1>1. m \in Accounts
  BY LedgerInputs
<1>2. PICK body : body = Body("SLASH_HARD", m, 0, j, 0)
  OBVIOUS
<1>3. body \in Bodies /\ body.kind = "SLASH_HARD" /\ body.peer = m
  BY <1>1, <1>2 DEF Body, Bodies, Kinds, UserKinds, Holder, Ids
<1>4. tx = [sender |-> NoOne, nonce |-> 0, gas |-> 0, body |-> body]
  BY <1>2 DEF SlashTx, ProtocolTx
<1>5. tx \in Tx /\ tx.sender = NoOne /\ tx.body = body
  BY <1>3, <1>4 DEF Tx, Holder
<1>6. QED
  BY <1>1, <1>3, <1>5 DEF TxOK, UserKinds

LEMMA InjectedDeposit ==
  ASSUME NEW d \in Deposits, NEW tx, tx = DepositTx(d)
  PROVE  tx \in Tx /\ TxOK(tx) /\ tx.sender = NoOne /\ tx.body.kind = "BRIDGE_DEPOSIT"
<1>1. Deposit[d].to \in Accounts /\ Deposit[d].amount \in Nat
  BY GenesisAmounts
<1>2. PICK body : body = Body("BRIDGE_DEPOSIT", Deposit[d].to, Deposit[d].amount, d, 0)
  OBVIOUS
<1>3. /\ body \in Bodies /\ body.kind = "BRIDGE_DEPOSIT" /\ body.id = d
      /\ body.peer = Deposit[d].to /\ body.amount = Deposit[d].amount
  BY <1>1, <1>2 DEF Body, Bodies, Kinds, UserKinds, Holder, Ids
<1>4. tx = [sender |-> NoOne, nonce |-> 0, gas |-> 0, body |-> body]
  BY <1>2 DEF DepositTx, ProtocolTx
<1>5. tx \in Tx /\ tx.sender = NoOne /\ tx.body = body
  BY <1>3, <1>4 DEF Tx, Holder
<1>6. QED
  BY <1>1, <1>3, <1>5 DEF TxOK, UserKinds

(* mempool.add only adds.                                                  *)
LEMMA AddedOnly ==
  ASSUME NEW T, Added(T)
  PROVE  pool \subseteq pool' /\ pool' \subseteq pool \cup T
  BY DEF Added

\* The injections in one form: they add to the pool and change the
\* environment.
Injected(T) ==
    /\ ~ block.building
    /\ Added(T)
    /\ UNCHANGED <<sequencer, work, pendingNonces, block>>

LEMMA InjectedOK ==
  ASSUME NEW T, \A tx \in T : tx \in Tx /\ TxOK(tx), Injected(T), BaseInv,
         assembled' \in [Jobs -> Nat], slashed' \in [Jobs -> Nat], relays' \in [Deposits -> Nat]
  PROVE  BaseInv'
<1>1. pool \subseteq pool' /\ pool' \subseteq pool \cup T
  BY AddedOnly DEF Injected
<1>2. \A tx \in pool' : tx \in Tx /\ TxOK(tx)
  BY <1>1 DEF BaseInv, TypeOK, Queue
<1>3. TypeOK'
  BY <1>2 DEF Injected, BaseInv, TypeOK, sequencer
<1>4. Idle' /\ (\A tx \in Queue' : TxOK(tx)) /\ pool' \cap block'.aside = {}
  BY <1>2 DEF Injected, BaseInv, Idle, Queue, sequencer
<1>5. QED
  BY <1>3, <1>4 DEF BaseInv

\* One round of the loop that applies a transaction or drops it.
Round(tx) ==
    /\ tx \in pool
    /\ InBatch(tx)
    /\ \/ work' = work
       \/ Valid(work, tx) /\ Becomes(work, tx, work')

LEMMA RoundOfApply ==
  ASSUME NEW tx \in pool, RejectTx(tx) \/ Apply(tx)
  PROVE  Round(tx)
<1>1. CASE RejectTx(tx)
  BY <1>1 DEF Round, RejectTx
<1>2. CASE Apply(tx)
  <2>1. InBatch(tx) /\ Valid(work, tx)
    BY <1>2 DEF Apply, Accepts, SelfTransfer, Transfer, Stake, Unstake, JobPost,
                ShardCommit, BridgeDeposit, BridgeWithdraw, Slash
  <2>2. Becomes(work, tx, work')
    BY <1>2 DEF Becomes, Apply, Accepts, SelfTransfer, Transfer, Stake, Unstake, JobPost,
                ShardCommit, BridgeDeposit, BridgeWithdraw, Slash
  <2>3. QED
    BY <2>1, <2>2 DEF Round
<1>3. QED
  BY <1>1, <1>2

(* What a round does to the mempool and to the block.                      *)
LEMMA RoundFields ==
  ASSUME TypeOK, NEW tx, Round(tx)
  PROVE  /\ tx \in Tx /\ pool' = pool \ {tx} /\ block.building
         /\ block' \in BlockRec /\ block'.building /\ block'.aside = block.aside
         /\ pendingNonces' = NoncesWithout(tx)
         /\ pendingNonces' \in [Accounts -> SUBSET Nat]
         /\ UNCHANGED <<state, disk, height, assembled, slashed, relays>>
<1>1. /\ tx \in Tx /\ pool' = pool \ {tx} /\ block.building
      /\ pendingNonces' = NoncesWithout(tx)
      /\ UNCHANGED <<state, disk, height, assembled, slashed, relays>>
  BY DEF TypeOK, Round, InBatch, Pops, sequencer, environment
<1>2. tx.sender \in Accounts \cup {NoOne} /\ tx.nonce \in Nat
  BY <1>1, TxFields DEF Holder
<1>3. LastWith(tx) \in [Accounts -> Nat \cup {None}]
  BY <1>2 DEF LastWith, TypeOK, BlockRec
<1>4. block' \in BlockRec /\ block'.building /\ block'.aside = block.aside
  <2>1. PICK L \in [Accounts -> Nat \cup {None}] : L = LastWith(tx)
    BY <1>3
  <2>2. block \in BlockRec
    BY DEF TypeOK
  <2>3. PICK c \in Nat : c = block.count + 1
    BY <2>2 DEF BlockRec
  <2>4. block' = [block EXCEPT !.count = c, !.last = L]
    BY <2>1, <2>3 DEF Round, InBatch
  <2>5. QED
    BY <1>1, <2>2, <2>4 DEF BlockRec
<1>5. NoncesWithout(tx) \in [Accounts -> SUBSET Nat]
  BY <1>2 DEF NoncesWithout, TypeOK
<1>6. QED
  BY <1>1, <1>4, <1>5

LEMMA RoundOK ==
  ASSUME BaseInv, NEW tx, Round(tx)
  PROVE  BaseInv'
<1>1. /\ tx \in Tx /\ pool' = pool \ {tx} /\ block.building
      /\ block' \in BlockRec /\ block'.building /\ block'.aside = block.aside
      /\ pendingNonces' \in [Accounts -> SUBSET Nat]
      /\ UNCHANGED <<state, disk, height, assembled, slashed, relays>>
  BY RoundFields DEF BaseInv
<1>2. TxOK(tx)
  BY DEF Round, BaseInv, Queue
<1>3. work' \in StateRec
  BY <1>1, <1>2, BecomesFields DEF Round, BaseInv, TypeOK
<1>4. QED
  BY <1>1, <1>3 DEF BaseInv, TypeOK, Idle, Queue

(* A transaction that is set aside still waits.                            *)
LEMMA SetAsideFields ==
  ASSUME BaseInv, NEW tx \in pool, SetAside(tx)
  PROVE  /\ Queue' = Queue /\ block.building /\ block'.building
         /\ pool' \subseteq pool /\ block' \in BlockRec /\ pool' \cap block'.aside = {}
         /\ UNCHANGED <<state, work, disk, height, pendingNonces, assembled, slashed, relays>>
<1>1. block \in BlockRec /\ tx \in Tx
  BY DEF BaseInv, TypeOK
<1>2. block' = [block EXCEPT !.aside = block.aside \cup {tx}]
  BY DEF SetAside
<1>3. block' \in BlockRec /\ block'.building = block.building /\ block'.aside = block.aside \cup {tx}
  BY <1>1, <1>2 DEF BlockRec
<1>4. pool' = pool \ {tx} /\ block.building
  BY DEF SetAside, Pops
<1>5. UNCHANGED <<state, work, disk, height, pendingNonces, assembled, slashed, relays>>
  BY DEF SetAside, sequencer, environment
<1>6. QED
  BY <1>3, <1>4, <1>5 DEF Queue, BaseInv

(* The batch ends, and what was set aside waits in the pool.               *)
LEMMA ClosesFields ==
  ASSUME BaseInv, Closes
  PROVE  /\ Queue' = Queue /\ pool' \subseteq Tx
         /\ block' = IdleBlock
         /\ UNCHANGED <<pendingNonces, assembled, slashed, relays>>
<1>1. pool \subseteq Tx /\ block.aside \subseteq Tx
  BY DEF BaseInv, TypeOK, BlockRec
<1>2. QED
  BY <1>1 DEF Closes, IdleBlock, Queue, environment

LEMMA IdleBlockType ==
  /\ IdleBlock \in BlockRec /\ ~ IdleBlock.building /\ IdleBlock.aside = {}
  /\ [IdleBlock EXCEPT !.building = TRUE] \in BlockRec
  /\ [IdleBlock EXCEPT !.building = TRUE].aside = {}
  /\ [IdleBlock EXCEPT !.building = TRUE].building
  BY DEF IdleBlock, BlockRec

LEMMA HeightType ==
  SNAPSHOT_EVERY \in Nat \ {0} /\ \A h \in Nat : (h + 1) % SNAPSHOT_EVERY \in 0 .. (SNAPSHOT_EVERY - 1)
<1>1. SNAPSHOT_EVERY \in Nat \ {0}
  BY LedgerLimits
<1>2. \A h \in Nat, n \in Nat \ {0} : (h + 1) % n \in 0 .. (n - 1)
  OBVIOUS
<1>3. QED
  BY <1>1, <1>2

LEMMA BaseInit == Init => BaseInv
<1> SUFFICES ASSUME Init PROVE BaseInv
  OBVIOUS
<1>1. state \in StateRec /\ work \in StateRec /\ disk \in StateRec
  BY GenesisFields DEF Init
<1>2. 0 \in 0 .. (SNAPSHOT_EVERY - 1)
  BY HeightType
<1>3. TypeOK
  BY <1>1, <1>2, IdleBlockType DEF Init, TypeOK
<1>4. QED
  BY <1>3, IdleBlockType DEF Init, BaseInv, Idle, Queue

LEMMA SubmitOK ==
  ASSUME BaseInv, NEW a \in Wallets, NEW seq \in 0 .. MaxNonce, NEW gas \in GasPrices,
         NEW body \in UserBodies, Submit(a, seq, gas, body)
  PROVE  BaseInv'
<1>1. PICK tx : tx = UserTx(a, seq, gas, body)
  OBVIOUS
<1>2. tx \in Tx /\ TxOK(tx) /\ a \in Accounts /\ seq \in Nat
  BY <1>1, SubmittedTx, LedgerLimits DEF UserOK
<1>3. pool' = pool \cup {tx}
  BY <1>1 DEF Submit
<1>4. pendingNonces' = [pendingNonces EXCEPT ![a] = pendingNonces[a] \cup {seq}]
  BY DEF Submit
<1>5. pendingNonces' \in [Accounts -> SUBSET Nat]
  BY <1>2, <1>4 DEF BaseInv, TypeOK
<1>6. UNCHANGED <<state, disk, height, work, block, assembled, slashed, relays>>
  BY DEF Submit, sequencer, environment
<1>7. ~ block.building /\ work = state /\ block.aside = {}
  BY DEF Submit, BaseInv, Idle
<1>8. TypeOK'
  BY <1>2, <1>3, <1>5, <1>6 DEF BaseInv, TypeOK
<1>9. QED
  BY <1>2, <1>3, <1>6, <1>7, <1>8 DEF BaseInv, Queue, Idle

LEMMA AssembleInjects ==
  ASSUME BaseInv, NEW j \in Jobs, NEW S \in SUBSET (0 .. (state.jobs[j].n - 1)),
         NEW f \in [S -> Miners], Assemble(j, S, f),
         NEW T, T = {CommitTx(j, s, f[s]) : s \in S}
  PROVE  /\ Injected(T) /\ \A tx \in T : tx \in Tx /\ TxOK(tx)
         /\ assembled' \in [Jobs -> Nat] /\ slashed' \in [Jobs -> Nat]
         /\ relays' \in [Deposits -> Nat]
<1>1. \A s \in S : s \in Nat /\ f[s] \in Miners
  BY StateFields DEF BaseInv, TypeOK, JobRec
<1>2. \A tx \in T : tx \in Tx /\ TxOK(tx)
  BY <1>1, InjectedCommit
<1>3. Injected(T)
  BY DEF Assemble, Injected
<1>4. QED
  BY <1>2, <1>3 DEF Assemble, BaseInv, TypeOK

LEMMA SlashInjects ==
  ASSUME BaseInv, NEW j \in Jobs, NEW m \in Miners, SlashMiner(j, m), NEW T, T = {SlashTx(j, m)}
  PROVE  /\ Injected(T) /\ \A tx \in T : tx \in Tx /\ TxOK(tx)
         /\ assembled' \in [Jobs -> Nat] /\ slashed' \in [Jobs -> Nat]
         /\ relays' \in [Deposits -> Nat]
<1>1. \A tx \in T : tx \in Tx /\ TxOK(tx)
  BY InjectedSlash
<1>2. Injected(T)
  BY DEF SlashMiner, Injected
<1>3. QED
  BY <1>1, <1>2 DEF SlashMiner, BaseInv, TypeOK

LEMMA RelayInjects ==
  ASSUME BaseInv, NEW d \in Deposits, RelayDeposit(d), NEW T, T = {DepositTx(d)}
  PROVE  /\ Injected(T) /\ \A tx \in T : tx \in Tx /\ TxOK(tx)
         /\ assembled' \in [Jobs -> Nat] /\ slashed' \in [Jobs -> Nat]
         /\ relays' \in [Deposits -> Nat]
<1>1. \A tx \in T : tx \in Tx /\ TxOK(tx)
  BY InjectedDeposit
<1>2. Injected(T)
  BY DEF RelayDeposit, Injected
<1>3. QED
  BY <1>1, <1>2 DEF RelayDeposit, BaseInv, TypeOK

LEMMA BaseStep == BaseInv /\ [Next]_vars => BaseInv'
<1> SUFFICES ASSUME BaseInv, [Next]_vars PROVE BaseInv'
  OBVIOUS
<1> USE DEF BaseInv
<1>1. CASE Clients
  BY <1>1, SubmitOK DEF Clients
<1>2. CASE Injections
  <2>1. ASSUME NEW j \in Jobs, NEW S \in SUBSET (0 .. (state.jobs[j].n - 1)) \ {{}},
               NEW f \in [S -> Miners], Assemble(j, S, f)
        PROVE  BaseInv'
    BY <2>1, AssembleInjects, InjectedOK
  <2>2. ASSUME NEW j \in Jobs, NEW m \in Miners, SlashMiner(j, m)
        PROVE  BaseInv'
    BY <2>2, SlashInjects, InjectedOK
  <2>3. ASSUME NEW d \in Deposits, RelayDeposit(d)
        PROVE  BaseInv'
    BY <2>3, RelayInjects, InjectedOK
  <2>4. QED
    BY <1>2, <2>1, <2>2, <2>3 DEF Injections
<1>3. ASSUME NEW tx \in pool, RejectTx(tx) \/ Apply(tx)
      PROVE  BaseInv'
  BY <1>3, RoundOfApply, RoundOK
<1>4. ASSUME NEW tx \in pool, SetAside(tx)
      PROVE  BaseInv'
  BY <1>4, SetAsideFields DEF TypeOK, Idle
<1>5. CASE StartBlock
  <2>1. /\ block' \in BlockRec /\ block'.building /\ block'.aside = {} /\ Queue' = Queue
        /\ UNCHANGED <<state, disk, height, work, pool, pendingNonces, assembled, slashed, relays>>
    BY <1>5, IdleBlockType DEF StartBlock, Idle, Queue, sequencer, mempool, environment
  <2>2. QED
    BY <2>1 DEF TypeOK, Idle
<1>6. CASE EndBlock
  <2>1. Queue' = Queue /\ pool' \subseteq Tx /\ block' = IdleBlock
        /\ UNCHANGED <<pendingNonces, assembled, slashed, relays>>
    BY <1>6, ClosesFields DEF EndBlock
  <2>2. state' = work /\ work' = work
    BY <1>6 DEF EndBlock
  <2>3. disk' \in StateRec
    BY <1>6, PersistedFields DEF EndBlock, TypeOK
  <2>4. height' \in 0 .. (SNAPSHOT_EVERY - 1)
    BY <1>6, HeightType DEF EndBlock, TypeOK
  <2>5. QED
    BY <2>1, <2>2, <2>3, <2>4, IdleBlockType DEF TypeOK, Idle
<1>7. CASE DiscardBlock
  <2>1. Queue' = Queue /\ pool' \subseteq Tx /\ block' = IdleBlock
        /\ UNCHANGED <<pendingNonces, assembled, slashed, relays>>
    BY <1>7, ClosesFields DEF DiscardBlock
  <2>2. state' = state /\ work' = state /\ disk' = disk /\ height' = height
    BY <1>7 DEF DiscardBlock, sequencer
  <2>3. QED
    BY <2>1, <2>2, IdleBlockType DEF TypeOK, Idle
<1>8. CASE Restart
  <2>1. /\ state' = disk /\ work' = disk /\ disk' = disk /\ height' = 0 /\ pool' = {}
        /\ pendingNonces' = [a \in Accounts |-> {}] /\ block' = IdleBlock
        /\ UNCHANGED <<assembled, slashed, relays>>
    BY <1>8 DEF Restart, environment
  <2>2. 0 \in 0 .. (SNAPSHOT_EVERY - 1)
    BY HeightType
  <2>3. Queue' = {}
    BY <2>1, IdleBlockType DEF Queue
  <2>4. QED
    BY <2>1, <2>2, <2>3, IdleBlockType DEF TypeOK, Idle
<1>9. CASE UNCHANGED vars
  BY <1>9 DEF vars, TypeOK, Idle, Queue, sequencer, mempool, environment
<1>10. QED
  BY <1>1, <1>2, <1>3, <1>4, <1>5, <1>6, <1>7, <1>8, <1>9 DEF Next, BlockStep

LEMMA BaseAlways == Spec => []BaseInv
BY BaseInit, BaseStep, PTL DEF Spec

(* Every reachable state of the ledger, the block under construction and   *)
(* the snapshot have their types: no balance, stake or nonce ever drops    *)
(* below zero, in whatever order the pool hands out the transactions.      *)
THEOREM LedgerTypeCorrect == Spec => []TypeOK
BY BaseAlways, PTL DEF BaseInv
-----------------------------------------------------------------------------
(* A state changes by one transaction, to a snapshot, or to the state that *)
(* another of the three had.                                               *)
AfterOneOf(s) ==
    \/ s \in States
    \/ s = Persisted(work)
    \/ \E tx \in Queue : Valid(work, tx) /\ Becomes(work, tx, s)

LEMMA StatesStep ==
  ASSUME BaseInv, [Next]_vars
  PROVE  \A s \in States' : AfterOneOf(s)
<1>1. SUFFICES AfterOneOf(state') /\ AfterOneOf(work') /\ AfterOneOf(disk')
  BY DEF States
<1>2. AfterOneOf(state) /\ AfterOneOf(work) /\ AfterOneOf(disk) /\ AfterOneOf(Persisted(work))
  BY DEF AfterOneOf, States
<1>3. CASE Clients
  BY <1>2, <1>3 DEF Clients, Submit, sequencer
<1>4. CASE Injections
  BY <1>2, <1>4 DEF Injections, Assemble, SlashMiner, RelayDeposit, sequencer
<1>5. ASSUME NEW tx \in pool, RejectTx(tx) \/ Apply(tx)
      PROVE  AfterOneOf(state') /\ AfterOneOf(work') /\ AfterOneOf(disk')
  <2>1. Round(tx)
    BY <1>5, RoundOfApply
  <2>2. state' = state /\ disk' = disk
    BY <2>1, RoundFields DEF BaseInv
  <2>3. AfterOneOf(work')
    BY <1>2, <2>1 DEF Round, AfterOneOf, Queue
  <2>4. QED
    BY <1>2, <2>2, <2>3
<1>6. ASSUME NEW tx \in pool, SetAside(tx)
      PROVE  AfterOneOf(state') /\ AfterOneOf(work') /\ AfterOneOf(disk')
  BY <1>2, <1>6 DEF SetAside, sequencer
<1>7. CASE StartBlock
  BY <1>2, <1>7 DEF StartBlock, sequencer
<1>8. CASE EndBlock
  BY <1>2, <1>8 DEF EndBlock
<1>9. CASE DiscardBlock
  BY <1>2, <1>9 DEF DiscardBlock, sequencer
<1>10. CASE Restart
  BY <1>2, <1>10 DEF Restart
<1>11. CASE UNCHANGED vars
  BY <1>2, <1>11 DEF vars, sequencer
<1>12. QED
  BY <1>3, <1>4, <1>5, <1>6, <1>7, <1>8, <1>9, <1>10, <1>11 DEF Next, BlockStep

LEMMA OnceStep == BaseInv /\ OncePerNonce /\ [Next]_vars => OncePerNonce'
<1> SUFFICES ASSUME BaseInv, OncePerNonce, [Next]_vars PROVE OncePerNonce'
  OBVIOUS
<1>1. SUFFICES ASSUME NEW s \in States' PROVE UsedOnce(s)
  BY DEF OncePerNonce, UsedOnce
<1>2. work \in StateRec /\ UsedOnce(work) /\ \A t \in States : UsedOnce(t)
  BY DEF BaseInv, TypeOK, OncePerNonce, UsedOnce, States
<1>3. CASE s \in States
  BY <1>2, <1>3
<1>4. CASE s = Persisted(work)
  BY <1>2, <1>4, PersistedFields
<1>5. ASSUME NEW tx \in Queue, Valid(work, tx), Becomes(work, tx, s)
      PROVE  UsedOnce(s)
  <2>1. tx \in Tx /\ TxOK(tx)
    BY DEF BaseInv, TypeOK, BlockRec, Queue
  <2>2. QED
    BY <1>2, <1>5, <2>1, BecomesUsedOnce
<1>6. QED
  BY <1>3, <1>4, <1>5, StatesStep DEF AfterOneOf

(* Replay protection: no wallet has two transactions with one nonce in a   *)
(* chain, and none of its nonces is left out, whatever the pool's order,   *)
(* whatever a restart rolled back, and whatever is submitted a second time.*)
THEOREM NoReplays == Spec => []OncePerNonce
<1>1. Init => OncePerNonce
  BY GenesisFields DEF Init, OncePerNonce, UsedOnce, States
<1>2. QED
  BY <1>1, OnceStep, BaseAlways, PTL DEF Spec
-----------------------------------------------------------------------------
(* The nonces of wallets whose transactions wait.                          *)
Waiting(a, k) == \E tx \in Queue : tx.sender = a /\ tx.nonce = k

LEMMA PendingStep == BaseInv /\ PendingNoncesAreReal /\ [Next]_vars => PendingNoncesAreReal'
<1> SUFFICES ASSUME BaseInv, PendingNoncesAreReal, [Next]_vars,
                    NEW a \in Accounts, NEW k \in pendingNonces'[a]
             PROVE  Waiting(a, k)'
  BY DEF PendingNoncesAreReal, Waiting, Queue
<1>1. pendingNonces \in [Accounts -> SUBSET Nat]
  BY DEF BaseInv, TypeOK
<1>2. \A n \in pendingNonces[a] : Waiting(a, n)
  BY DEF PendingNoncesAreReal, Waiting, Queue
<1>3. pendingNonces' = pendingNonces /\ Queue \subseteq Queue' => Waiting(a, k)'
  BY <1>2 DEF Waiting
<1>4. ASSUME NEW b \in Wallets, NEW seq \in 0 .. MaxNonce, NEW gas \in GasPrices,
             NEW body \in UserBodies, Submit(b, seq, gas, body)
      PROVE  Waiting(a, k)'
  <2>1. PICK tx : tx = UserTx(b, seq, gas, body)
    OBVIOUS
  <2>2. tx.sender = b /\ tx.nonce = seq
    BY <2>1, SubmittedTx
  <2>3. Queue' = Queue \cup {tx} /\ pendingNonces' = [pendingNonces EXCEPT ![b] = pendingNonces[b] \cup {seq}]
    BY <1>4, <2>1 DEF Submit, Queue
  <2>4. k \in pendingNonces[a] \/ (a = b /\ k = seq)
    BY <1>1, <2>3
  <2>5. QED
    BY <1>2, <2>2, <2>3, <2>4 DEF Waiting
<1>5. CASE Injections
  <2>1. pendingNonces' = pendingNonces /\ pool \subseteq pool' /\ block' = block
    BY <1>5, AddedOnly DEF Injections, Assemble, SlashMiner, RelayDeposit
  <2>2. QED
    BY <1>3, <2>1 DEF Queue
<1>6. ASSUME NEW tx \in pool, RejectTx(tx) \/ Apply(tx)
      PROVE  Waiting(a, k)'
  <2>1. Round(tx)
    BY <1>6, RoundOfApply
  <2>2. tx \in Tx /\ Queue' = (pool \ {tx}) \cup block.aside /\ pendingNonces' = NoncesWithout(tx)
    BY <2>1, RoundFields DEF BaseInv, Queue
  <2>3. k \in pendingNonces[a] /\ ~ (tx.sender = a /\ tx.nonce = k)
    BY <1>1, <2>2, LedgerSets DEF NoncesWithout
  <2>4. QED
    BY <1>2, <2>2, <2>3 DEF Waiting, Queue
<1>7. ASSUME NEW tx \in pool, SetAside(tx)
      PROVE  Waiting(a, k)'
  BY <1>3, <1>7, SetAsideFields
<1>8. CASE StartBlock
  <2>1. Queue' = Queue /\ pendingNonces' = pendingNonces
    BY <1>8, IdleBlockType DEF StartBlock, Queue, mempool, BaseInv, Idle
  <2>2. QED
    BY <1>3, <2>1
<1>9. CASE Closes
  BY <1>3, <1>9, ClosesFields
<1>10. CASE Restart
  BY <1>10 DEF Restart
<1>11. CASE UNCHANGED vars
  BY <1>3, <1>11 DEF vars, Queue, mempool
<1>12. QED
  BY <1>4, <1>5, <1>6, <1>7, <1>8, <1>9, <1>10, <1>11
  DEF Next, Clients, BlockStep, EndBlock, DiscardBlock

(* Every pending nonce belongs to a transaction that waits: the RPC        *)
(* methods, which continue after the last pending nonce, leave no gap.     *)
THEOREM NoStaleNonces == Spec => []PendingNoncesAreReal
<1>1. Init => PendingNoncesAreReal
  BY DEF Init, PendingNoncesAreReal
<1>2. QED
  BY <1>1, PendingStep, BaseAlways, PTL DEF Spec
-----------------------------------------------------------------------------
(* The waiting transactions fit the jobs J: a job is posted once, and the  *)
(* shards of a job that was assembled once were not paid yet.              *)
PostFits(J, tx) ==
    tx.body.kind = "JOB_POST" => ~ J[tx.body.id].known /\ assembled[tx.body.id] = 0

CommitFits(J, tx) ==
    tx.body.kind = "SHARD_COMMIT" =>
        /\ J[tx.body.id].known /\ tx.body.n < J[tx.body.id].n
        /\ assembled[tx.body.id] # 0
        /\ assembled[tx.body.id] = 1 => tx.body.n \notin J[tx.body.id].results

JobsFit(J) ==
    /\ \A tx \in Queue : PostFits(J, tx) /\ CommitFits(J, tx)
    /\ \A j \in Jobs : J[j].results # {} => assembled[j] # 0

\* No job is posted twice, and no shard committed twice, in the queue.
Clash(tx, u) ==
    /\ tx # u /\ tx.body.kind = u.body.kind /\ tx.body.id = u.body.id
    /\ \/ tx.body.kind = "JOB_POST"
       \/ tx.body.kind = "SHARD_COMMIT" /\ tx.body.n = u.body.n /\ assembled[tx.body.id] = 1

JobsInv ==
    /\ disk.jobs = NoJobs
    /\ JobsFit(state.jobs)
    /\ JobsFit(work.jobs)
    /\ \A tx, u \in Queue : ~ Clash(tx, u)

\* A step that loses transactions: only the jobs of the block under
\* construction may change.
LEMMA JobsKept ==
  ASSUME JobsInv, Queue' \subseteq Queue, assembled' = assembled, disk' = disk, state' = state,
         JobsFit(work.jobs)'
  PROVE  JobsInv'
<1>1. JobsFit(state.jobs)'
  BY DEF JobsInv, JobsFit, PostFits, CommitFits
<1>2. \A tx, u \in Queue' : ~ Clash(tx, u)'
  BY DEF JobsInv, Clash
<1>3. QED
  BY <1>1, <1>2 DEF JobsInv

\* A step that loses transactions and keeps, of the jobs, one of two.
LEMMA JobsQuiet ==
  ASSUME JobsInv, Queue' \subseteq Queue, assembled' = assembled, disk'.jobs = NoJobs,
         state'.jobs \in {state.jobs, work.jobs}, work'.jobs \in {state.jobs, work.jobs}
  PROVE  JobsInv'
<1>1. ASSUME NEW J, JobsFit(J)
      PROVE  /\ \A tx \in Queue' : /\ tx.body.kind = "JOB_POST" =>
                                        ~ J[tx.body.id].known /\ assembled'[tx.body.id] = 0
                                   /\ tx.body.kind = "SHARD_COMMIT" =>
                                        /\ J[tx.body.id].known /\ tx.body.n < J[tx.body.id].n
                                        /\ assembled'[tx.body.id] # 0
                                        /\ assembled'[tx.body.id] = 1 =>
                                              tx.body.n \notin J[tx.body.id].results
             /\ \A j \in Jobs : J[j].results # {} => assembled'[j] # 0
  BY <1>1 DEF JobsFit, PostFits, CommitFits
<1>2. JobsFit(state.jobs)' /\ JobsFit(work.jobs)'
  BY <1>1 DEF JobsInv, JobsFit, PostFits, CommitFits
<1>3. \A tx, u \in Queue' : ~ Clash(tx, u)'
  BY DEF JobsInv, Clash
<1>4. QED
  BY <1>2, <1>3 DEF JobsInv

LEMMA JobsInit == Init => JobsInv
<1> SUFFICES ASSUME Init PROVE JobsInv
  OBVIOUS
<1>1. /\ state.jobs = NoJobs /\ work.jobs = NoJobs /\ disk.jobs = NoJobs
      /\ Queue = {} /\ assembled = [j \in Jobs |-> 0]
  BY GenesisFields, IdleBlockType DEF Init, Queue
<1>2. \A j \in Jobs : NoJobs[j].results = {}
  BY NoJobsType
<1>3. QED
  BY <1>1, <1>2 DEF JobsInv, JobsFit

LEMMA JobsRestart ==
  ASSUME JobsInv, Restart
  PROVE  JobsInv'
<1>1. state'.jobs = NoJobs /\ work'.jobs = NoJobs /\ disk'.jobs = NoJobs /\ Queue' = {}
  BY IdleBlockType DEF Restart, JobsInv, Queue
<1>2. \A j \in Jobs : NoJobs[j].results = {}
  BY NoJobsType
<1>3. QED
  BY <1>1, <1>2 DEF JobsInv, JobsFit

(* A fresh job id is in no job and in no transaction.                      *)
LEMMA JobsSubmit ==
  ASSUME BaseInv, JobsInv, NEW a \in Wallets, NEW seq \in 0 .. MaxNonce, NEW gas \in GasPrices,
         NEW body \in UserBodies, Submit(a, seq, gas, body)
  PROVE  JobsInv'
<1>1. PICK tx : tx = UserTx(a, seq, gas, body)
  OBVIOUS
<1>2. tx.body = body /\ body.kind # "SHARD_COMMIT"
  BY <1>1, SubmittedTx DEF UserOK, UserKinds
<1>3. /\ Queue = pool /\ Queue' = Queue \cup {tx} /\ work = state
      /\ UNCHANGED <<state, work, disk, assembled>>
  BY <1>1 DEF Submit, Queue, BaseInv, Idle, sequencer, environment
<1>4. body.kind = "JOB_POST" => FreshId(body.id)
  BY DEF Submit
<1>5. PostFits(state.jobs, tx) /\ CommitFits(state.jobs, tx)
  BY <1>2, <1>4 DEF FreshId, PostFits, CommitFits
<1>6. \A u \in Queue : ~ Clash(tx, u) /\ ~ Clash(u, tx)
  BY <1>2, <1>3, <1>4 DEF FreshId, Clash
<1>7. JobsFit(state.jobs)'
  BY <1>3, <1>5 DEF JobsInv, JobsFit, PostFits, CommitFits
<1>8. \A t, u \in Queue' : ~ Clash(t, u)'
  BY <1>3, <1>6 DEF JobsInv, Clash
<1>9. QED
  BY <1>3, <1>7, <1>8 DEF JobsInv

\* Time-outs and deposits do not concern the jobs.
LEMMA JobsOther ==
  ASSUME JobsInv, NEW T, Injected(T), assembled' = assembled,
         \A tx \in T : tx.body.kind \in {"SLASH_HARD", "BRIDGE_DEPOSIT"}
  PROVE  JobsInv'
<1>1. /\ Queue' \subseteq Queue \cup T
      /\ UNCHANGED <<state, work, disk, assembled>>
  BY AddedOnly DEF Injected, Queue, sequencer
<1>2. \A tx \in Queue' : tx \in Queue \/ tx.body.kind \in {"SLASH_HARD", "BRIDGE_DEPOSIT"}
  BY <1>1
<1>3. JobsFit(state.jobs)' /\ JobsFit(work.jobs)'
  BY <1>1, <1>2 DEF JobsInv, JobsFit, PostFits, CommitFits
<1>4. \A tx, u \in Queue' : ~ Clash(tx, u)'
  BY <1>1, <1>2 DEF JobsInv, Clash
<1>5. QED
  BY <1>1, <1>3, <1>4 DEF JobsInv

(* The first assembly of a job finds none of its shards paid or committed. *)
LEMMA JobsAssemble ==
  ASSUME BaseInv, JobsInv, NEW j \in Jobs, NEW S \in SUBSET (0 .. (state.jobs[j].n - 1)),
         NEW f \in [S -> Miners], Assemble(j, S, f)
  PROVE  JobsInv'
<1>1. PICK T : T = {CommitTx(j, s, f[s]) : s \in S}
  OBVIOUS
<1>2. Queue' \subseteq Queue \cup T /\ UNCHANGED <<state, work, disk>> /\ work = state
  BY <1>1, AddedOnly DEF Assemble, Queue, BaseInv, Idle, sequencer
<1>3. state.jobs[j].n \in Nat
  BY StateFields DEF BaseInv, TypeOK, JobRec
<1>4. \A tx \in T : /\ tx.body.kind = "SHARD_COMMIT" /\ tx.body.id = j
                    /\ tx.body.n < state.jobs[j].n
                    /\ tx = CommitTx(j, tx.body.n, f[tx.body.n])
  <2>1. SUFFICES ASSUME NEW s \in S, NEW tx, tx = CommitTx(j, s, f[s])
                 PROVE  /\ tx.body.kind = "SHARD_COMMIT" /\ tx.body.id = j
                        /\ tx.body.n < state.jobs[j].n /\ tx.body.n = s
    BY <1>1
  <2>2. s \in Nat /\ f[s] \in Miners /\ s < state.jobs[j].n
    BY <1>3
  <2>3. QED
    BY <2>1, <2>2, InjectedCommit
<1>5. /\ assembled[j] \in Nat /\ assembled'[j] = assembled[j] + 1
      /\ \A i \in Jobs : i # j => assembled'[i] = assembled[i]
  BY DEF Assemble, BaseInv, TypeOK
<1>6. state.jobs[j].known
  BY DEF Assemble
<1>7. \A tx \in Queue : TxOK(tx) /\ PostFits(state.jobs, tx) /\ CommitFits(state.jobs, tx)
  BY DEF BaseInv, JobsInv, JobsFit
<1>8. assembled[j] = 0 => /\ state.jobs[j].results = {}
                          /\ \A tx \in Queue : ~ (tx.body.kind = "SHARD_COMMIT" /\ tx.body.id = j)
  BY <1>7 DEF JobsInv, JobsFit, CommitFits
<1>9. JobsFit(state.jobs)'
  <2>1. ASSUME NEW tx \in Queue' PROVE PostFits(state.jobs, tx)' /\ CommitFits(state.jobs, tx)'
    <3>1. CASE tx \in T
      BY <1>2, <1>4, <1>5, <1>6, <1>8, <3>1 DEF PostFits, CommitFits
    <3>2. CASE tx \in Queue /\ tx.body.id = j
      BY <1>2, <1>5, <1>6, <1>7, <1>8, <3>2 DEF PostFits, CommitFits
    <3>3. CASE tx \in Queue /\ tx.body.id # j
      BY <1>2, <1>5, <1>7, <3>3 DEF PostFits, CommitFits, TxOK
    <3>4. QED
      BY <1>2, <3>1, <3>2, <3>3
  <2>2. ASSUME NEW i \in Jobs, state'.jobs[i].results # {} PROVE assembled'[i] # 0
    BY <1>2, <1>5, <2>2 DEF JobsInv, JobsFit
  <2>3. QED
    BY <2>1, <2>2 DEF JobsFit
<1>10. ASSUME NEW tx \in Queue', NEW u \in Queue' PROVE ~ Clash(tx, u)'
  <2>1. CASE tx \in T /\ u \in T
    BY <1>4, <2>1 DEF Clash
  <2>2. CASE tx \in Queue /\ u \in T
    BY <1>4, <1>5, <1>8, <2>2 DEF Clash
  <2>3. CASE tx \in T /\ u \in Queue
    BY <1>4, <1>5, <1>8, <2>3 DEF Clash
  <2>4. CASE tx \in Queue /\ u \in Queue
    BY <1>5, <1>7, <1>8, <2>4 DEF JobsInv, Clash, TxOK
  <2>5. QED
    BY <1>2, <2>1, <2>2, <2>3, <2>4
<1>11. QED
  BY <1>2, <1>9, <1>10 DEF JobsInv

(* A round of the builder.                                                 *)
LEMMA JobsRound ==
  ASSUME BaseInv, JobsInv, NEW tx, Round(tx)
  PROVE  JobsInv'
<1>1. /\ tx \in Queue /\ tx \in Tx /\ TxOK(tx)
      /\ Queue' \subseteq Queue /\ tx \notin pool'
      /\ block'.aside = block.aside
      /\ UNCHANGED <<state, disk, assembled>> /\ disk.jobs = NoJobs /\ work \in StateRec
  BY RoundFields DEF BaseInv, TypeOK, JobsInv, Queue, Round
<1>2. CASE work' = work \/ (/\ Valid(work, tx) /\ Becomes(work, tx, work')
                            /\ tx.body.kind \notin {"JOB_POST", "SHARD_COMMIT"})
  <2>1. work'.jobs = work.jobs
    BY <1>1, <1>2, BecomesJobs
  <2>2. QED
    BY <1>1, <2>1, JobsQuiet
<1>3. tx \notin Queue'
  BY <1>1 DEF BaseInv, Queue, Round
<1>4. CASE Valid(work, tx) /\ Becomes(work, tx, work') /\ tx.body.kind = "JOB_POST"
  <2>1. UserOK(tx) /\ work' = JobPosted(work, tx) /\ tx.body.id \in Jobs
    BY <1>1, <1>4 DEF UserOK, UserKinds, Becomes, TxOK
  <2>2. /\ work'.jobs[tx.body.id] = NewJob(tx)
        /\ \A i \in Jobs : i # tx.body.id => work'.jobs[i] = work.jobs[i]
    BY <1>1, <1>4, <2>1, JobPostedType
  <2>3. ~ work.jobs[tx.body.id].known /\ NewJob(tx).known /\ NewJob(tx).results = {}
    BY <1>1, <1>4 DEF JobsInv, JobsFit, PostFits, NewJob
  <2>4. ASSUME NEW u \in Queue'
        PROVE  PostFits(work.jobs, u)' /\ CommitFits(work.jobs, u)'
    <3>1. PostFits(work.jobs, u) /\ CommitFits(work.jobs, u) /\ ~ Clash(tx, u) /\ u # tx /\ TxOK(u)
      BY <1>1, <1>3 DEF JobsInv, JobsFit, BaseInv
    <3>2. CASE u.body.id = tx.body.id
      BY <1>1, <1>4, <2>3, <3>1, <3>2 DEF Clash, PostFits, CommitFits
    <3>3. CASE u.body.id # tx.body.id
      BY <1>1, <2>2, <3>1, <3>3 DEF PostFits, CommitFits, TxOK
    <3>4. QED
      BY <3>2, <3>3
  <2>5. ASSUME NEW i \in Jobs, work'.jobs[i].results # {} PROVE assembled'[i] # 0
    BY <1>1, <2>2, <2>3, <2>5 DEF JobsInv, JobsFit
  <2>6. JobsFit(work.jobs)'
    BY <2>4, <2>5 DEF JobsFit
  <2>7. QED
    BY <1>1, <2>6, JobsKept
<1>5. CASE Valid(work, tx) /\ Becomes(work, tx, work') /\ tx.body.kind = "SHARD_COMMIT"
  <2> DEFINE j == tx.body.id
  <2>1. work' = ShardCommitted(work, tx) /\ j \in Jobs
    BY <1>1, <1>5 DEF Becomes, TxOK
  <2>2. /\ work'.jobs[j] = Committed(work.jobs[j], tx.body.n)
        /\ \A i \in Jobs : i # j => work'.jobs[i] = work.jobs[i]
    BY <1>1, <1>5, <2>1, CommittedType
  <2>3. /\ work'.jobs[j].known = work.jobs[j].known /\ work'.jobs[j].n = work.jobs[j].n
        /\ work'.jobs[j].results = work.jobs[j].results \cup {tx.body.n}
    BY <1>1, <2>1, <2>2, StateFields DEF Committed, JobRec
  <2>4. assembled[j] # 0
    BY <1>1, <1>5 DEF JobsInv, JobsFit, CommitFits
  <2>5. ASSUME NEW u \in Queue'
        PROVE  PostFits(work.jobs, u)' /\ CommitFits(work.jobs, u)'
    <3>1. PostFits(work.jobs, u) /\ CommitFits(work.jobs, u) /\ ~ Clash(tx, u) /\ u # tx /\ TxOK(u)
      BY <1>1, <1>3 DEF JobsInv, JobsFit, BaseInv
    <3>2. CASE u.body.id = j
      BY <1>1, <1>5, <2>3, <3>1, <3>2 DEF Clash, PostFits, CommitFits
    <3>3. CASE u.body.id # j
      BY <1>1, <2>2, <3>1, <3>3 DEF PostFits, CommitFits, TxOK
    <3>4. QED
      BY <3>2, <3>3
  <2>6. ASSUME NEW i \in Jobs, work'.jobs[i].results # {} PROVE assembled'[i] # 0
    BY <1>1, <2>2, <2>4, <2>6 DEF JobsInv, JobsFit
  <2>7. JobsFit(work.jobs)'
    BY <2>5, <2>6 DEF JobsFit
  <2>8. QED
    BY <1>1, <2>7, JobsKept
<1>6. QED
  BY <1>2, <1>4, <1>5 DEF Round

LEMMA JobsStep == BaseInv /\ JobsInv /\ [Next]_vars => JobsInv'
<1> SUFFICES ASSUME BaseInv, JobsInv, [Next]_vars PROVE JobsInv'
  OBVIOUS
<1>1. CASE Clients
  BY <1>1, JobsSubmit DEF Clients
<1>2. CASE Injections
  <2>1. ASSUME NEW j \in Jobs, NEW S \in SUBSET (0 .. (state.jobs[j].n - 1)) \ {{}},
               NEW f \in [S -> Miners], Assemble(j, S, f)
        PROVE  JobsInv'
    BY <2>1, JobsAssemble
  <2>2. ASSUME NEW j \in Jobs, NEW m \in Miners, SlashMiner(j, m)
        PROVE  JobsInv'
    <3>1. Injected({SlashTx(j, m)}) /\ assembled' = assembled
      BY <2>2, SlashInjects DEF SlashMiner
    <3>2. QED
      BY <3>1, InjectedSlash, JobsOther
  <2>3. ASSUME NEW d \in Deposits, RelayDeposit(d)
        PROVE  JobsInv'
    <3>1. Injected({DepositTx(d)}) /\ assembled' = assembled
      BY <2>3, RelayInjects DEF RelayDeposit
    <3>2. QED
      BY <3>1, InjectedDeposit, JobsOther
  <2>4. QED
    BY <1>2, <2>1, <2>2, <2>3 DEF Injections
<1>3. ASSUME NEW tx \in pool, RejectTx(tx) \/ Apply(tx)
      PROVE  JobsInv'
  BY <1>3, RoundOfApply, JobsRound
<1>4. ASSUME Queue' \subseteq Queue, assembled' = assembled,
             state' \in {state, work}, work' \in {state, work},
             disk' = disk \/ disk' = Persisted(work)
      PROVE  JobsInv'
  <2>1. disk'.jobs = NoJobs
    BY <1>4, PersistedFields DEF JobsInv, BaseInv, TypeOK
  <2>2. QED
    BY <1>4, <2>1, JobsQuiet
<1>5. ASSUME NEW tx \in pool, SetAside(tx)
      PROVE  JobsInv'
  BY <1>4, <1>5, SetAsideFields
<1>6. CASE StartBlock
  BY <1>4, <1>6, IdleBlockType DEF StartBlock, Queue, sequencer, mempool, environment
<1>7. CASE EndBlock
  BY <1>4, <1>7, ClosesFields DEF EndBlock
<1>8. CASE DiscardBlock
  BY <1>4, <1>8, ClosesFields DEF DiscardBlock, sequencer
<1>9. CASE Restart
  BY <1>9, JobsRestart
<1>10. CASE UNCHANGED vars
  BY <1>4, <1>10 DEF vars, Queue, sequencer, mempool, environment
<1>11. QED
  BY <1>1, <1>2, <1>3, <1>5, <1>6, <1>7, <1>8, <1>9, <1>10 DEF Next, BlockStep

LEMMA JobsAlways == Spec => []JobsInv
BY JobsInit, JobsStep, BaseAlways, PTL DEF Spec

(* A block pays a shard of a job that was assembled once for the first     *)
(* time.                                                                   *)
LEMMA FirstInBlock ==
  ASSUME BaseInv, JobsInv, AssembledOnce, NEW tx \in Queue
  PROVE  FirstOfItsKind(work, tx)
<1>1. PostFits(work.jobs, tx) /\ CommitFits(work.jobs, tx) /\ TxOK(tx)
  BY DEF JobsInv, JobsFit, BaseInv
<1>2. tx.body.kind = "SHARD_COMMIT" => assembled[tx.body.id] \in Nat /\ assembled[tx.body.id] <= 1
  BY <1>1 DEF TxOK, AssembledOnce, BaseInv, TypeOK
<1>3. QED
  BY <1>1, <1>2 DEF PostFits, CommitFits, FirstOfItsKind

LEMMA AssembledGrows ==
  ASSUME BaseInv, [Next]_vars, AssembledOnce'
  PROVE  AssembledOnce
<1>1. assembled \in [Jobs -> Nat]
  BY DEF BaseInv, TypeOK
<1>2. assembled' = assembled \/ \E j \in Jobs : assembled' = [assembled EXCEPT ![j] = assembled[j] + 1]
  <2>1. ASSUME NEW tx \in pool, RejectTx(tx) \/ Apply(tx) PROVE assembled' = assembled
    BY <2>1, RoundOfApply, RoundFields DEF BaseInv
  <2>2. CASE Injections
    BY <2>2 DEF Injections, Assemble, SlashMiner, RelayDeposit
  <2>3. QED
    BY <2>1, <2>2 DEF Next, Clients, Submit, BlockStep, SetAside, StartBlock, EndBlock, DiscardBlock,
                      Closes, Restart, vars, environment
<1>3. QED
  BY <1>1, <1>2 DEF AssembledOnce

LEMMA MoneyStep == BaseInv /\ JobsInv /\ NoInflation /\ [Next]_vars => NoInflation'
<1> SUFFICES ASSUME BaseInv, JobsInv, NoInflation, [Next]_vars, AssembledOnce', NEW s \in States'
             PROVE  Backed(s)
  BY DEF NoInflation, Backed
<1>1. AssembledOnce
  BY AssembledGrows
<1>2. work \in StateRec /\ \A t \in States : Backed(t)
  BY <1>1 DEF BaseInv, TypeOK, NoInflation, Backed
<1>3. CASE s \in States
  BY <1>2, <1>3
<1>4. CASE s = Persisted(work)
  BY <1>2, <1>4, PersistedFields DEF States
<1>5. ASSUME NEW tx \in Queue, Valid(work, tx), Becomes(work, tx, s)
      PROVE  Backed(s)
  <2>1. tx \in Tx /\ TxOK(tx)
    BY DEF BaseInv, TypeOK, BlockRec, Queue
  <2>2. FirstOfItsKind(work, tx) /\ Backed(work)
    BY <1>1, <1>2, FirstInBlock DEF States
  <2>3. QED
    BY <1>2, <1>5, <2>1, <2>2, BecomesBacked
<1>6. QED
  BY <1>3, <1>4, <1>5, StatesStep DEF AfterOneOf

(* No inflation: whatever is submitted, relayed, slashed or rolled back,   *)
(* balances, stakes, fee shares that are due and withdrawals never exceed  *)
(* the genesis allocation and the credited deposits.                       *)
THEOREM SupplyCovered == Spec => []NoInflation
<1>1. Init => NoInflation
  BY GenesisFields DEF Init, NoInflation, Backed, States
<1>2. QED
  BY <1>1, MoneyStep, BaseAlways, JobsAlways, PTL DEF Spec
=============================================================================
