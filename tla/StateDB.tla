------------------------------ MODULE StateDB ------------------------------
(***************************************************************************)
(* The accounts and jobs of the L2 state database (chain/state.py) and     *)
(* what each kind of transaction does to them.  apply_transaction works on *)
(* a copy and returns it, so a state is a record and a transaction a       *)
(* function on records.                                                    *)
(***************************************************************************)
EXTENDS Totals

CONSTANTS
    Accounts, Jobs, Deposits,
    GenesisBalance, GenesisStake,   \* [Accounts -> Nat]
    Deposit,        \* [Deposits -> [to : Accounts, amount : Nat]]: locked on L1
    NoOne, NoId

ASSUME LedgerSets ==
    /\ IsFiniteSet(Accounts) /\ IsFiniteSet(Jobs) /\ IsFiniteSet(Deposits)
    /\ NoOne \notin Accounts /\ NoId \notin Jobs \cup Deposits
    /\ Jobs \cap Deposits = {}
ASSUME GenesisAmounts ==
    /\ GenesisBalance \in [Accounts -> Nat] /\ GenesisStake \in [Accounts -> Nat]
    /\ Deposit \in [Deposits -> [to : Accounts, amount : Nat]]
-----------------------------------------------------------------------------
(* Transactions.  Those of the sequencer and the bridge have no sender.    *)
Ids       == Jobs \cup Deposits \cup {NoId}
Holder    == Accounts \cup {NoOne}
UserKinds == {"TRANSFER", "STAKE", "UNSTAKE", "JOB_POST", "BRIDGE_WITHDRAW"}
Kinds     == UserKinds \cup {"SHARD_COMMIT", "BRIDGE_DEPOSIT", "SLASH_HARD"}

\* n is n_shards of a JOB_POST and shard_index of a SHARD_COMMIT.
Body(k, peer, x, id, n) == [kind |-> k, peer |-> peer, amount |-> x, id |-> id, n |-> n]

UserTx(a, seq, gas, body) == [sender |-> a, nonce |-> seq, gas |-> gas, body |-> body]
ProtocolTx(body)          == [sender |-> NoOne, nonce |-> 0, gas |-> 0, body |-> body]

CommitTx(j, s, m) == ProtocolTx(Body("SHARD_COMMIT", m, 0, j, s))
SlashTx(j, m)     == ProtocolTx(Body("SLASH_HARD", m, 0, j, 0))
DepositTx(d) == ProtocolTx(Body("BRIDGE_DEPOSIT", Deposit[d].to, Deposit[d].amount, d, 0))

Bodies == [kind : Kinds, peer : Holder, amount : Nat, id : Ids, n : Nat]
Tx     == [sender : Holder, nonce : Nat, gas : Nat, body : Bodies]
-----------------------------------------------------------------------------
(* States.  jobs keeps the fee and the shards that were committed, credits *)
(* how often each deposit was credited, withdrawn the sum of the           *)
(* withdrawals; accepted is a history of the wallets' transactions in the  *)
(* blocks that led to the state.                                           *)
JobRec   == [known : BOOLEAN, fee : Nat, n : Nat \ {0}, results : SUBSET Nat]
StateRec == [balance : [Accounts -> Nat], stake : [Accounts -> Nat], nonce : [Accounts -> Nat],
             jobs : [Jobs -> JobRec], credits : [Deposits -> Nat], withdrawn : Nat,
             accepted : SUBSET Tx]

NoJobs == [j \in Jobs |-> [known |-> FALSE, fee |-> 0, n |-> 1, results |-> {}]]

Genesis == [balance |-> GenesisBalance, stake |-> GenesisStake, nonce |-> [a \in Accounts |-> 0],
            jobs |-> NoJobs, credits |-> [d \in Deposits |-> 0], withdrawn |-> 0,
            accepted |-> {}]

\* to_snapshot and from_snapshot: everything but the jobs.
Persisted(s) == [s EXCEPT !.jobs = NoJobs]
-----------------------------------------------------------------------------
\* Mutant of Expected: a nonce ahead of the account's is let through.
Expected_Gap(s, tx) == tx.nonce >= s.nonce[tx.sender]

Expected(s, tx) == tx.nonce = s.nonce[tx.sender]

Covered(s, tx) == IF tx.body.kind = "UNSTAKE" THEN s.stake[tx.sender] >= tx.body.amount
                  ELSE s.balance[tx.sender] >= tx.body.amount

\* What _apply raises no StateError for.
Valid(s, tx) ==
    CASE tx.body.kind \in UserKinds -> Expected(s, tx) /\ Covered(s, tx)
      [] tx.body.kind = "SHARD_COMMIT" -> s.jobs[tx.body.id].known
      [] OTHER -> TRUE

Bumped(s, a)      == WithBalance(s.nonce, a, s.nonce[a] + 1)
Debited(s, a, x)  == WithBalance(s.balance, a, s.balance[a] - x)
Credited(s, a, x) == WithBalance(s.balance, a, s.balance[a] + x)
Recorded(s, tx)   == s.accepted \cup {tx}

(* _apply_transfer.  The recipient is read before the sender is written,   *)
(* and written last: a transfer to oneself is a credit without a nonce.    *)
SelfTransferred(s, tx) ==
    [s EXCEPT !.balance = Credited(s, tx.sender, tx.body.amount), !.accepted = Recorded(s, tx)]

Moved(s, a, b, x) == WithBalance(Debited(s, a, x), b, s.balance[b] + x)

Transferred(s, tx) ==
    [s EXCEPT !.balance = Moved(s, tx.sender, tx.body.peer, tx.body.amount),
              !.nonce = Bumped(s, tx.sender), !.accepted = Recorded(s, tx)]

Staked(s, tx) ==
    [s EXCEPT !.balance = Debited(s, tx.sender, tx.body.amount),
              !.stake = WithBalance(s.stake, tx.sender, s.stake[tx.sender] + tx.body.amount),
              !.nonce = Bumped(s, tx.sender), !.accepted = Recorded(s, tx)]

\* The unlock block is set, and nothing ever reads it: the stake is gone.
Unstaked(s, tx) ==
    [s EXCEPT !.stake = WithBalance(s.stake, tx.sender, s.stake[tx.sender] - tx.body.amount),
              !.nonce = Bumped(s, tx.sender), !.accepted = Recorded(s, tx)]

NewJob(tx) == [known |-> TRUE, fee |-> tx.body.amount, n |-> tx.body.n, results |-> {}]

JobPosted(s, tx) ==
    [s EXCEPT !.balance = Debited(s, tx.sender, tx.body.amount),
              !.jobs = [s.jobs EXCEPT ![tx.body.id] = NewJob(tx)],
              !.nonce = Bumped(s, tx.sender), !.accepted = Recorded(s, tx)]

\* Mutant of Share: rounded up.
Share_Up(job) == (job.fee + job.n - 1) \div job.n

Share(job) == job.fee \div job.n

Committed(job, n) == [job EXCEPT !.results = job.results \cup {n}]

\* Every commit pays, also one for a shard that was paid before.
ShardCommitted(s, tx) ==
    [s EXCEPT !.balance = Credited(s, tx.body.peer, Share(s.jobs[tx.body.id])),
              !.jobs = [s.jobs EXCEPT ![tx.body.id] = Committed(s.jobs[tx.body.id], tx.body.n)]]

\* _bridge_deposits[nonce] is written and never read: every relay credits.
DepositCredited(s, tx) ==
    [s EXCEPT !.balance = Credited(s, tx.body.peer, tx.body.amount),
              !.credits = WithBalance(s.credits, tx.body.id, s.credits[tx.body.id] + 1)]

Withdrawn(s, tx) ==
    [s EXCEPT !.balance = Debited(s, tx.sender, tx.body.amount),
              !.withdrawn = s.withdrawn + tx.body.amount,
              !.nonce = Bumped(s, tx.sender), !.accepted = Recorded(s, tx)]

\* int(stake * 0.30), exact for stakes below 2^50.
Slashed(s, tx) ==
    [s EXCEPT !.stake = WithBalance(s.stake, tx.body.peer,
                                    s.stake[tx.body.peer] - (3 * s.stake[tx.body.peer]) \div 10)]
-----------------------------------------------------------------------------
\* The fee shares of the shards that were not committed yet.
Missing(job) == (0 .. (job.n - 1)) \ job.results
DueTo(job)   == IF job.known THEN Share(job) * Cardinality(Missing(job)) ELSE 0
Due(s)       == [j \in Jobs |-> DueTo(s.jobs[j])]

Bridged(s) == [d \in Deposits |-> s.credits[d] * Deposit[d].amount]
Supply(s)  == Total(GenesisBalance) + Total(GenesisStake) + Total(Bridged(s))
InUse(s)   == Total(s.balance) + Total(s.stake) + Total(Due(s)) + s.withdrawn

NobodyPaysItself(s) == \A tx \in s.accepted : tx.body.peer # tx.sender

Replayed(s) ==
    \/ \E t, u \in s.accepted : t # u /\ t.sender = u.sender /\ t.nonce = u.nonce
    \/ \E a \in Accounts :
          {tx.nonce : tx \in {t \in s.accepted : t.sender = a}} # 0 .. (s.nonce[a] - 1)
=============================================================================
