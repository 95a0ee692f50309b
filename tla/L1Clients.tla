----------------------------- MODULE L1Clients -----------------------------
(***************************************************************************)
(* The L1 miner daemon (l1/miner/miner.py, nonce.py) and the SDK's infer   *)
(* call (l1/sdk/inference_sdk/client.py, behind l1/api/server.py), working *)
(* on the job market through transactions.                                 *)
(*                                                                         *)
(* Both send a transaction, wait 120 s for its receipt and send it again,  *)
(* with the next nonce, on any error.  So a transaction may be mined after *)
(* its sender gave it up; the transactions of one account are mined in     *)
(* nonce order.  Building, sending and waiting never suspend the miner's   *)
(* event loop: one attempt of one job is one step.                         *)
(***************************************************************************)
EXTENDS InferenceMarket, Sequences

CONSTANTS
    Miner, Client, Other,   \* three accounts
    Supported,      \* the miner's models
    Requests,       \* infer() calls of the client
    max_jobs,
    challenge_wait,
    MinerRetries, ClientRetries,    \* attempts of one send
    MaxFaults       \* BOUND: attempts that see no receipt and restarts of the miner

ASSUME JobIds  == Jobs \subseteq Nat     \* nextJobId++
ASSUME Clients == {Miner, Client, Other} \subseteq Accounts /\ IsFiniteSet(Requests)
ASSUME Exact   == 0 \in Tips            \* both send the fee or the bond, no more
ASSUME Waits   == challenge_wait \in Nat /\ challenge_wait > CHALLENGE_PERIOD  \* 602, 600
ASSUME Sends   == MinerRetries \in Nat \ {0} /\ ClientRetries \in Nat \ {0} /\ max_jobs \in Nat \ {0}

VARIABLES
    pool,       \* [{Miner, Client} -> calls sent and not mined], in nonce order
    active,     \* _active_jobs
    seen,       \* _seen_jobs
    proc,       \* where _do_process of a job is, and its failed attempts
    req,        \* where infer() is, its failed attempts and its job
    reopened,   \* history: jobs reclaimed after their deadline
    faults, late, restarted \* histories: how many, was a post late, was there a restart

daemon    == <<active, seen, proc>>
histories == <<reopened, faults, late, restarted>>
allVars   == <<vars, pool, daemon, req, histories>>
-----------------------------------------------------------------------------
Idle == [at |-> "idle", tries |-> 0]

ClientsInit ==
    /\ Init
    /\ pool = [a \in {Miner, Client} |-> <<>>]
    /\ active = {} /\ seen = {}
    /\ proc = [j \in Jobs |-> Idle]
    /\ req = [q \in Requests |-> [at |-> "post", tries |-> 0, job |-> {}]]
    /\ reopened = {}
    /\ faults = 0 /\ late = FALSE /\ restarted = FALSE

Posted   == {j \in Jobs : jobs[j].status # "none"}
Unposted == Jobs \ Posted
NextJob  == CHOOSE j \in Unposted : \A i \in Unposted : j <= i

\* What the contract checks of a call, and what it does.
Accepts(c) ==
    \/ c.fn = "claim" /\ jobs[c.job].status = "open" /\ jobs[c.job].posted < CLAIM_WINDOW
    \/ /\ c.fn = "submit"
       /\ jobs[c.job].miner = Miner /\ jobs[c.job].status = "claimed"
       /\ jobs[c.job].posted < CLAIM_WINDOW + SUBMIT_DEADLINE
    \/ c.fn = "finalize" /\ Finalizable(c.job)
    \/ c.fn = "post" /\ Unposted # {}

Executed(c) ==
    \/ c.fn = "claim"    /\ ClaimJob(Miner, c.job, 0)
    \/ c.fn = "submit"   /\ SubmitResult(c.job)
    \/ c.fn = "finalize" /\ FinalizeJob(c.job)
    \/ c.fn = "post"     /\ \E t \in Tokens, m \in Models : PostJob(Client, NextJob, t, m, 0)

\* An attempt without a receipt: never sent, or sent and not mined in 120 s,
\* as every transaction is that follows one in the pool.
Unsent(a)  == faults < MaxFaults /\ faults' = faults + 1 /\ UNCHANGED pool
Stuck(a, c) ==
    /\ pool[a] # <<>> \/ faults < MaxFaults
    /\ faults' = IF pool[a] = <<>> THEN faults + 1 ELSE faults
    /\ pool' = [pool EXCEPT ![a] = Append(@, c)]

\* The chain mines what is first in the pool of an account.
Mine(a) ==
    /\ pool[a] # <<>>
    /\ pool' = [pool EXCEPT ![a] = Tail(@)]
    /\ IF Accepts(Head(pool[a])) THEN Executed(Head(pool[a])) ELSE UNCHANGED vars
    /\ UNCHANGED <<daemon, req, histories>>
-----------------------------------------------------------------------------
\* _scan.  It stops at the first job it would look at with no slot free.
Takes == {j \in Posted \ (active \cup seen) :
            jobs[j].status = "open" /\ jobs[j].model \in Supported}

Reached(j) == Cardinality(active) + Cardinality({i \in Takes : i < j}) < max_jobs

Over == {j \in Posted \ active : jobs[j].status \in {"complete", "disputed", "expired"}}

Scan ==
    LET started == {j \in Takes : Reached(j)}
        over    == {j \in Over : Reached(j)}
    IN  /\ started # {} \/ ~ over \subseteq seen
        /\ active' = active \cup started
        /\ seen' = seen \cup over
        /\ proc' = [j \in Jobs |-> IF j \in started THEN [at |-> "claim", tries |-> 0] ELSE proc[j]]
        /\ UNCHANGED <<vars, pool, req, histories>>

\* Mutant of Released: a job that failed keeps its slot.
Released_Done(j, done) == IF done THEN active \ {j} ELSE active

\* The finally of _process, whatever happened.
Released(j, done) == active \ {j}

Ended(j, done) ==
    /\ proc' = [proc EXCEPT ![j] = Idle]
    /\ active' = Released(j, done)
    /\ seen' = seen \cup {j}

Reaches(j, stage) ==
    /\ proc' = [proc EXCEPT ![j] = [at |-> stage, tries |-> 0]]
    /\ UNCHANGED <<active, seen>>

After(fn) == IF fn = "claim" THEN "infer" ELSE "wait"

Confirmed(j) == IF proc[j].at = "finalize" THEN Ended(j, TRUE) ELSE Reaches(j, After(proc[j].at))

\* Mutant of Again: a send is attempted once.
Again_Never(j) == Ended(j, FALSE)

Again(j) ==
    IF proc[j].tries + 1 = MinerRetries THEN Ended(j, FALSE)
    ELSE proc' = [proc EXCEPT ![j].tries = @ + 1] /\ UNCHANGED <<active, seen>>

\* Mutant of Reverted: the status of the receipt is not looked at.
Reverted_Unseen(j) == Confirmed(j)

Reverted(j) == Again(j)

Wanted(j)  == [fn |-> proc[j].at, job |-> j]
Sending(j) == proc[j].at \in {"claim", "submit", "finalize"}

SendMined(j) ==
    /\ Sending(j) /\ pool[Miner] = <<>>
    /\ IF Accepts(Wanted(j)) THEN Executed(Wanted(j)) /\ Confirmed(j)
                             ELSE UNCHANGED vars /\ Reverted(j)
    /\ UNCHANGED <<pool, req, histories>>

SendUnseen(j) ==
    /\ Sending(j)
    /\ Unsent(Miner) \/ Stuck(Miner, Wanted(j))
    /\ Again(j)
    /\ UNCHANGED <<vars, req, reopened, late, restarted>>

\* The prompt is read, decrypted and run; each of them may raise.
Infer(j) ==
    /\ proc[j].at = "infer"
    /\ Reaches(j, "submit") \/ Ended(j, FALSE)
    /\ UNCHANGED <<vars, pool, req, histories>>

Waited(j) == jobs[j].status # "submitted" \/ jobs[j].submitted >= challenge_wait

WaitOver(j) ==
    /\ proc[j].at = "wait"
    /\ Waited(j)
    /\ Reaches(j, "finalize")
    /\ UNCHANGED <<vars, pool, req, histories>>

\* A shutdown returns from every wait and nothing is resumed; what was sent
\* stays in the pool of the chain.
Restart ==
    /\ faults < MaxFaults /\ faults' = faults + 1
    /\ restarted' = TRUE
    /\ active' = {} /\ seen' = {}
    /\ proc' = [j \in Jobs |-> Idle]
    /\ UNCHANGED <<vars, pool, req, reopened, late>>
-----------------------------------------------------------------------------
\* infer(): post_job, then poll until the job is over or the timeout.
PostCall == [fn |-> "post"]

Heard(q, j) == [req EXCEPT ![q] = [@ EXCEPT !.at = "poll", !.job = {j}]]

Retried(q) ==
    req' = IF req[q].tries + 1 = ClientRetries THEN [req EXCEPT ![q].at = "failed"]
           ELSE [req EXCEPT ![q].tries = @ + 1]

PostMined(q) ==
    /\ req[q].at = "post" /\ pool[Client] = <<>>
    /\ Accepts(PostCall) /\ Executed(PostCall)
    /\ req' = Heard(q, NextJob)
    /\ UNCHANGED <<pool, daemon, histories>>

PostUnseen(q) ==
    /\ req[q].at = "post"
    /\ \/ Unsent(Client) /\ UNCHANGED late
       \/ Stuck(Client, PostCall) /\ late' = TRUE
    /\ Retried(q)
    /\ UNCHANGED <<vars, daemon, reopened, restarted>>

Verdicts == [complete |-> "answered", disputed |-> "error", expired |-> "error"]

\* Mutant of Verdict: a submitted result is taken for the final one.
Verdict_Early(s) == IF s = "submitted" THEN {"answered"} ELSE
                    IF s \in DOMAIN Verdicts THEN {Verdicts[s]} ELSE {}

Verdict(s) == IF s \in DOMAIN Verdicts THEN {Verdicts[s]} ELSE {}

Poll(q) ==
    /\ req[q].at = "poll"
    /\ \E j \in req[q].job : \E v \in Verdict(jobs[j].status) : req' = [req EXCEPT ![q].at = v]
    /\ UNCHANGED <<vars, pool, daemon, histories>>

\* The deadline passed; the job and its fee stay where they are.
GiveUp(q) ==
    /\ req[q].at = "poll"
    /\ req' = [req EXCEPT ![q].at = "timeout"]
    /\ UNCHANGED <<vars, pool, daemon, histories>>
-----------------------------------------------------------------------------
(* The rest of the market: time, another account that claims and does not  *)
(* answer and challenges, the owner, and the client's reclaim_expired_job. *)
Market ==
    /\ \/ Tick
       \/ \E j \in Jobs : \/ ClaimJob(Other, j, 0)
                          \/ ChallengeResult(Other, j, 0)
                          \/ ResolveDispute(j) \/ ResolveExpiredDispute(j)
    /\ UNCHANGED <<pool, daemon, req, histories>>

Reclaim(j) ==
    /\ j \notin reopened
    /\ ReclaimUnclaimed(j) \/ ReclaimUnanswered(j)
    /\ reopened' = reopened \cup {j}
    /\ UNCHANGED <<pool, daemon, req, faults, late, restarted>>

MinerStep(j) == SendMined(j) \/ Infer(j) \/ WaitOver(j)

ClientsNext ==
    \/ Market
    \/ \E a \in {Miner, Client} : Mine(a)
    \/ \E j \in Jobs : MinerStep(j) \/ SendUnseen(j) \/ Reclaim(j)
    \/ Scan \/ Restart
    \/ \E q \in Requests : PostMined(q) \/ PostUnseen(q) \/ Poll(q) \/ GiveUp(q)

ClientsSpec == ClientsInit /\ [][ClientsNext]_allVars

\* Blocks keep coming and take what is sent; the miner's tasks run; somebody
\* ends a dispute the owner leaves alone, as anybody may.
FairClients ==
    /\ ClientsSpec
    /\ WF_allVars(Tick /\ UNCHANGED <<pool, daemon, req, histories>>)
    /\ WF_allVars(Mine(Miner))
    /\ \A j \in Jobs :
          /\ WF_allVars(MinerStep(j))
          /\ WF_allVars(ResolveExpiredDispute(j) /\ UNCHANGED <<pool, daemon, req, histories>>)
-----------------------------------------------------------------------------
Calls == [fn : {"claim", "submit", "finalize"}, job : Jobs] \cup {PostCall}

(* Every variable has its type.                                            *)
ClientsTypeOK ==
    /\ \A a \in {Miner, Client} : pool[a] \in Seq(Calls)
    /\ active \subseteq Jobs /\ seen \subseteq Jobs
    /\ proc \in [Jobs -> [at : {"idle", "claim", "infer", "submit", "wait", "finalize"},
                          tries : 0 .. MinerRetries - 1]]
    /\ \A q \in Requests :
          /\ req[q].at \in {"post", "poll", "answered", "error", "timeout", "failed"}
          /\ req[q].tries \in 0 .. ClientRetries - 1
          /\ req[q].job \subseteq Jobs /\ (req[q].at = "poll" => Cardinality(req[q].job) = 1)
    /\ Cardinality(active) <= max_jobs

(* A miner spends its model only on a job it holds the claim of: a claim   *)
(* it lost to another miner is noticed, whatever receipts were late - only *)
(* a job reclaimed meanwhile is worked on in vain.                         *)
WorksOnOwnClaims ==
    \A j \in Jobs : proc[j].at \in {"infer", "submit"} => jobs[j].miner = Miner \/ j \in reopened

(* The challenge wait (602 s) is long enough for the strict comparison of  *)
(* finalizeJob: it is never called while a result may be challenged.       *)
FinalizeNotEarly ==
    \A j \in Jobs : proc[j].at = "finalize" /\ jobs[j].status = "submitted" => Finalizable(j)

(* The miner acts on the contract's state although its receipts may be     *)
(* late or lost: it works on what it holds and finalizes when it may.      *)
MinerActsOnChain == ClientsTypeOK /\ WorksOnOwnClaims /\ FinalizeNotEarly

(* infer() pays for one job - unless a receipt was late: then the retry    *)
(* posts, and pays for, a second one.                                      *)
OneJobPerRequest == ~ late => Cardinality(Posted) <= Cardinality(Requests)

(* infer() returns an output only once the result cannot be challenged any *)
(* more, not when it is first submitted.                                   *)
AnswerIsFinal == \A q \in Requests : req[q].at = "answered" =>
                    \A j \in req[q].job : jobs[j].status = "complete"

(* infer() neither pays twice unknowingly nor answers too early.           *)
InferIsHonest == OneJobPerRequest /\ AnswerIsFinal

(* A result of a miner that is not restarted is settled in the end: no     *)
(* moment lies between the windows in which it can be neither challenged   *)
(* nor finalized, an absent owner cannot hold a dispute open, and a lost   *)
(* receipt does not matter - the retries of finalizeJob outlast MaxFaults, *)
(* or the transaction that was given up is mined.                          *)
SubmittedIsSettled ==
    \A j \in Jobs : (proc[j].at = "wait" /\ jobs[j].status = "submitted")
                       ~> (jobs[j].status \in {"complete", "expired"} \/ restarted)

(* Whatever fails, a job gives its slot back: three hanging jobs never     *)
(* leave the miner without one.                                            *)
SlotsReturn == \A j \in Jobs : j \in active ~> j \notin active
=============================================================================
