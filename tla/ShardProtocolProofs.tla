------------------------ MODULE ShardProtocolProofs ------------------------
(***************************************************************************)
(* TLAPS proofs about ShardProtocol, for any jobs, miners, modes, shard    *)
(* counts and number of dispatches.                                        *)
(***************************************************************************)
EXTENDS ShardProtocol, FiniteSetTheorems, TLAPS

(* A dispatch that has not registered owns a blank job object and no       *)
(* timers; one that is offering has no timer yet for the shard it is at    *)
(* nor for the ones after it.                                              *)
TaskOK(j, d) ==
    /\ task[j][d].pc \in {"idle", "ready"} =>
          /\ obj[j][d] = BlankJob
          /\ cur[j] # d
          /\ \A s \in Shards : timer[j][d][s].kind = "none"
    /\ task[j][d].pc = "offering" =>
          /\ task[j][d].next \in Nat \ {0}
          /\ task[j][d].next - 1 \in Shards
          /\ task[j][d].to \in Miners
          /\ \A s \in Shards : s >= task[j][d].next - 1 => timer[j][d][s].kind = "none"
    /\ task[j][d].pc \in {"offering", "done"} => cur[j] \in Dispatches
TaskInv == \A j \in Jobs, d \in Dispatches : TaskOK(j, d)

(* A live timer accuses a miner.                                           *)
TimerInv ==
    \A j \in Jobs, d \in Dispatches, s \in Shards :
        timer[j][d][s].kind # "none" => timer[j][d][s].miner \in Miners

(* An offered shard is assigned.                                           *)
OfferedInv ==
    \A j \in Jobs, d \in Dispatches, s \in Shards :
        obj[j][d].sstat[s] = "offered" => obj[j][d].spec[s] \in Miners

(* In a job dispatched once, the miner a timer would slash, or that was    *)
(* just offered the shard its timer is about to be started for, is the one *)
(* the shard is assigned to.                                               *)
AssigneeInv ==
    \A j \in Jobs, s \in Shards : 1 \in Dispatches /\ OnceDispatched(j) =>
        /\ timer[j][1][s].kind # "none" => timer[j][1][s].miner = obj[j][1].spec[s]
        /\ task[j][1].pc = "offering" /\ s = task[j][1].next - 1
              => task[j][1].to = obj[j][1].spec[s]

(* In a job dispatched once, nothing is paid or in the pool before the     *)
(* assembly, and what is in the pool has not been paid.                    *)
PaidInv ==
    \A j \in Jobs, s \in Shards : OnceDispatched(j) =>
        /\ chain[j].paid[s] \in {0, 1}
        /\ chain[j].paid[s] = 1 =>
              /\ obj[j][1].status = "complete"
              /\ \A m \in Miners : CommitTx(j, s, m) \notin mempool

BaseInv == TypeOK /\ TaskInv /\ TimerInv /\ OfferedInv /\ ResultFromAssignee
IInv == BaseInv /\ AssigneeInv /\ CommitsAreOfAssembledJobs /\ PaidInv
-----------------------------------------------------------------------------
USE DEF Dispatches

LEMMA InitInv == Init => IInv
<1> SUFFICES ASSUME Init PROVE IInv
  OBVIOUS
<1> USE BoundAssumption
<1>1. TypeOK
  BY DEF Init, TypeOK, NewChainJob, NoTimer, BlankJob, TaskPCs, JobStates, MinerOrNone,
         ChainRec, TaskRec, JobRec, TimerRec, ShardStates, TimerKinds
<1>2. TaskInv
  BY DEF Init, TaskInv, TaskOK, NoTimer
<1>3. TimerInv /\ OfferedInv /\ ResultFromAssignee
  BY DEF Init, TimerInv, OfferedInv, ResultFromAssignee, NoTimer, BlankJob, Has
<1>4. AssigneeInv /\ PaidInv
  BY DEF Init, AssigneeInv, PaidInv, NoTimer, NewChainJob
<1>5. CommitsAreOfAssembledJobs
  BY DEF Init, CommitsAreOfAssembledJobs, NewChainJob
<1> QED
  BY <1>1, <1>2, <1>3, <1>4, <1>5 DEF IInv, BaseInv

(* The facts the preservation proofs share. *)
LEMMA EntryTypes ==
  ASSUME TypeOK, NEW j \in Jobs, NEW d \in Dispatches
  PROVE  /\ chain[j] \in ChainRec
         /\ task[j][d] \in TaskRec
         /\ obj[j][d] \in JobRec
         /\ \A s \in Shards : timer[j][d][s] \in TimerRec
<1>1. chain[j] \in ChainRec /\ task[j] \in [Dispatches -> TaskRec]
  BY DEF TypeOK
<1>2. obj[j] \in [Dispatches -> JobRec] /\ timer[j] \in [Dispatches -> [Shards -> TimerRec]]
  BY DEF TypeOK
<1>3. timer[j][d] \in [Shards -> TimerRec]
  BY <1>2
<1> QED
  BY <1>1, <1>2, <1>3

LEMMA CurrentType ==
  ASSUME TypeOK, NEW j \in Jobs, cur[j] # 0
  PROVE  /\ cur[j] \in Dispatches
         /\ Current(j) = obj[j][cur[j]]
         /\ Current(j) \in JobRec
<1>1. cur[j] \in Dispatches
  BY BoundAssumption DEF TypeOK
<1> QED
  BY <1>1, EntryTypes DEF Current

LEMMA TimerHasJob ==
  ASSUME BaseInv, NEW j \in Jobs, NEW d \in Dispatches, NEW s \in Shards,
         timer[j][d][s].kind # "none"
  PROVE  /\ task[j][d].pc \in {"offering", "done"}
         /\ cur[j] \in Dispatches
         /\ cur[j] # 0
         /\ timer[j][d][s].miner \in Miners
<1>1. task[j][d].pc \in TaskPCs
  BY EntryTypes DEF BaseInv, TaskRec
<1>2. task[j][d].pc \notin {"idle", "ready"}
  BY DEF BaseInv, TaskInv, TaskOK
<1>3. timer[j][d][s].miner \in Miners
  BY DEF BaseInv, TimerInv
<1> QED
  BY <1>1, <1>2, <1>3 DEF BaseInv, TaskInv, TaskOK, TaskPCs

LEMMA PostJobInv ==
  ASSUME IInv, NEW j \in Jobs, PostJob(j)
  PROVE  IInv'
<1> USE DEF IInv, BaseInv, PostJob, protocol, network
<1>1. TypeOK'
  BY DEF TypeOK, Posts
<1>2. /\ TaskInv' /\ TimerInv' /\ OfferedInv' /\ ResultFromAssignee'
      /\ AssigneeInv'
  BY DEF TaskInv, TaskOK, TimerInv, OfferedInv, ResultFromAssignee, AssigneeInv, OnceDispatched
<1>3. \A k \in Jobs, s \in Shards, m \in Miners :
         CommitTx(k, s, m) \in mempool' <=> CommitTx(k, s, m) \in mempool
  BY DEF CommitTx, PostTx
<1>4. CommitsAreOfAssembledJobs' /\ PaidInv'
  BY <1>3 DEF CommitsAreOfAssembledJobs, PaidInv, OnceDispatched
<1> QED
  BY <1>1, <1>2, <1>4

LEMMA NetworkInv ==
  ASSUME IInv, NEW j \in Jobs, NEW s \in Shards, NEW m \in Miners,
         MinerAnswers(j, s, m) \/ ResultIgnored(j, s, m)
  PROVE  IInv'
<1> USE DEF IInv, BaseInv, protocol
<1>1. UNCHANGED <<mempool, chain, task, obj, cur, timer>>
  BY DEF MinerAnswers, ResultIgnored
<1>2. offers' \subseteq Addressed /\ answers' \subseteq Addressed
  BY DEF MinerAnswers, ResultIgnored, TypeOK
<1>3. TypeOK'
  BY <1>1, <1>2 DEF TypeOK
<1>4. /\ TaskInv' /\ TimerInv' /\ OfferedInv' /\ ResultFromAssignee'
      /\ AssigneeInv' /\ CommitsAreOfAssembledJobs' /\ PaidInv'
  BY <1>1 DEF TaskInv, TaskOK, TimerInv, OfferedInv, ResultFromAssignee,
              AssigneeInv, CommitsAreOfAssembledJobs, PaidInv, OnceDispatched
<1> QED
  BY <1>3, <1>4

LEMMA StartTasksFacts ==
  ASSUME TypeOK, NEW J, StartTasks(J)
  PROVE  /\ task' \in [Jobs -> [Dispatches -> TaskRec]]
         /\ \A k \in Jobs, e \in Dispatches :
               \/ task'[k][e] = task[k][e]
               \/ task[k][e].pc = "idle" /\ task'[k][e].pc = "ready"
         /\ \A k \in Jobs : OnceDispatched(k)' => OnceDispatched(k)
<1>1. ASSUME NEW k \in Jobs, NEW e \in Dispatches
      PROVE  /\ task'[k][e] \in TaskRec
             /\ \/ task'[k][e] = task[k][e]
                \/ task[k][e].pc = "idle" /\ task'[k][e].pc = "ready"
  <2>1. task[k][e] \in TaskRec
    BY EntryTypes
  <2>2. CASE k \in J /\ IsNext(k, e)
    <3>1. task'[k][e] = [task[k][e] EXCEPT !.pc = "ready"]
      BY <2>2 DEF StartTasks
    <3> QED
      BY <2>1, <2>2, <3>1 DEF TaskRec, TaskPCs, IsNext, FreeSlots
  <2>3. CASE ~ (k \in J /\ IsNext(k, e))
    BY <2>1, <2>3 DEF StartTasks
  <2> QED
    BY <2>2, <2>3
<1>2. task' \in [Jobs -> [Dispatches -> TaskRec]]
  BY <1>1 DEF StartTasks
<1>3. ASSUME NEW k \in Jobs, OnceDispatched(k)' PROVE OnceDispatched(k)
  BY <1>1, <1>3 DEF OnceDispatched
<1> QED
  BY <1>1, <1>2, <1>3

\* What starting tasks preserves, when nothing else of the protocol moves.
LEMMA StartTasksInv ==
  ASSUME BaseInv, AssigneeInv, NEW J, StartTasks(J), UNCHANGED <<obj, cur, timer>>
  PROVE  TaskInv' /\ TimerInv' /\ OfferedInv' /\ ResultFromAssignee' /\ AssigneeInv'
<1> USE DEF BaseInv
<1>1. \A k \in Jobs, e \in Dispatches :
         \/ task'[k][e] = task[k][e]
         \/ task[k][e].pc = "idle" /\ task'[k][e].pc = "ready"
  BY StartTasksFacts
<1>2. TaskInv'
  BY <1>1 DEF TaskInv, TaskOK
<1>3. TimerInv' /\ OfferedInv' /\ ResultFromAssignee'
  BY DEF TimerInv, OfferedInv, ResultFromAssignee
<1>4. AssigneeInv'
  <2>1. \A k \in Jobs : OnceDispatched(k)' => OnceDispatched(k)
    BY StartTasksFacts
  <2> QED
    BY <1>1, <2>1 DEF AssigneeInv
<1> QED
  BY <1>2, <1>3, <1>4

LEMMA PeerConnectedInv ==
  ASSUME IInv, PeerConnected
  PROVE  IInv'
<1> USE DEF IInv, BaseInv, protocol, network
<1>1. /\ UNCHANGED <<mempool, chain, obj, cur, timer, offers, answers>>
      /\ StartTasks({j \in Jobs : Lost(j)})
  BY DEF PeerConnected
<1>2. /\ task' \in [Jobs -> [Dispatches -> TaskRec]]
      /\ \A k \in Jobs : OnceDispatched(k)' => OnceDispatched(k)
  BY <1>1, StartTasksFacts
<1>3. TypeOK'
  BY <1>1, <1>2 DEF TypeOK
<1>4. TaskInv' /\ TimerInv' /\ OfferedInv' /\ ResultFromAssignee' /\ AssigneeInv'
  BY <1>1, StartTasksInv
<1>5. CommitsAreOfAssembledJobs' /\ PaidInv'
  BY <1>1, <1>2 DEF CommitsAreOfAssembledJobs, PaidInv
<1> QED
  BY <1>3, <1>4, <1>5

LEMMA PaidAfterType ==
  ASSUME TypeOK, NEW j \in Jobs
  PROVE  PaidAfter(j) \in [Shards -> Nat]
<1>1. ASSUME NEW s \in Shards PROVE PaidAfter(j)[s] \in Nat
  <2>1. IsFiniteSet({m \in Miners : CommitTx(j, s, m) \in mempool})
    BY MinersAssumption, FS_Subset
  <2>2. Cardinality({m \in Miners : CommitTx(j, s, m) \in mempool}) \in Nat
    BY <2>1, FS_CardinalityType
  <2>3. chain[j].paid[s] \in Nat
    BY DEF TypeOK, ChainRec
  <2> QED
    BY <2>2, <2>3 DEF PaidAfter
<1> QED
  BY <1>1 DEF PaidAfter

LEMMA ProduceBlockInv ==
  ASSUME IInv, ProduceBlock
  PROVE  IInv'
<1> USE DEF IInv, BaseInv, protocol, network
<1> DEFINE J == {j \in Jobs : chain[j].status \in {"none", "waiting"}
                               /\ StatusAfter(j) = "pending"}
<1>1. /\ UNCHANGED <<obj, cur, timer, offers, answers>>
      /\ StartTasks(J)
      /\ mempool' = {}
  BY DEF ProduceBlock
<1>2. /\ task' \in [Jobs -> [Dispatches -> TaskRec]]
      /\ \A k \in Jobs : OnceDispatched(k)' => OnceDispatched(k)
  BY <1>1, StartTasksFacts
<1>3. ASSUME NEW j \in Jobs
      PROVE  /\ chain'[j] \in ChainRec
             /\ chain'[j].results = ResultsAfter(j)
             /\ chain'[j].paid = PaidAfter(j)
  <2>1. chain[j] \in ChainRec
    BY DEF TypeOK
  <2>2. StatusAfter(j) \in {"none", "waiting", "pending", "complete"}
    <3>1. chain[j].status \in {"none", "waiting", "pending", "complete"}
      BY <2>1 DEF ChainRec
    <3>2. StatusAfterPosts(j) \in {"none", "waiting", "pending", "complete"}
      BY <3>1, Zenon DEF StatusAfterPosts
    <3> QED
      BY <3>2, Zenon DEF StatusAfter
  <2>3. ResultsAfter(j) \in SUBSET Shards
    BY <2>1 DEF ResultsAfter, Committed, ChainRec
  <2>4. PaidAfter(j) \in [Shards -> Nat]
    BY PaidAfterType
  <2> QED
    BY <2>1, <2>2, <2>3, <2>4 DEF ProduceBlock, ChainRec
<1>4. TypeOK'
  <2>1. chain' \in [Jobs -> ChainRec]
    BY <1>3 DEF ProduceBlock
  <2> QED
    BY <1>1, <1>2, <2>1 DEF TypeOK
<1>5. TaskInv' /\ TimerInv' /\ OfferedInv' /\ ResultFromAssignee' /\ AssigneeInv'
  BY <1>1, StartTasksInv
<1>6. CommitsAreOfAssembledJobs'
  <2> SUFFICES ASSUME NEW j \in Jobs, NEW s \in Shards, s \in ResultsAfter(j)
               PROVE  \E d \in Dispatches : /\ obj[j][d].status = "complete"
                                            /\ Has(obj[j][d].result, s)
    BY <1>1, <1>3 DEF CommitsAreOfAssembledJobs, Has
  <2> QED
    BY MinersAssumption DEF ResultsAfter, Committed, CommitsAreOfAssembledJobs, Has
<1>7. PaidInv'
  <2> SUFFICES ASSUME NEW j \in Jobs, NEW s \in Shards, OnceDispatched(j)
               PROVE  /\ PaidAfter(j)[s] \in {0, 1}
                      /\ PaidAfter(j)[s] = 1 => obj[j][1].status = "complete"
    BY <1>1, <1>2, <1>3 DEF PaidInv
  <2> DEFINE C == {m \in Miners : CommitTx(j, s, m) \in mempool}
  <2>1. PaidAfter(j)[s] = chain[j].paid[s] + Cardinality(C)
    BY DEF PaidAfter
  <2>2. CASE C = {}
    <3>1. Cardinality(C) = 0
      BY <2>2, FS_EmptySet
    <3> QED
      BY <2>1, <3>1 DEF PaidInv
  <2>3. CASE C # {}
    <3>1. ASSUME NEW m \in C
          PROVE  obj[j][1].status = "complete" /\ obj[j][1].result[s] = m
      <4>1. PICK d \in Dispatches : obj[j][d].status = "complete" /\ obj[j][d].result[s] = m
        BY DEF CommitsAreOfAssembledJobs
      <4>2. task[j][d].pc # "idle"
        BY <4>1 DEF TaskInv, TaskOK, BlankJob
      <4> QED
        BY <4>1, <4>2 DEF OnceDispatched
    <3>2. C = {obj[j][1].result[s]}
      BY <2>3, <3>1
    <3>3. Cardinality(C) = 1
      BY <3>2, FS_Singleton
    <3>4. chain[j].paid[s] = 0
      BY <2>3 DEF PaidInv
    <3> QED
      BY <2>1, <2>3, <3>1, <3>3, <3>4
  <2> QED
    BY <2>2, <2>3
<1> QED
  BY <1>4, <1>5, <1>6, <1>7
-----------------------------------------------------------------------------
(* A step that changes one job object, timer or task changes nothing else. *)
WithObj(j, c, R) == [obj EXCEPT ![j][c] = R]

LEMMA ObjUpdate ==
  ASSUME TypeOK, NEW j \in Jobs, NEW c \in Dispatches, NEW R \in JobRec,
         obj' = WithObj(j, c, R)
  PROVE  /\ obj' \in [Jobs -> [Dispatches -> JobRec]]
         /\ obj'[j][c] = R
         /\ \A k \in Jobs, e \in Dispatches : k # j \/ e # c => obj'[k][e] = obj[k][e]
  BY DEF TypeOK, WithObj

LEMMA TaskUpdate ==
  ASSUME TypeOK, NEW j \in Jobs, NEW d \in Dispatches, NEW R \in TaskRec,
         task' = [task EXCEPT ![j][d] = R]
  PROVE  /\ task' \in [Jobs -> [Dispatches -> TaskRec]]
         /\ task'[j][d] = R
         /\ \A k \in Jobs, e \in Dispatches : k # j \/ e # d => task'[k][e] = task[k][e]
  BY DEF TypeOK

WithTimer(j, d, s, R) == [timer EXCEPT ![j][d][s] = R]

LEMMA TimerUpdate ==
  ASSUME TypeOK, NEW j \in Jobs, NEW d \in Dispatches, NEW s \in Shards, NEW R \in TimerRec,
         timer' = WithTimer(j, d, s, R)
  PROVE  /\ timer' \in [Jobs -> [Dispatches -> [Shards -> TimerRec]]]
         /\ timer'[j][d][s] = R
         /\ \A k \in Jobs, e \in Dispatches, x \in Shards :
               k # j \/ e # d \/ x # s => timer'[k][e][x] = timer[k][e][x]
<1>1. timer[j] \in [Dispatches -> [Shards -> TimerRec]]
  BY DEF TypeOK
<1>2. timer[j][d] \in [Shards -> TimerRec]
  BY <1>1
<1>3. timer' = [timer EXCEPT ![j] = [timer[j] EXCEPT ![d] = [timer[j][d] EXCEPT ![s] = R]]]
  BY DEF WithTimer
<1>4. [timer[j][d] EXCEPT ![s] = R] \in [Shards -> TimerRec]
  BY <1>2
<1> DEFINE T == [timer[j][d] EXCEPT ![s] = R]
<1>5. T[s] = R /\ \A x \in Shards : x # s => T[x] = timer[j][d][x]
  BY <1>2
<1>6. T \in [Shards -> TimerRec] /\ timer' = [timer EXCEPT ![j] = [timer[j] EXCEPT ![d] = T]]
  BY <1>3, <1>4
<1> HIDE DEF T
<1> DEFINE U == [timer[j] EXCEPT ![d] = T]
<1>7. U \in [Dispatches -> [Shards -> TimerRec]] /\ U[d] = T
      /\ \A e \in Dispatches : e # d => U[e] = timer[j][e]
  BY <1>1, <1>6
<1>8. timer' = [timer EXCEPT ![j] = U]
  BY <1>6
<1> HIDE DEF U
<1>9. timer' \in [Jobs -> [Dispatches -> [Shards -> TimerRec]]] /\ timer'[j] = U
      /\ \A k \in Jobs : k # j => timer'[k] = timer[k]
  BY <1>7, <1>8 DEF TypeOK
<1>10. timer'[j][d] = T
  BY <1>7, <1>9
<1>11. ASSUME NEW k \in Jobs, NEW e \in Dispatches, NEW x \in Shards,
              k # j \/ e # d \/ x # s
       PROVE  timer'[k][e][x] = timer[k][e][x]
  <2>1. CASE k # j
    BY <2>1, <1>9
  <2>2. CASE k = j /\ e # d
    BY <2>2, <1>7, <1>9
  <2>3. CASE k = j /\ e = d /\ x # s
    BY <2>3, <1>5, <1>10
  <2> QED
    BY <2>1, <2>2, <2>3, <1>11
<1> QED
  BY <1>5, <1>9, <1>10, <1>11

(* What the invariants about commits and payments rest on: the chain and   *)
(* the commits in the pool stay, assembled jobs keep status and results.   *)
LEMMA LedgerInv ==
  ASSUME IInv, chain' = chain,
         \A k \in Jobs, s \in Shards, m \in Miners :
            CommitTx(k, s, m) \in mempool' => CommitTx(k, s, m) \in mempool,
         \A k \in Jobs, e \in Dispatches : obj[k][e].status = "complete" =>
            obj'[k][e].status = "complete" /\ obj'[k][e].result = obj[k][e].result,
         \A k \in Jobs : OnceDispatched(k)' => OnceDispatched(k)
  PROVE  CommitsAreOfAssembledJobs' /\ PaidInv'
<1> USE DEF IInv
<1>1. CommitsAreOfAssembledJobs'
  BY DEF CommitsAreOfAssembledJobs, Has
<1>2. PaidInv'
  BY BoundAssumption DEF PaidInv
<1> QED
  BY <1>1, <1>2

LEMMA DispatchFailsInv ==
  ASSUME IInv, NEW j \in Jobs, NEW d \in Dispatches, DispatchFails(j, d)
  PROVE  IInv'
<1> USE DEF IInv, BaseInv, network
<1> DEFINE R == [BlankJob EXCEPT !.status = "failed"]
           T == [task[j][d] EXCEPT !.pc = "done"]
<1>1. /\ R \in JobRec
      /\ R.status = "failed"
      /\ \A s \in Shards : R.sstat[s] = "unassigned" /\ R.result[s] = NoMiner
  BY DEF BlankJob, JobRec, JobStates, MinerOrNone, ShardStates
<1>2. /\ UNCHANGED <<mempool, chain, timer, offers, answers>>
      /\ task[j][d].pc = "ready"
      /\ task' = [task EXCEPT ![j][d] = T]
      /\ obj' = WithObj(j, d, R)
      /\ cur' = [cur EXCEPT ![j] = d]
  BY DEF DispatchFails, WithObj, R, T
<1>3. T \in TaskRec /\ T.pc = "done"
  BY EntryTypes DEF TaskRec, TaskPCs
<1> HIDE DEF R, T
<1>4. /\ obj' \in [Jobs -> [Dispatches -> JobRec]]
      /\ obj'[j][d] = R
      /\ \A k \in Jobs, e \in Dispatches : k # j \/ e # d => obj'[k][e] = obj[k][e]
  BY <1>1, <1>2, ObjUpdate
<1>5. /\ task' \in [Jobs -> [Dispatches -> TaskRec]]
      /\ task'[j][d].pc = "done"
      /\ \A k \in Jobs, e \in Dispatches : k # j \/ e # d => task'[k][e] = task[k][e]
  <2>1. TypeOK /\ T \in TaskRec /\ task' = [task EXCEPT ![j][d] = T]
    BY <1>2, <1>3
  <2>2. /\ task' \in [Jobs -> [Dispatches -> TaskRec]]
        /\ task'[j][d] = T
        /\ \A k \in Jobs, e \in Dispatches : k # j \/ e # d => task'[k][e] = task[k][e]
    BY ONLY <2>1, TaskUpdate
  <2> QED
    BY <1>3, <2>2
<1>6. TypeOK'
  BY <1>2, <1>4, <1>5, BoundAssumption DEF TypeOK
<1>7. cur'[j] = d /\ \A k \in Jobs : k # j => cur'[k] = cur[k]
  BY <1>2 DEF TypeOK
<1>8. TaskInv'
  BY <1>2, <1>4, <1>5, <1>7 DEF TaskInv, TaskOK
<1>9. TimerInv' /\ OfferedInv' /\ ResultFromAssignee'
  BY <1>1, <1>2, <1>4 DEF TimerInv, OfferedInv, ResultFromAssignee, Has
<1>10. \A k \in Jobs : OnceDispatched(k)' <=> OnceDispatched(k)
  BY <1>2, <1>5 DEF OnceDispatched
<1>11. AssigneeInv'
  <2> SUFFICES ASSUME NEW k \in Jobs, NEW s \in Shards, 1 \in Dispatches, OnceDispatched(k)
               PROVE  /\ timer'[k][1][s].kind # "none"
                            => timer'[k][1][s].miner = obj'[k][1].spec[s]
                      /\ task'[k][1].pc = "offering" /\ s = task'[k][1].next - 1
                            => task'[k][1].to = obj'[k][1].spec[s]
    BY <1>10 DEF AssigneeInv
  <2>1. CASE k = j /\ d = 1
    <3>1. task'[k][1].pc = "done"
      BY <2>1, <1>5
    <3>2. timer'[k][1][s].kind = "none"
      BY <2>1, <1>2 DEF TaskInv, TaskOK
    <3> QED
      BY <3>1, <3>2
  <2>2. CASE ~ (k = j /\ d = 1)
    <3>1. task'[k][1] = task[k][1] /\ obj'[k][1] = obj[k][1]
      BY <2>2, <1>4, <1>5
    <3> QED
      BY <3>1, <1>2 DEF AssigneeInv
  <2> QED
    BY <2>1, <2>2
<1>12. obj[j][d].status # "complete"
  BY <1>2 DEF TaskInv, TaskOK, BlankJob
<1>13. CommitsAreOfAssembledJobs' /\ PaidInv'
  BY <1>2, <1>4, <1>10, <1>12, LedgerInv
<1> QED
  BY <1>6, <1>8, <1>9, <1>11, <1>13

(* Whatever is selected, shard 0 goes to a live miner. *)
LEMMA SelectionFacts ==
  ASSUME NEW j \in Jobs, NEW live \in SUBSET Miners, NEW f \in Selections(j, live)
  PROVE  \E k \in Nat \ {0} : f \in [0 .. (k - 1) -> Miners]
<1>1. ProtoShards(j) \in Nat \ {0}
  BY JobAssumption DEF ProtoShards
<1>2. CASE ProtoMode(j) = "pipeline_parallel"
  <2>1. f \in PipelineAssignments(live, ProtoShards(j))
    BY <1>2 DEF Selections
  <2>2. PICK k \in 1 .. ProtoShards(j) : f \in [0 .. (k - 1) -> live]
    BY <2>1 DEF PipelineAssignments
  <2> QED
    BY <1>1, <2>2
<1>3. CASE ProtoMode(j) # "pipeline_parallel"
  BY <1>1, <1>3 DEF Selections, Assignments
<1> QED
  BY <1>2, <1>3

LEMMA DispatchJobInv ==
  ASSUME IInv, NEW j \in Jobs, NEW d \in Dispatches, DispatchJob(j, d)
  PROVE  IInv'
<1> USE DEF IInv, BaseInv
<1>1. /\ UNCHANGED <<mempool, chain, answers>>
      /\ task[j][d].pc = "ready"
      /\ cur' = [cur EXCEPT ![j] = d]
  BY DEF DispatchJob
<1> DEFINE F == [e \in Dispatches |-> [s \in Shards |->
                   [timer[j][e][s] EXCEPT !.tracked = FALSE]]]
<1>2. timer' = [timer EXCEPT ![j] = F]
  BY DEF DispatchJob
<1> DEFINE R(f) == [status |-> "pending",
                    spec   |-> [s \in Shards |-> IF s \in DOMAIN f THEN f[s] ELSE NoMiner],
                    result |-> BlankJob.result,
                    sstat  |-> [s \in Shards |->
                                  IF s \in DOMAIN f THEN "offered" ELSE "unassigned"]]
           T(f) == [pc |-> "offering", next |-> 1, to |-> f[0]]
<1>3. \E live \in SUBSET Miners : \E f \in Selections(j, live) :
         /\ obj' = [obj EXCEPT ![j][d] = R(f)]
         /\ offers' = offers \cup {<<j, 0, f[0]>>}
         /\ task' = [task EXCEPT ![j][d] = T(f)]
  BY DEF DispatchJob
<1>4. PICK f : /\ \E k \in Nat \ {0} : f \in [0 .. (k - 1) -> Miners]
               /\ obj' = [obj EXCEPT ![j][d] = R(f)]
               /\ offers' = offers \cup {<<j, 0, f[0]>>}
               /\ task' = [task EXCEPT ![j][d] = T(f)]
  <2> HIDE DEF R, T
  <2> QED
    BY <1>3, SelectionFacts
<1>5. (\A s \in DOMAIN f : f[s] \in Miners) /\ 0 \in DOMAIN f
  BY <1>4
<1>6. /\ R(f) \in JobRec
      /\ \A s \in Shards : /\ R(f).sstat[s] = "offered" => R(f).spec[s] \in Miners
                           /\ R(f).result[s] = NoMiner
      /\ R(f).spec[0] = f[0]
  BY <1>5, ShardsAssumption DEF BlankJob, JobRec, JobStates, MinerOrNone, ShardStates
<1>7. T(f) \in TaskRec /\ T(f).pc = "offering" /\ T(f).next = 1 /\ T(f).to = f[0]
  BY <1>4 DEF TaskRec, TaskPCs, MinerOrNone
<1>8. obj' = WithObj(j, d, R(f))
  BY <1>4 DEF WithObj
<1>9. task' = [task EXCEPT ![j][d] = T(f)]
  BY <1>4
<1>10. /\ F \in [Dispatches -> [Shards -> TimerRec]]
      /\ \A e \in Dispatches, s \in Shards :
            F[e][s].kind = timer[j][e][s].kind /\ F[e][s].miner = timer[j][e][s].miner
  <2>1. \A e \in Dispatches, s \in Shards : timer[j][e][s] \in TimerRec
    BY EntryTypes
  <2> QED
    BY <2>1 DEF TimerRec
<1> HIDE DEF R, T, F
<1>11. /\ obj' \in [Jobs -> [Dispatches -> JobRec]]
       /\ obj'[j][d] = R(f)
       /\ \A k \in Jobs, e \in Dispatches : k # j \/ e # d => obj'[k][e] = obj[k][e]
  BY <1>6, <1>8, ObjUpdate
<1>12. /\ task' \in [Jobs -> [Dispatches -> TaskRec]]
       /\ task'[j][d] = T(f)
       /\ \A k \in Jobs, e \in Dispatches : k # j \/ e # d => task'[k][e] = task[k][e]
  BY <1>7, <1>9, TaskUpdate
<1>13. /\ timer' \in [Jobs -> [Dispatches -> [Shards -> TimerRec]]]
       /\ \A k \in Jobs, e \in Dispatches, s \in Shards :
             timer'[k][e][s].kind = timer[k][e][s].kind /\ timer'[k][e][s].miner = timer[k][e][s].miner
  BY <1>2, <1>10 DEF TypeOK
<1>14. cur' \in [Jobs -> 0 .. MaxDispatch] /\ cur'[j] = d /\ \A k \in Jobs : k # j => cur'[k] = cur[k]
  BY <1>1, BoundAssumption DEF TypeOK
<1>15. TypeOK'
  <2>1. offers' \subseteq Addressed
    BY <1>4, <1>5, ShardsAssumption DEF TypeOK, Addressed
  <2> QED
    BY <2>1, <1>1, <1>11, <1>12, <1>13, <1>14 DEF TypeOK
<1>16. TaskInv'
  <2> SUFFICES ASSUME NEW k \in Jobs, NEW e \in Dispatches
               PROVE  TaskOK(k, e)'
    BY DEF TaskInv
  <2>1. CASE k = j /\ e = d
    <3>1. /\ task'[k][e].pc = "offering"
          /\ task'[k][e].next = 1
          /\ task'[k][e].to \in Miners
          /\ cur'[k] = d
      BY <2>1, <1>5, <1>7, <1>12, <1>14
    <3>2. \A s \in Shards : timer'[k][e][s].kind = "none"
      BY <2>1, <1>1, <1>13 DEF TaskInv, TaskOK
    <3> QED
      BY <3>1, <3>2, ShardsAssumption DEF TaskOK
  <2>2. CASE ~ (k = j /\ e = d)
    <3>1. task'[k][e] = task[k][e] /\ obj'[k][e] = obj[k][e]
      BY <2>2, <1>11, <1>12
    <3>2. cur'[k] = cur[k] \/ (cur'[k] = d /\ e # d)
      BY <2>2, <1>14
    <3>3. \A s \in Shards : timer'[k][e][s].kind = timer[k][e][s].kind
      BY <1>13
    <3>4. TaskOK(k, e)
      BY DEF TaskInv
    <3> QED
      BY <3>1, <3>2, <3>3, <3>4 DEF TaskOK
  <2> QED
    BY <2>1, <2>2
<1>17. TimerInv' /\ OfferedInv' /\ ResultFromAssignee'
  <2>1. TimerInv'
    BY <1>13 DEF TimerInv
  <2>2. OfferedInv'
    BY <1>6, <1>11 DEF OfferedInv
  <2>3. ResultFromAssignee'
    BY <1>6, <1>11 DEF ResultFromAssignee, Has
  <2> QED
    BY <2>1, <2>2, <2>3
<1>18. \A k \in Jobs : OnceDispatched(k)' <=> OnceDispatched(k)
  BY <1>1, <1>7, <1>12 DEF OnceDispatched
<1>19. AssigneeInv'
  <2> SUFFICES ASSUME NEW k \in Jobs, NEW s \in Shards, 1 \in Dispatches, OnceDispatched(k)
               PROVE  /\ timer'[k][1][s].kind # "none"
                            => timer'[k][1][s].miner = obj'[k][1].spec[s]
                      /\ task'[k][1].pc = "offering" /\ s = task'[k][1].next - 1
                            => task'[k][1].to = obj'[k][1].spec[s]
    BY <1>18 DEF AssigneeInv
  <2>1. CASE k = j /\ d = 1
    <3>1. task'[k][1].next = 1 /\ task'[k][1].to = f[0] /\ obj'[k][1].spec[0] = f[0]
      BY <2>1, <1>6, <1>7, <1>11, <1>12
    <3>2. timer'[k][1][s].kind = "none"
      BY <2>1, <1>1, <1>13 DEF TaskInv, TaskOK
    <3> QED
      BY <3>1, <3>2
  <2>2. CASE ~ (k = j /\ d = 1)
    <3>1. task'[k][1] = task[k][1] /\ obj'[k][1] = obj[k][1]
      BY <2>2, <1>11, <1>12
    <3>2. /\ timer'[k][1][s].kind = timer[k][1][s].kind
          /\ timer'[k][1][s].miner = timer[k][1][s].miner
      BY <1>13
    <3> QED
      BY <3>1, <3>2 DEF AssigneeInv
  <2> QED
    BY <2>1, <2>2
<1>20. obj[j][d].status # "complete"
  BY <1>1 DEF TaskInv, TaskOK, BlankJob
<1>21. CommitsAreOfAssembledJobs' /\ PaidInv'
  BY <1>1, <1>11, <1>18, <1>20, LedgerInv
<1> QED
  BY <1>15, <1>16, <1>17, <1>19, <1>21

LEMMA OfferShardInv ==
  ASSUME IInv, NEW j \in Jobs, NEW d \in Dispatches, OfferShard(j, d)
  PROVE  IInv'
<1> USE DEF IInv, BaseInv
<1> DEFINE i == task[j][d].next
           m == IF i \in Shards THEN obj[j][d].spec[i] ELSE NoMiner
           R == [kind |-> "offer", miner |-> task[j][d].to, tracked |-> TRUE]
           T == IF m # NoMiner THEN [pc |-> "offering", next |-> i + 1, to |-> m]
                ELSE [task[j][d] EXCEPT !.pc = "done"]
<1>1. /\ UNCHANGED <<mempool, chain, obj, cur, answers>>
      /\ task[j][d].pc = "offering"
      /\ timer' = [timer EXCEPT ![j][d][i - 1] = R]
  BY DEF OfferShard
<1>2. /\ task' = [task EXCEPT ![j][d] = T]
      /\ m # NoMiner => offers' = offers \cup {<<j, i, m>>}
      /\ m = NoMiner => offers' = offers
  BY DEF OfferShard
<1>3. /\ i \in Nat /\ i - 1 \in Shards
      /\ task[j][d].to \in Miners
      /\ \A s \in Shards : s >= i - 1 => timer[j][d][s].kind = "none"
      /\ cur[j] \in Dispatches
  BY <1>1 DEF TaskInv, TaskOK
<1>4. m # NoMiner => i \in Shards /\ m = obj[j][d].spec[i] /\ m \in Miners
  BY EntryTypes DEF JobRec, MinerOrNone
<1>5. R \in TimerRec /\ R.kind = "offer" /\ R.miner = task[j][d].to
  BY <1>3 DEF TimerRec, TimerKinds, MinerOrNone
<1>6. /\ T \in TaskRec
      /\ \/ T.pc = "offering" /\ T.next = i + 1 /\ T.to = m /\ m # NoMiner
         \/ T.pc = "done"
  <2>1. task[j][d] \in TaskRec
    BY EntryTypes
  <2> QED
    BY <2>1, <1>3, <1>4 DEF TaskRec, TaskPCs, MinerOrNone
<1> HIDE DEF R, T, m
<1>7. /\ task' \in [Jobs -> [Dispatches -> TaskRec]]
      /\ task'[j][d] = T
      /\ \A k \in Jobs, e \in Dispatches : k # j \/ e # d => task'[k][e] = task[k][e]
  BY <1>2, <1>6, TaskUpdate
<1>8. /\ timer' \in [Jobs -> [Dispatches -> [Shards -> TimerRec]]]
      /\ timer'[j][d][i - 1] = R
      /\ \A k \in Jobs, e \in Dispatches, x \in Shards :
            k # j \/ e # d \/ x # i - 1 => timer'[k][e][x] = timer[k][e][x]
  <2> DEFINE p == i - 1
  <2>1. TypeOK /\ R \in TimerRec /\ p \in Shards /\ timer' = WithTimer(j, d, p, R)
    BY <1>1, <1>3, <1>5 DEF WithTimer
  <2> HIDE DEF p
  <2>2. /\ timer' \in [Jobs -> [Dispatches -> [Shards -> TimerRec]]]
        /\ timer'[j][d][p] = R
        /\ \A k \in Jobs, e \in Dispatches, x \in Shards :
              k # j \/ e # d \/ x # p => timer'[k][e][x] = timer[k][e][x]
    BY <2>1, TimerUpdate
  <2> QED
    BY <2>2 DEF p
<1>9. TypeOK'
  <2>1. offers' \subseteq Addressed
    BY <1>2, <1>4 DEF TypeOK, Addressed
  <2> QED
    BY <2>1, <1>1, <1>7, <1>8 DEF TypeOK
<1>10. TaskInv'
  <2> SUFFICES ASSUME NEW k \in Jobs, NEW e \in Dispatches
               PROVE  TaskOK(k, e)'
    BY DEF TaskInv
  <2>1. CASE k = j /\ e = d
    <3>1. T.pc = "offering" =>
            /\ T.next \in Nat \ {0} /\ T.next - 1 \in Shards /\ T.to \in Miners
            /\ \A s \in Shards : s >= T.next - 1 => timer'[j][d][s].kind = "none"
      <4> SUFFICES ASSUME T.pc = "offering"
                   PROVE  /\ T.next \in Nat \ {0} /\ T.next - 1 \in Shards /\ T.to \in Miners
                          /\ \A s \in Shards : s >= T.next - 1 => timer'[j][d][s].kind = "none"
        OBVIOUS
      <4>1. T.next = i + 1 /\ T.to = m /\ m # NoMiner
        BY <1>6
      <4>2. T.next \in Nat \ {0} /\ T.next - 1 = i /\ i \in Shards /\ T.to \in Miners
        BY <4>1, <1>3, <1>4
      <4>3. ASSUME NEW s \in Shards, s >= i PROVE timer'[j][d][s].kind = "none"
        <5>1. s >= i - 1 /\ s # i - 1
          BY <4>3, <1>3, ShardsAssumption
        <5> QED
          BY <5>1, <1>3, <1>8
      <4> QED
        BY <4>2, <4>3
    <3> QED
      BY <2>1, <3>1, <1>1, <1>3, <1>6, <1>7 DEF TaskOK
  <2>2. CASE ~ (k = j /\ e = d)
    <3>1. task'[k][e] = task[k][e] /\ \A s \in Shards : timer'[k][e][s] = timer[k][e][s]
      BY <2>2, <1>7, <1>8
    <3>2. TaskOK(k, e)
      BY DEF TaskInv
    <3> QED
      BY <3>1, <3>2, <1>1 DEF TaskOK
  <2> QED
    BY <2>1, <2>2
<1>11. TimerInv'
  BY <1>3, <1>5, <1>8 DEF TimerInv
<1>12. OfferedInv' /\ ResultFromAssignee'
  BY <1>1 DEF OfferedInv, ResultFromAssignee
<1>13. \A k \in Jobs : OnceDispatched(k)' <=> OnceDispatched(k)
  BY <1>1, <1>6, <1>7 DEF OnceDispatched
<1>14. AssigneeInv'
  <2> SUFFICES ASSUME NEW k \in Jobs, NEW s \in Shards, 1 \in Dispatches, OnceDispatched(k)
               PROVE  /\ timer'[k][1][s].kind # "none"
                            => timer'[k][1][s].miner = obj[k][1].spec[s]
                      /\ task'[k][1].pc = "offering" /\ s = task'[k][1].next - 1
                            => task'[k][1].to = obj[k][1].spec[s]
    BY <1>1, <1>13 DEF AssigneeInv
  <2>1. /\ timer[k][1][s].kind # "none" => timer[k][1][s].miner = obj[k][1].spec[s]
        /\ task[k][1].pc = "offering" /\ s = task[k][1].next - 1
              => task[k][1].to = obj[k][1].spec[s]
    BY DEF AssigneeInv
  <2>2. timer'[k][1][s].kind # "none" => timer'[k][1][s].miner = obj[k][1].spec[s]
    BY <2>1, <1>1, <1>5, <1>8
  <2>3. ASSUME task'[k][1].pc = "offering", s = task'[k][1].next - 1
        PROVE  task'[k][1].to = obj[k][1].spec[s]
    <3>1. CASE k = j /\ d = 1
      <4>1. task'[k][1].next = i + 1 /\ task'[k][1].to = m /\ m # NoMiner
        BY <3>1, <2>3, <1>6, <1>7
      <4>2. s = i
        BY <4>1, <2>3, <1>3
      <4> QED
        BY <3>1, <4>1, <4>2, <1>4
    <3>2. CASE ~ (k = j /\ d = 1)
      BY <3>2, <2>1, <2>3, <1>7
    <3> QED
      BY <3>1, <3>2
  <2> QED
    BY <2>2, <2>3
<1>15. CommitsAreOfAssembledJobs' /\ PaidInv'
  BY <1>1, <1>13, LedgerInv
<1> QED
  BY <1>9, <1>10, <1>11, <1>12, <1>14, <1>15
-----------------------------------------------------------------------------
(* The handlers of results and time-outs change the current job object and *)
(* may only end or move timers: what all of them preserve.                 *)
WithJob(j, R) == WithObj(j, cur[j], R)

LEMMA CurrentJobInv ==
  ASSUME BaseInv, NEW j \in Jobs, cur[j] # 0, NEW R \in JobRec, obj' = WithJob(j, R),
         task' = task, cur' = cur, chain' = chain,
         \A s \in Shards : /\ R.sstat[s] = "offered" => R.spec[s] \in Miners
                           /\ Has(R.result, s) => R.result[s] = R.spec[s],
         timer' \in [Jobs -> [Dispatches -> [Shards -> TimerRec]]],
         \A k \in Jobs, e \in Dispatches, s \in Shards : timer'[k][e][s].kind # "none" =>
            timer[k][e][s].kind # "none" /\ timer'[k][e][s].miner \in Miners,
         offers' \subseteq Addressed, answers' \subseteq Addressed,
         mempool' \subseteq Posts \cup Commits \cup Histories \cup Slashes
  PROVE  /\ BaseInv'
         /\ obj'[j][cur[j]] = R
         /\ \A k \in Jobs, e \in Dispatches : k # j \/ e # cur[j] => obj'[k][e] = obj[k][e]
<1> USE DEF BaseInv
<1>1. cur[j] \in Dispatches
  BY CurrentType
<1>2. /\ obj' \in [Jobs -> [Dispatches -> JobRec]]
      /\ obj'[j][cur[j]] = R
      /\ \A k \in Jobs, e \in Dispatches : k # j \/ e # cur[j] => obj'[k][e] = obj[k][e]
  <2> DEFINE c == cur[j]
  <2>1. c \in Dispatches /\ obj' = WithObj(j, c, R)
    BY <1>1 DEF WithJob
  <2> HIDE DEF c
  <2>2. /\ obj' \in [Jobs -> [Dispatches -> JobRec]]
        /\ obj'[j][c] = R
        /\ \A k \in Jobs, e \in Dispatches : k # j \/ e # c => obj'[k][e] = obj[k][e]
    BY <2>1, ObjUpdate
  <2> QED
    BY <2>2 DEF c
<1>3. TypeOK'
  BY <1>2 DEF TypeOK
<1>4. TaskInv'
  <2> SUFFICES ASSUME NEW k \in Jobs, NEW e \in Dispatches
               PROVE  TaskOK(k, e)'
    BY DEF TaskInv
  <2>1. TaskOK(k, e)
    BY DEF TaskInv
  <2>2. \A s \in Shards : timer[k][e][s].kind = "none" => timer'[k][e][s].kind = "none"
    OBVIOUS
  <2>3. task[k][e].pc \in {"idle", "ready"} => obj'[k][e] = obj[k][e]
    BY <2>1, <1>2 DEF TaskOK
  <2> QED
    BY <2>1, <2>2, <2>3 DEF TaskOK
<1>5. TimerInv'
  BY DEF TimerInv
<1>6. OfferedInv'
  BY <1>2 DEF OfferedInv
<1>7. ResultFromAssignee'
  BY <1>2 DEF ResultFromAssignee, Has
<1> QED
  BY <1>2, <1>3, <1>4, <1>5, <1>6, <1>7

LEMMA KeepAssigneeInv ==
  ASSUME AssigneeInv, task' = task,
         \A k \in Jobs, e \in Dispatches : obj'[k][e].spec = obj[k][e].spec,
         \A k \in Jobs, e \in Dispatches, s \in Shards : timer'[k][e][s].kind # "none" =>
            timer[k][e][s].kind # "none" /\ timer'[k][e][s].miner = timer[k][e][s].miner
  PROVE  AssigneeInv'
<1>1. \A k \in Jobs : OnceDispatched(k)' <=> OnceDispatched(k)
  BY DEF OnceDispatched
<1> QED
  BY <1>1 DEF AssigneeInv

(* An update of the current job that keeps its miners, and keeps it as it  *)
(* was if it is assembled.                                                 *)
LEMMA KeepJobInv ==
  ASSUME IInv, NEW j \in Jobs, cur[j] # 0, NEW R \in JobRec, obj' = WithJob(j, R),
         task' = task, cur' = cur, chain' = chain,
         R.spec = Current(j).spec,
         Current(j).status = "complete" => R.status = "complete" /\ R.result = Current(j).result,
         \A s \in Shards : /\ R.sstat[s] = "offered" => R.spec[s] \in Miners
                           /\ Has(R.result, s) => R.result[s] = R.spec[s],
         timer' \in [Jobs -> [Dispatches -> [Shards -> TimerRec]]],
         \A k \in Jobs, e \in Dispatches, s \in Shards : timer'[k][e][s].kind # "none" =>
            timer[k][e][s].kind # "none" /\ timer'[k][e][s].miner = timer[k][e][s].miner,
         offers' \subseteq Addressed, answers' \subseteq Addressed,
         mempool' \subseteq Posts \cup Commits \cup Histories \cup Slashes
  PROVE  /\ BaseInv' /\ AssigneeInv'
         /\ obj'[j][cur[j]] = R
         /\ \A k \in Jobs, e \in Dispatches : k # j \/ e # cur[j] => obj'[k][e] = obj[k][e]
         /\ \A k \in Jobs, e \in Dispatches : obj[k][e].status = "complete" =>
               obj'[k][e].status = "complete" /\ obj'[k][e].result = obj[k][e].result
         /\ \A k \in Jobs : OnceDispatched(k)' <=> OnceDispatched(k)
<1> USE DEF IInv
<1>1. \A k \in Jobs, e \in Dispatches, s \in Shards : timer'[k][e][s].kind # "none" =>
         timer[k][e][s].kind # "none" /\ timer'[k][e][s].miner \in Miners
  BY DEF BaseInv, TimerInv
<1>2. /\ BaseInv'
      /\ obj'[j][cur[j]] = R
      /\ \A k \in Jobs, e \in Dispatches : k # j \/ e # cur[j] => obj'[k][e] = obj[k][e]
  BY <1>1, CurrentJobInv
<1>3. \A k \in Jobs, e \in Dispatches : obj'[k][e].spec = obj[k][e].spec
  BY <1>2 DEF Current
<1>4. AssigneeInv'
  BY <1>3, KeepAssigneeInv
<1>5. \A k \in Jobs, e \in Dispatches : obj[k][e].status = "complete" =>
         obj'[k][e].status = "complete" /\ obj'[k][e].result = obj[k][e].result
  BY <1>2 DEF Current
<1>6. \A k \in Jobs : OnceDispatched(k)' <=> OnceDispatched(k)
  BY DEF OnceDispatched
<1> QED
  BY <1>2, <1>4, <1>5, <1>6
-----------------------------------------------------------------------------
LEMMA AcceptedResult ==
  ASSUME IInv, NEW j \in Jobs, NEW s \in Shards, NEW m \in Miners, Accepts(j, s, m)
  PROVE  /\ cur[j] # 0 /\ cur[j] \in Dispatches
         /\ Current(j) = obj[j][cur[j]]
         /\ Current(j) \in JobRec
         /\ Current(j).status # "complete"
         /\ Current(j).spec[s] = m
         /\ \A x \in Shards :
               /\ Current(j).sstat[x] = "offered" => Current(j).spec[x] \in Miners
               /\ Has(Current(j).result, x) => Current(j).result[x] = Current(j).spec[x]
<1>1. /\ cur[j] # 0 /\ Current(j).status # "complete" /\ Current(j).spec[s] = m
  BY DEF Accepts
<1>2. /\ cur[j] \in Dispatches /\ Current(j) = obj[j][cur[j]] /\ Current(j) \in JobRec
  BY <1>1, CurrentType DEF IInv, BaseInv
<1>3. \A x \in Shards :
         /\ Current(j).sstat[x] = "offered" => Current(j).spec[x] \in Miners
         /\ Has(Current(j).result, x) => Current(j).result[x] = Current(j).spec[x]
  BY <1>2 DEF IInv, BaseInv, OfferedInv, ResultFromAssignee
<1> QED
  BY <1>1, <1>2, <1>3

LEMMA ResultRecordedInv ==
  ASSUME IInv, NEW j \in Jobs, NEW s \in Shards, NEW m \in Miners, ResultRecorded(j, s, m)
  PROVE  IInv'
<1> USE DEF IInv
<1> DEFINE R == [Current(j) EXCEPT !.result[s] = m, !.sstat[s] = "submitted"]
<1>1. /\ UNCHANGED <<mempool, chain, task, cur, timer, offers>>
      /\ Accepts(j, s, m)
      /\ answers' = answers \ {<<j, s, m>>}
  BY DEF ResultRecorded
<1>2. obj' = WithJob(j, R)
  BY DEF ResultRecorded, WithJob, WithObj, Current
<1>3. /\ R \in JobRec
      /\ R.spec = Current(j).spec
      /\ \A x \in Shards : /\ R.sstat[x] = "offered" => Current(j).sstat[x] = "offered"
                           /\ R.result[x] = IF x = s THEN m ELSE Current(j).result[x]
  <2>1. Current(j) \in JobRec
    BY <1>1, AcceptedResult
  <2> QED
    BY <2>1 DEF JobRec, MinerOrNone, ShardStates
<1>4. \A x \in Shards : /\ R.sstat[x] = "offered" => R.spec[x] \in Miners
                        /\ Has(R.result, x) => R.result[x] = R.spec[x]
  BY <1>1, <1>3, AcceptedResult DEF Has
<1>5. cur[j] # 0 /\ Current(j).status # "complete"
  BY <1>1 DEF Accepts
<1>6. /\ timer' \in [Jobs -> [Dispatches -> [Shards -> TimerRec]]]
      /\ answers' \subseteq Addressed /\ offers' \subseteq Addressed
      /\ mempool' \subseteq Posts \cup Commits \cup Histories \cup Slashes
  BY <1>1 DEF BaseInv, TypeOK
<1> HIDE DEF R
<1>7. /\ BaseInv' /\ AssigneeInv'
      /\ \A k \in Jobs, e \in Dispatches : obj[k][e].status = "complete" =>
            obj'[k][e].status = "complete" /\ obj'[k][e].result = obj[k][e].result
      /\ \A k \in Jobs : OnceDispatched(k)' <=> OnceDispatched(k)
  BY <1>1, <1>2, <1>3, <1>4, <1>5, <1>6, KeepJobInv
<1>8. CommitsAreOfAssembledJobs' /\ PaidInv'
  BY <1>1, <1>7, LedgerInv
<1> QED
  BY <1>7, <1>8

\* The only dispatch of a job made the object self._jobs points to.
LEMMA OnceCurrent ==
  ASSUME BaseInv, NEW j \in Jobs, OnceDispatched(j), cur[j] # 0
  PROVE  cur[j] = 1 /\ 1 \in Dispatches
<1>1. cur[j] \in Dispatches
  BY CurrentType DEF BaseInv
<1>2. TaskOK(j, cur[j])
  BY <1>1 DEF BaseInv, TaskInv
<1>3. task[j][cur[j]].pc # "idle"
  BY <1>2 DEF TaskOK
<1> QED
  BY <1>1, <1>3 DEF OnceDispatched

LEMMA ResultCompletesInv ==
  ASSUME IInv, NEW j \in Jobs, NEW s \in Shards, NEW m \in Miners, ResultCompletes(j, s, m)
  PROVE  IInv'
<1> USE DEF IInv
<1> DEFINE W == WithResult(j, s, m)
           R == [Current(j) EXCEPT !.result[s] = m, !.sstat[s] = "submitted",
                                   !.status = "complete"]
           F == [e \in Dispatches |-> [x \in Shards |->
                   IF timer[j][e][x].tracked THEN NoTimer ELSE timer[j][e][x]]]
<1>1. /\ UNCHANGED <<chain, task, cur, offers>>
      /\ Accepts(j, s, m)
      /\ answers' = answers \ {<<j, s, m>>}
      /\ mempool' = mempool \cup AssembledTxs(j, W)
  BY DEF ResultCompletes
<1>2. obj' = WithJob(j, R)
  BY DEF ResultCompletes, WithJob, WithObj, Current
<1>3. /\ R \in JobRec
      /\ R.spec = Current(j).spec
      /\ R.status = "complete"
      /\ R.result = W
      /\ \A x \in Shards : /\ R.sstat[x] = "offered" => Current(j).sstat[x] = "offered"
                           /\ W[x] = IF x = s THEN m ELSE Current(j).result[x]
  <2>1. Current(j) \in JobRec
    BY <1>1, AcceptedResult
  <2> QED
    BY <2>1 DEF JobRec, MinerOrNone, ShardStates, JobStates, WithResult
<1>4. \A x \in Shards : /\ R.sstat[x] = "offered" => R.spec[x] \in Miners
                        /\ Has(R.result, x) => R.result[x] = R.spec[x]
  BY <1>1, <1>3, AcceptedResult DEF Has
<1>5. cur[j] # 0 /\ Current(j).status # "complete"
  BY <1>1 DEF Accepts
<1>6. /\ timer' \in [Jobs -> [Dispatches -> [Shards -> TimerRec]]]
      /\ \A k \in Jobs, e \in Dispatches, x \in Shards :
            timer'[k][e][x] = timer[k][e][x] \/ timer'[k][e][x].kind = "none"
  <2>1. \A k \in Jobs, e \in Dispatches, x \in Shards : timer[k][e][x] \in TimerRec
    BY EntryTypes DEF BaseInv
  <2>2. NoTimer \in TimerRec /\ NoTimer.kind = "none"
    BY DEF NoTimer, TimerRec, TimerKinds, MinerOrNone
  <2>3. F \in [Dispatches -> [Shards -> TimerRec]]
    BY <2>1, <2>2
  <2>4. \A e \in Dispatches, x \in Shards : F[e][x] = timer[j][e][x] \/ F[e][x].kind = "none"
    BY <2>2
  <2>5. timer' = [timer EXCEPT ![j] = F]
    BY DEF ResultCompletes
  <2> HIDE DEF F
  <2> QED
    BY <2>3, <2>4, <2>5 DEF BaseInv, TypeOK
<1>7. \A t \in AssembledTxs(j, W) :
         \/ \E x \in Shards : W[x] \in Miners /\ t = CommitTx(j, x, W[x])
         \/ t = HistoryTx(j)
  <2>1. \A x \in Shards : Has(W, x) => W[x] \in Miners
    BY <1>3 DEF Has, JobRec, MinerOrNone
  <2> HIDE DEF W
  <2> QED
    BY <2>1 DEF AssembledTxs
<1>8. /\ answers' \subseteq Addressed /\ offers' \subseteq Addressed
      /\ mempool' \subseteq Posts \cup Commits \cup Histories \cup Slashes
  <2>1. AssembledTxs(j, W) \subseteq Commits \cup Histories
    <3> SUFFICES ASSUME NEW t \in AssembledTxs(j, W) PROVE t \in Commits \cup Histories
      OBVIOUS
    <3>1. ASSUME NEW x \in Shards, NEW n \in Miners PROVE CommitTx(j, x, n) \in Commits
      <4>1. <<j, x, n>> \in Addressed
        BY DEF Addressed
      <4> QED
        BY <4>1 DEF Commits, CommitTx
    <3>2. HistoryTx(j) \in Histories
      BY DEF Histories
    <3> QED
      BY <3>1, <3>2, <1>7
  <2> QED
    BY <2>1, <1>1 DEF BaseInv, TypeOK
<1> HIDE DEF R, W, F
<1>9. /\ BaseInv' /\ AssigneeInv'
      /\ obj'[j][cur[j]] = R
      /\ \A k \in Jobs, e \in Dispatches : obj[k][e].status = "complete" =>
            obj'[k][e].status = "complete" /\ obj'[k][e].result = obj[k][e].result
      /\ \A k \in Jobs : OnceDispatched(k)' <=> OnceDispatched(k)
  BY <1>1, <1>2, <1>3, <1>4, <1>5, <1>6, <1>8, KeepJobInv
<1>10. \A k \in Jobs, x \in Shards, n \in Miners : CommitTx(k, x, n) \in mempool' =>
          CommitTx(k, x, n) \in mempool \/ (k = j /\ n = W[x])
  BY <1>1, <1>7 DEF CommitTx, HistoryTx
<1>11. CommitsAreOfAssembledJobs'
  <2>1. cur[j] \in Dispatches
    BY <1>1, AcceptedResult
  <2>2. ASSUME NEW k \in Jobs, NEW x \in Shards, NEW n \in Miners, CommitTx(k, x, n) \in mempool'
        PROVE  \E e \in Dispatches : obj'[k][e].status = "complete" /\ obj'[k][e].result[x] = n
    <3>1. CASE CommitTx(k, x, n) \in mempool
      BY <3>1, <1>9 DEF CommitsAreOfAssembledJobs
    <3>2. CASE k = j /\ n = W[x]
      BY <3>2, <2>1, <1>3, <1>9
    <3> QED
      BY <2>2, <3>1, <3>2, <1>10
  <2>3. ASSUME NEW k \in Jobs, NEW x \in Shards, x \in chain[k].results
        PROVE  \E e \in Dispatches : obj'[k][e].status = "complete" /\ Has(obj'[k][e].result, x)
    BY <2>3, <1>9 DEF CommitsAreOfAssembledJobs
  <2> QED
    BY <2>2, <2>3, <1>1 DEF CommitsAreOfAssembledJobs, Has
<1>12. PaidInv'
  <2> SUFFICES ASSUME NEW k \in Jobs, NEW x \in Shards, OnceDispatched(k)
               PROVE  /\ chain[k].paid[x] \in {0, 1}
                      /\ chain[k].paid[x] = 1 =>
                            /\ obj'[k][1].status = "complete"
                            /\ \A n \in Miners : CommitTx(k, x, n) \notin mempool'
    BY <1>1, <1>9 DEF PaidInv
  <2>1. /\ chain[k].paid[x] \in {0, 1}
        /\ chain[k].paid[x] = 1 =>
              /\ obj[k][1].status = "complete"
              /\ \A n \in Miners : CommitTx(k, x, n) \notin mempool
    BY DEF PaidInv
  <2>2. chain[k].paid[x] = 1 => k # j
    <3>1. k = j => cur[j] = 1
      BY <1>5, OnceCurrent
    <3> QED
      BY <2>1, <3>1, <1>5 DEF Current
  <2>3. 1 \in Dispatches
    BY BoundAssumption
  <2> QED
    BY <2>1, <2>2, <2>3, <1>9, <1>10
<1> QED
  BY <1>9, <1>11, <1>12
-----------------------------------------------------------------------------
(* The timers. *)
LEMMA TimerCurrent ==
  ASSUME IInv, NEW j \in Jobs, NEW d \in Dispatches, NEW s \in Shards,
         timer[j][d][s].kind # "none"
  PROVE  /\ cur[j] # 0 /\ cur[j] \in Dispatches
         /\ Current(j) = obj[j][cur[j]]
         /\ Current(j) \in JobRec
         /\ timer[j][d][s] \in TimerRec
         /\ timer[j][d][s].miner \in Miners
         /\ \A x \in Shards :
               /\ Current(j).sstat[x] = "offered" => Current(j).spec[x] \in Miners
               /\ Has(Current(j).result, x) => Current(j).result[x] = Current(j).spec[x]
<1> USE DEF IInv, BaseInv
<1>1. cur[j] \in Dispatches /\ cur[j] # 0 /\ timer[j][d][s].miner \in Miners
  BY TimerHasJob
<1>2. Current(j) = obj[j][cur[j]] /\ Current(j) \in JobRec
  BY <1>1, CurrentType
<1>3. \A x \in Shards :
         /\ Current(j).sstat[x] = "offered" => Current(j).spec[x] \in Miners
         /\ Has(Current(j).result, x) => Current(j).result[x] = Current(j).spec[x]
  BY <1>1, <1>2 DEF OfferedInv, ResultFromAssignee
<1>4. timer[j][d][s] \in TimerRec
  BY EntryTypes
<1> QED
  BY <1>1, <1>2, <1>3, <1>4

(* A timer that ends or moves on without changing its miner, while the     *)
(* current job keeps its miners and its results.                           *)
LEMMA TimerStepInv ==
  ASSUME IInv, NEW j \in Jobs, NEW d \in Dispatches, NEW s \in Shards,
         timer[j][d][s].kind # "none",
         NEW N \in TimerRec, timer' = WithTimer(j, d, s, N),
         N.kind # "none" => N.miner = timer[j][d][s].miner,
         NEW R \in JobRec, obj' = WithJob(j, R),
         R.spec = Current(j).spec, R.result = Current(j).result,
         Current(j).status = "complete" => R.status = "complete",
         \A x \in Shards : R.sstat[x] = "offered" => Current(j).sstat[x] = "offered",
         task' = task, cur' = cur, chain' = chain, answers' = answers,
         offers' \subseteq Addressed,
         mempool' = mempool \/ mempool' = mempool \cup {SlashTx(j, s, timer[j][d][s].miner)}
  PROVE  IInv'
<1>1. /\ cur[j] # 0
      /\ timer[j][d][s].miner \in Miners
      /\ \A x \in Shards :
            /\ Current(j).sstat[x] = "offered" => Current(j).spec[x] \in Miners
            /\ Has(Current(j).result, x) => Current(j).result[x] = Current(j).spec[x]
  BY TimerCurrent
<1>2. /\ timer' \in [Jobs -> [Dispatches -> [Shards -> TimerRec]]]
      /\ timer'[j][d][s] = N
      /\ \A k \in Jobs, e \in Dispatches, x \in Shards :
            k # j \/ e # d \/ x # s => timer'[k][e][x] = timer[k][e][x]
  BY TimerUpdate DEF IInv, BaseInv
<1>3. \A k \in Jobs, e \in Dispatches, x \in Shards : timer'[k][e][x].kind # "none" =>
         timer[k][e][x].kind # "none" /\ timer'[k][e][x].miner = timer[k][e][x].miner
  BY <1>2
<1>4. \A x \in Shards : /\ R.sstat[x] = "offered" => R.spec[x] \in Miners
                        /\ Has(R.result, x) => R.result[x] = R.spec[x]
  BY <1>1
<1>5. SlashTx(j, s, timer[j][d][s].miner) \in Slashes
  <2>1. <<j, s, timer[j][d][s].miner>> \in Addressed
    BY <1>1 DEF Addressed
  <2> QED
    BY <2>1 DEF Slashes, SlashTx
<1>6. /\ mempool' \subseteq Posts \cup Commits \cup Histories \cup Slashes
      /\ answers' \subseteq Addressed
  BY <1>5 DEF IInv, BaseInv, TypeOK
<1>7. /\ BaseInv' /\ AssigneeInv'
      /\ \A k \in Jobs, e \in Dispatches : obj[k][e].status = "complete" =>
            obj'[k][e].status = "complete" /\ obj'[k][e].result = obj[k][e].result
      /\ \A k \in Jobs : OnceDispatched(k)' <=> OnceDispatched(k)
  BY <1>1, <1>2, <1>3, <1>4, <1>6, KeepJobInv
<1>8. \A k \in Jobs, x \in Shards, m \in Miners :
         CommitTx(k, x, m) \in mempool' => CommitTx(k, x, m) \in mempool
  BY DEF CommitTx, SlashTx
<1>9. CommitsAreOfAssembledJobs' /\ PaidInv'
  BY <1>7, <1>8, LedgerInv
<1> QED
  BY <1>7, <1>9 DEF IInv

LEMMA SameJob ==
  ASSUME IInv, NEW j \in Jobs, cur[j] # 0, obj' = obj
  PROVE  obj' = WithJob(j, Current(j))
<1> DEFINE c == cur[j]
<1>1. c \in Dispatches /\ Current(j) = obj[j][c]
  BY CurrentType DEF IInv, BaseInv
<1>2. obj \in [Jobs -> [Dispatches -> JobRec]]
  BY DEF IInv, BaseInv, TypeOK
<1> HIDE DEF c
<1>3. [obj[j] EXCEPT ![c] = obj[j][c]] = obj[j]
  BY <1>1, <1>2
<1>4. [obj EXCEPT ![j][c] = obj[j][c]] = obj
  BY <1>2, <1>3
<1> QED
  BY <1>1, <1>4 DEF WithJob, WithObj, c

LEMMA NoTimerType == NoTimer \in TimerRec /\ NoTimer.kind = "none"
  BY DEF NoTimer, TimerRec, TimerKinds, MinerOrNone

LEMMA MovedTimer ==
  ASSUME NEW T \in TimerRec, NEW k \in TimerKinds
  PROVE  /\ [T EXCEPT !.kind = k] \in TimerRec
         /\ [T EXCEPT !.kind = k].miner = T.miner
         /\ [T EXCEPT !.kind = k, !.tracked = TRUE] \in TimerRec
         /\ [T EXCEPT !.kind = k, !.tracked = TRUE].miner = T.miner
  BY DEF TimerRec

LEMMA TimerEndsInv ==
  ASSUME IInv, NEW j \in Jobs, NEW d \in Dispatches, NEW s \in Shards,
         TimerEnds(j, d, s) \/ BroadcastDone(j, d, s)
  PROVE  IInv'
<1>1. /\ timer[j][d][s].kind # "none"
      /\ UNCHANGED <<mempool, chain, task, obj, cur, offers, answers>>
  BY DEF TimerEnds, BroadcastDone, network
<1>2. /\ cur[j] # 0 /\ Current(j) \in JobRec /\ timer[j][d][s] \in TimerRec
  BY <1>1, TimerCurrent
<1>3. obj' = WithJob(j, Current(j))
  BY <1>1, <1>2, SameJob
<1>4. \E N \in TimerRec : /\ timer' = WithTimer(j, d, s, N)
                          /\ N.kind # "none" => N.miner = timer[j][d][s].miner
  <2>1. CASE TimerEnds(j, d, s)
    BY <2>1, NoTimerType DEF TimerEnds, WithTimer
  <2>2. CASE BroadcastDone(j, d, s)
    <3> DEFINE N == [timer[j][d][s] EXCEPT !.kind = "result", !.tracked = TRUE]
    <3>1. N \in TimerRec /\ N.miner = timer[j][d][s].miner
      BY <1>2, MovedTimer DEF TimerKinds
    <3>2. timer' = WithTimer(j, d, s, N)
      BY <2>2 DEF BroadcastDone, WithTimer
    <3> QED
      BY <3>1, <3>2
  <2> QED
    BY <2>1, <2>2
<1>5. offers' \subseteq Addressed
  BY <1>1 DEF IInv, BaseInv, TypeOK
<1> QED
  BY <1>1, <1>2, <1>3, <1>4, <1>5, TimerStepInv

LEMMA OfferTimeoutInv ==
  ASSUME IInv, NEW j \in Jobs, NEW d \in Dispatches, NEW s \in Shards, OfferTimeout(j, d, s)
  PROVE  IInv'
<1> DEFINE R == [Current(j) EXCEPT !.sstat[s] = "timeout"]
<1>1. /\ timer[j][d][s].kind # "none"
      /\ UNCHANGED <<mempool, chain, task, cur, answers>>
      /\ Current(j).sstat[s] = "offered"
  BY DEF OfferTimeout
<1>2. /\ cur[j] # 0 /\ Current(j) \in JobRec /\ timer[j][d][s] \in TimerRec
      /\ Current(j).spec[s] \in Miners
  BY <1>1, TimerCurrent
<1>3. obj' = WithJob(j, R)
  BY DEF OfferTimeout, WithJob, WithObj, Current
<1>4. /\ R \in JobRec
      /\ R.spec = Current(j).spec /\ R.result = Current(j).result
      /\ R.status = Current(j).status
      /\ \A x \in Shards : R.sstat[x] = "offered" => Current(j).sstat[x] = "offered"
  BY <1>2 DEF JobRec, ShardStates
<1> HIDE DEF R
<1>5. \E N \in TimerRec : /\ timer' = WithTimer(j, d, s, N)
                          /\ N.kind # "none" => N.miner = timer[j][d][s].miner
  <2>1. CASE Current(j).status = "complete"
    <3> DEFINE N == [timer[j][d][s] EXCEPT !.kind = "result", !.tracked = TRUE]
    <3>1. N \in TimerRec /\ N.miner = timer[j][d][s].miner
      BY <1>2, MovedTimer DEF TimerKinds
    <3>2. timer' = WithTimer(j, d, s, N)
      BY <2>1 DEF OfferTimeout, WithTimer
    <3> QED
      BY <3>1, <3>2
  <2>2. CASE Current(j).status # "complete"
    <3> DEFINE N == [timer[j][d][s] EXCEPT !.kind = "resend"]
    <3>1. N \in TimerRec /\ N.miner = timer[j][d][s].miner
      BY <1>2, MovedTimer DEF TimerKinds
    <3>2. timer' = WithTimer(j, d, s, N)
      BY <2>2 DEF OfferTimeout, WithTimer
    <3> QED
      BY <3>1, <3>2
  <2> QED
    BY <2>1, <2>2
<1>6. offers' \subseteq Addressed
  <2>1. offers' = offers \/ offers' = offers \cup {<<j, s, Current(j).spec[s]>>}
    BY DEF OfferTimeout
  <2> QED
    BY <2>1, <1>2 DEF IInv, BaseInv, TypeOK, Addressed
<1> QED
  BY <1>1, <1>2, <1>3, <1>4, <1>5, <1>6, TimerStepInv

LEMMA ResultTimeoutEndsInv ==
  ASSUME IInv, NEW j \in Jobs, NEW d \in Dispatches, NEW s \in Shards,
         ResultTimeoutStops(j, d, s) \/ ResultTimeoutFails(j, d, s)
  PROVE  IInv'
<1>1. /\ timer[j][d][s].kind # "none"
      /\ UNCHANGED <<chain, task, cur, answers, offers>>
      /\ mempool' = mempool \cup {SlashTx(j, s, timer[j][d][s].miner)}
      /\ timer' = WithTimer(j, d, s, NoTimer)
  BY DEF ResultTimeoutStops, ResultTimeoutFails, TimesOut, WithTimer
<1>2. cur[j] # 0 /\ Current(j) \in JobRec
  BY <1>1, TimerCurrent
<1>3. \E R \in JobRec : /\ obj' = WithJob(j, R)
                        /\ R.spec = Current(j).spec /\ R.result = Current(j).result
                        /\ Current(j).status = "complete" => R.status = "complete"
                        /\ \A x \in Shards : R.sstat[x] = "offered" => Current(j).sstat[x] = "offered"
  <2>1. CASE ResultTimeoutStops(j, d, s)
    <3> DEFINE R == [Current(j) EXCEPT !.sstat[s] = "timeout"]
    <3>1. obj' = WithJob(j, R)
      BY <2>1 DEF ResultTimeoutStops, WithJob, WithObj, Current
    <3>2. /\ R \in JobRec /\ R.spec = Current(j).spec /\ R.result = Current(j).result
          /\ R.status = Current(j).status
          /\ \A x \in Shards : R.sstat[x] = "offered" => Current(j).sstat[x] = "offered"
      BY <1>2 DEF JobRec, ShardStates
    <3> QED
      BY <3>1, <3>2
  <2>2. CASE ResultTimeoutFails(j, d, s)
    <3> DEFINE R == [Current(j) EXCEPT !.sstat[s] = "timeout", !.status = "failed"]
    <3>1. obj' = WithJob(j, R) /\ Current(j).status # "complete"
      BY <2>2 DEF ResultTimeoutFails, WithJob, WithObj, Current
    <3>2. /\ R \in JobRec /\ R.spec = Current(j).spec /\ R.result = Current(j).result
          /\ \A x \in Shards : R.sstat[x] = "offered" => Current(j).sstat[x] = "offered"
      BY <1>2 DEF JobRec, ShardStates, JobStates
    <3> QED
      BY <3>1, <3>2
  <2> QED
    BY <2>1, <2>2
<1>4. offers' \subseteq Addressed
  BY <1>1 DEF IInv, BaseInv, TypeOK
<1> QED
  BY <1>1, <1>2, <1>3, <1>4, NoTimerType, TimerStepInv

LEMMA ResultTimeoutReassignsInv ==
  ASSUME IInv, NEW j \in Jobs, NEW d \in Dispatches, NEW s \in Shards,
         ResultTimeoutReassigns(j, d, s)
  PROVE  IInv'
<1>1. /\ timer[j][d][s].kind = "result"
      /\ ~ Has(Current(j).result, s)
      /\ Current(j).status # "complete"
      /\ UNCHANGED <<chain, task, cur, answers>>
      /\ mempool' = mempool \cup {SlashTx(j, s, timer[j][d][s].miner)}
  BY DEF ResultTimeoutReassigns, TimesOut
<1>2. PICK m \in Miners :
         /\ obj' = [obj EXCEPT ![j][cur[j]] = [@ EXCEPT !.spec[s] = m, !.sstat[s] = "offered"]]
         /\ offers' = offers \cup {<<j, s, m>>}
         /\ timer' = [timer EXCEPT ![j][d][s] = [@ EXCEPT !.kind = "reoffer", !.miner = m]]
  BY DEF ResultTimeoutReassigns, Fallbacks
<1>3. /\ cur[j] # 0 /\ cur[j] \in Dispatches
      /\ Current(j) = obj[j][cur[j]] /\ Current(j) \in JobRec
      /\ timer[j][d][s] \in TimerRec /\ timer[j][d][s].miner \in Miners
      /\ \A x \in Shards :
            /\ Current(j).sstat[x] = "offered" => Current(j).spec[x] \in Miners
            /\ Has(Current(j).result, x) => Current(j).result[x] = Current(j).spec[x]
  BY <1>1, TimerCurrent
<1> DEFINE R == [Current(j) EXCEPT !.spec[s] = m, !.sstat[s] = "offered"]
           N == [timer[j][d][s] EXCEPT !.kind = "reoffer", !.miner = m]
<1>4. obj' = WithJob(j, R) /\ timer' = WithTimer(j, d, s, N)
  BY <1>2 DEF WithJob, WithObj, WithTimer, Current
<1>5. /\ R \in JobRec
      /\ R.status = Current(j).status /\ R.result = Current(j).result
      /\ R.spec[s] = m /\ R.sstat[s] = "offered"
      /\ \A x \in Shards : x # s => /\ R.spec[x] = Current(j).spec[x]
                                    /\ R.sstat[x] = Current(j).sstat[x]
  BY <1>3 DEF JobRec, ShardStates, MinerOrNone
<1>6. N \in TimerRec /\ N.miner = m
  BY <1>3 DEF TimerRec, TimerKinds, MinerOrNone
<1> HIDE DEF R, N
<1>7. /\ timer' \in [Jobs -> [Dispatches -> [Shards -> TimerRec]]]
      /\ timer'[j][d][s] = N
      /\ \A k \in Jobs, e \in Dispatches, x \in Shards :
            k # j \/ e # d \/ x # s => timer'[k][e][x] = timer[k][e][x]
  BY <1>4, <1>6, TimerUpdate DEF IInv, BaseInv
<1>8. \A x \in Shards : /\ R.sstat[x] = "offered" => R.spec[x] \in Miners
                        /\ Has(R.result, x) => R.result[x] = R.spec[x]
  BY <1>1, <1>3, <1>5 DEF Has
<1>9. \A k \in Jobs, e \in Dispatches, x \in Shards : timer'[k][e][x].kind # "none" =>
         timer[k][e][x].kind # "none" /\ timer'[k][e][x].miner \in Miners
  BY <1>1, <1>6, <1>7 DEF IInv, BaseInv, TimerInv
<1>10. /\ offers' \subseteq Addressed /\ answers' \subseteq Addressed
       /\ mempool' \subseteq Posts \cup Commits \cup Histories \cup Slashes
  <2>1. <<j, s, timer[j][d][s].miner>> \in Addressed /\ <<j, s, m>> \in Addressed
    BY <1>3 DEF Addressed
  <2>2. SlashTx(j, s, timer[j][d][s].miner) \in Slashes
    BY <2>1 DEF Slashes, SlashTx
  <2> QED
    BY <2>1, <2>2, <1>1, <1>2 DEF IInv, BaseInv, TypeOK
<1>11. /\ BaseInv'
       /\ obj'[j][cur[j]] = R
       /\ \A k \in Jobs, e \in Dispatches : k # j \/ e # cur[j] => obj'[k][e] = obj[k][e]
  BY <1>1, <1>3, <1>4, <1>5, <1>7, <1>8, <1>9, <1>10, CurrentJobInv DEF IInv
<1>12. \A k \in Jobs : OnceDispatched(k)' <=> OnceDispatched(k)
  BY <1>1 DEF OnceDispatched
<1>13. AssigneeInv'
  <2> SUFFICES ASSUME NEW k \in Jobs, NEW x \in Shards, 1 \in Dispatches, OnceDispatched(k)
               PROVE  /\ timer'[k][1][x].kind # "none"
                            => timer'[k][1][x].miner = obj'[k][1].spec[x]
                      /\ task[k][1].pc = "offering" /\ x = task[k][1].next - 1
                            => task[k][1].to = obj'[k][1].spec[x]
    BY <1>1, <1>12 DEF AssigneeInv
  <2>1. /\ timer[k][1][x].kind # "none" => timer[k][1][x].miner = obj[k][1].spec[x]
        /\ task[k][1].pc = "offering" /\ x = task[k][1].next - 1
              => task[k][1].to = obj[k][1].spec[x]
    BY DEF IInv, AssigneeInv
  <2>2. CASE k = j /\ x = s
    <3>1. cur[j] = 1
      BY <2>2, <1>3, OnceCurrent DEF IInv
    <3>2. d = 1
      BY <2>2, <1>1, TimerHasJob DEF IInv, OnceDispatched
    <3>3. ~ (task[j][1].pc = "offering" /\ s = task[j][1].next - 1)
      <4> SUFFICES ASSUME task[j][1].pc = "offering", s = task[j][1].next - 1 PROVE FALSE
        OBVIOUS
      <4>1. TaskOK(j, 1)
        BY DEF IInv, BaseInv, TaskInv
      <4>2. s >= task[j][1].next - 1
        BY ShardsAssumption
      <4>3. timer[j][1][s].kind = "none"
        BY <4>1, <4>2 DEF TaskOK
      <4> QED
        BY <4>3, <3>2, <1>1
    <3> QED
      BY <2>2, <3>1, <3>2, <3>3, <1>5, <1>6, <1>7, <1>11
  <2>3. CASE ~ (k = j /\ x = s)
    <3>1. timer'[k][1][x] = timer[k][1][x]
      BY <2>3, <1>7
    <3>2. obj'[k][1].spec[x] = obj[k][1].spec[x]
      BY <2>3, <1>3, <1>5, <1>11
    <3> QED
      BY <2>1, <3>1, <3>2
  <2> QED
    BY <2>2, <2>3
<1>14. \A k \in Jobs, e \in Dispatches : obj[k][e].status = "complete" =>
          obj'[k][e].status = "complete" /\ obj'[k][e].result = obj[k][e].result
  BY <1>1, <1>3, <1>11
<1>15. \A k \in Jobs, x \in Shards, n \in Miners :
          CommitTx(k, x, n) \in mempool' => CommitTx(k, x, n) \in mempool
  BY <1>1 DEF CommitTx, SlashTx
<1>16. CommitsAreOfAssembledJobs' /\ PaidInv'
  BY <1>1, <1>12, <1>14, <1>15, LedgerInv
<1> QED
  BY <1>11, <1>13, <1>16 DEF IInv
-----------------------------------------------------------------------------
LEMMA StutterInv == IInv /\ UNCHANGED vars => IInv'
  BY DEF vars, IInv, BaseInv, TypeOK, TaskInv, TaskOK, TimerInv, OfferedInv,
         ResultFromAssignee, AssigneeInv, CommitsAreOfAssembledJobs, PaidInv, OnceDispatched

LEMMA NextInv == IInv /\ [Next]_vars => IInv'
<1> SUFFICES ASSUME IInv, [Next]_vars PROVE IInv'
  OBVIOUS
<1>1. CASE ProduceBlock
  BY <1>1, ProduceBlockInv
<1>2. CASE PeerConnected
  BY <1>2, PeerConnectedInv
<1>3. ASSUME NEW j \in Jobs, PostJob(j) PROVE IInv'
  BY <1>3, PostJobInv
<1>4. ASSUME NEW j \in Jobs, NEW d \in Dispatches, DispatchStep(j, d) PROVE IInv'
  BY <1>4, DispatchFailsInv, DispatchJobInv, OfferShardInv DEF DispatchStep
<1>5. ASSUME NEW j \in Jobs, NEW s \in Shards, NEW m \in Miners,
             MinerAnswers(j, s, m) \/ OnShardResult(j, s, m)
      PROVE  IInv'
  BY <1>5, NetworkInv, ResultRecordedInv, ResultCompletesInv DEF OnShardResult
<1>6. ASSUME NEW j \in Jobs, NEW d \in Dispatches, NEW s \in Shards, TimerStep(j, d, s)
      PROVE  IInv'
  BY <1>6, OfferTimeoutInv, TimerEndsInv, ResultTimeoutEndsInv, ResultTimeoutReassignsInv
     DEF TimerStep, TimerFires, ResultTimeout
<1>7. CASE UNCHANGED vars
  BY <1>7, StutterInv
<1> QED
  BY <1>1, <1>2, <1>3, <1>4, <1>5, <1>6, <1>7 DEF Next

(* The strengthened invariant holds in every reachable state. *)
THEOREM Invariant == Spec => []IInv
  BY InitInv, NextInv, PTL DEF Spec

(* Every variable keeps its type: TypeOK of the runs, for any constants.   *)
THEOREM TypeCorrect == Spec => []TypeOK
<1>1. IInv => TypeOK
  BY DEF IInv, BaseInv
<1> QED
  BY <1>1, Invariant, PTL

(* on_shard_result never keeps the result of a miner the shard is not      *)
(* assigned to, whatever time-outs reassigned the shard in the meantime.   *)
THEOREM ResultsAreTheAssignees == Spec => []ResultFromAssignee
<1>1. IInv => ResultFromAssignee
  BY DEF IInv, BaseInv
<1> QED
  BY <1>1, Invariant, PTL

(* Only results that were delivered to an assembled dispatch reach the     *)
(* pool and the chain as SHARD_COMMITs.                                    *)
THEOREM CommitsAreDelivered == Spec => []CommitsAreOfAssembledJobs
<1>1. IInv => CommitsAreOfAssembledJobs
  BY DEF IInv
<1> QED
  BY <1>1, Invariant, PTL

(* A shard of a job that is dispatched once is paid at most once.          *)
THEOREM PaidAtMostOnce == Spec => []PaidOnce
<1>1. IInv => PaidOnce
  BY DEF IInv, PaidInv, PaidOnce
<1> QED
  BY <1>1, Invariant, PTL
-----------------------------------------------------------------------------
\* What a step may do to the job objects.
Changes(j, d) ==
    \A k \in Jobs, e \in Dispatches : k # j \/ e # d => obj'[k][e] = obj[k][e]

\* A dispatch changes the object it is about to register, which is blank.
LEMMA DispatchStepObj ==
  ASSUME IInv, NEW j \in Jobs, NEW d \in Dispatches, DispatchStep(j, d)
  PROVE  obj' = obj \/ (Changes(j, d) /\ obj[j][d].status # "complete")
<1>1. CASE OfferShard(j, d)
  BY <1>1 DEF OfferShard
<1>2. CASE DispatchFails(j, d) \/ DispatchJob(j, d)
  <2>1. task[j][d].pc = "ready"
    BY <1>2 DEF DispatchFails, DispatchJob
  <2>2. obj[j][d].status # "complete"
    BY <2>1 DEF IInv, BaseInv, TaskInv, TaskOK, BlankJob
  <2>3. \E R : obj' = [obj EXCEPT ![j][d] = R]
    BY <1>2 DEF DispatchFails, DispatchJob
  <2>4. Changes(j, d)
    BY <2>3 DEF Changes, IInv, BaseInv, TypeOK
  <2> QED
    BY <2>2, <2>4
<1> QED
  BY <1>1, <1>2 DEF DispatchStep

\* A result or a time-out changes the current object: of an assembled job,
\* the shard states only.
LEMMA CurrentStepObj ==
  ASSUME IInv, NEW j \in Jobs, cur[j] # 0, NEW s \in Shards, NEW d \in Dispatches,
         \/ \E m \in Miners : ResultRecorded(j, s, m) \/ ResultCompletes(j, s, m)
         \/ TimerFires(j, d, s)
  PROVE  /\ Changes(j, cur[j])
         /\ Current(j).status = "complete" =>
               /\ obj'[j][cur[j]].status = "complete"
               /\ obj'[j][cur[j]].spec = Current(j).spec
               /\ obj'[j][cur[j]].result = Current(j).result
<1> DEFINE c == cur[j]
<1>1. c \in Dispatches /\ Current(j) = obj[j][c] /\ Current(j) \in JobRec
  BY CurrentType DEF IInv, BaseInv
<1>2. \E R : /\ obj' = WithObj(j, c, R)
             /\ Current(j).status = "complete" =>
                   /\ R.status = "complete"
                   /\ R.spec = Current(j).spec
                   /\ R.result = Current(j).result
  <2>1. CASE OfferTimeout(j, d, s) \/ ResultTimeoutStops(j, d, s)
    <3> DEFINE R == [Current(j) EXCEPT !.sstat[s] = "timeout"]
    <3>1. obj' = WithObj(j, c, R)
      BY <2>1 DEF OfferTimeout, ResultTimeoutStops, WithObj, Current
    <3>2. R.status = Current(j).status /\ R.spec = Current(j).spec /\ R.result = Current(j).result
      BY <1>1 DEF JobRec
    <3> QED
      BY <3>1, <3>2
  <2>2. CASE \/ \E m \in Miners : ResultRecorded(j, s, m) \/ ResultCompletes(j, s, m)
             \/ ResultTimeoutFails(j, d, s)
             \/ ResultTimeoutReassigns(j, d, s)
    <3>1. Current(j).status # "complete"
      BY <2>2 DEF ResultRecorded, ResultCompletes, Accepts, ResultTimeoutFails,
                  ResultTimeoutReassigns
    <3>2. \E R : obj' = WithObj(j, c, R)
      BY <2>2 DEF ResultRecorded, ResultCompletes, ResultTimeoutFails, ResultTimeoutReassigns,
                  WithObj
    <3> QED
      BY <3>1, <3>2
  <2> QED
    BY <2>1, <2>2 DEF TimerFires, ResultTimeout
<1> HIDE DEF c
<1>3. PICK R : /\ obj' = WithObj(j, c, R)
               /\ Current(j).status = "complete" =>
                     /\ R.status = "complete"
                     /\ R.spec = Current(j).spec
                     /\ R.result = Current(j).result
  BY <1>2
<1>4. Changes(j, c) /\ obj'[j][c] = R
  BY <1>1, <1>3 DEF WithObj, Changes, IInv, BaseInv, TypeOK
<1> QED
  BY <1>3, <1>4 DEF c

\* The other steps leave the job objects alone.
LEMMA AssembledStep ==
  ASSUME IInv, [Next]_vars, NEW j \in Jobs, NEW d \in Dispatches, obj[j][d].status = "complete"
  PROVE  /\ obj'[j][d].status = "complete"
         /\ obj'[j][d].spec = obj[j][d].spec
         /\ obj'[j][d].result = obj[j][d].result
<1>1. CASE obj' = obj
  BY <1>1
<1>2. ASSUME NEW k \in Jobs, NEW e \in Dispatches, DispatchStep(k, e)
      PROVE  obj'[j][d] = obj[j][d]
  BY <1>2, DispatchStepObj DEF Changes
<1>3. ASSUME NEW k \in Jobs, NEW e \in Dispatches, NEW s \in Shards, cur[k] # 0,
             \/ \E m \in Miners : ResultRecorded(k, s, m) \/ ResultCompletes(k, s, m)
             \/ TimerFires(k, e, s)
      PROVE  /\ obj'[j][d].status = "complete"
             /\ obj'[j][d].spec = obj[j][d].spec
             /\ obj'[j][d].result = obj[j][d].result
  BY <1>3, CurrentStepObj DEF Changes, Current
<1>4. ASSUME NEW k \in Jobs, NEW e \in Dispatches, NEW s \in Shards, TimerStep(k, e, s)
      PROVE  obj' = obj \/ (cur[k] # 0 /\ TimerFires(k, e, s))
  <2>1. CASE TimerEnds(k, e, s) \/ BroadcastDone(k, e, s)
    BY <2>1 DEF TimerEnds, BroadcastDone
  <2>2. CASE TimerFires(k, e, s)
    <3>1. timer[k][e][s].kind # "none"
      BY <2>2 DEF TimerFires, ResultTimeout, OfferTimeout, ResultTimeoutStops,
                  ResultTimeoutFails, ResultTimeoutReassigns, TimesOut
    <3> QED
      BY <2>2, <3>1, TimerCurrent
  <2> QED
    BY <1>4, <2>1, <2>2 DEF TimerStep
<1>5. ASSUME NEW k \in Jobs, NEW s \in Shards, NEW m \in Miners,
             MinerAnswers(k, s, m) \/ OnShardResult(k, s, m)
      PROVE  \/ obj' = obj
             \/ cur[k] # 0 /\ (ResultRecorded(k, s, m) \/ ResultCompletes(k, s, m))
  BY <1>5 DEF MinerAnswers, OnShardResult, ResultIgnored, ResultRecorded, ResultCompletes,
              Accepts, protocol
<1>6. CASE ProduceBlock \/ PeerConnected \/ (\E k \in Jobs : PostJob(k)) \/ UNCHANGED vars
  BY <1>1, <1>6 DEF ProduceBlock, PeerConnected, PostJob, protocol, vars
<1> QED
  BY <1>1, <1>2, <1>3, <1>4, <1>5, <1>6, BoundAssumption DEF Next

(* An assembled job keeps its status, its miners and its results: the late *)
(* results and the timers that survive the assembly cannot reopen it.      *)
THEOREM AssembledStaysFinal == Spec => AssembledIsFinal
<1> DEFINE Kept == \A j \in Jobs, d \in Dispatches : obj[j][d].status = "complete" =>
                      /\ obj'[j][d].status = "complete"
                      /\ obj'[j][d].spec = obj[j][d].spec
                      /\ obj'[j][d].result = obj[j][d].result
<1>1. IInv /\ [Next]_vars => Kept
  BY AssembledStep
<1>2. Spec => [][Kept]_vars
  BY <1>1, Invariant, PTL DEF Spec
<1> QED
  BY <1>2 DEF AssembledIsFinal

(* A result time-out of a job that is dispatched once slashes the miner    *)
(* the shard is assigned to, and only while its result is missing.         *)
LEMMA SlashStep ==
  ASSUME IInv, [Next]_vars, NEW j \in Jobs, NEW s \in Shards, NEW m \in Miners,
         OnceDispatched(j), SlashTx(j, s, m) \in mempool' \ mempool
  PROVE  Current(j).spec[s] = m /\ ~ Has(Current(j).result, s)
<1>1. CASE \E k \in Jobs, d \in Dispatches, x \in Shards : TimesOut(k, d, x)
  <2>1. PICK k \in Jobs, d \in Dispatches, x \in Shards : TimesOut(k, d, x)
    BY <1>1
  <2>2. SlashTx(j, s, m) = SlashTx(k, x, timer[k][d][x].miner)
    BY <2>1 DEF TimesOut
  <2>3. k = j /\ x = s /\ timer[j][d][s].miner = m
    BY <2>2 DEF SlashTx
  <2>4. timer[j][d][s].kind # "none" /\ ~ Has(Current(j).result, s)
    BY <2>1, <2>3 DEF TimesOut
  <2>5. task[j][d].pc \in {"offering", "done"} /\ cur[j] # 0
    BY <2>4, TimerHasJob DEF IInv
  <2>6. d = 1 /\ cur[j] = 1
    BY <2>5, OnceCurrent DEF IInv, OnceDispatched
  <2> QED
    BY <2>3, <2>4, <2>6 DEF IInv, AssigneeInv, Current
<1>2. ASSUME NEW k \in Jobs, NEW x \in Shards, NEW n \in Miners, ResultCompletes(k, x, n)
      PROVE  FALSE
  <2>1. SlashTx(j, s, m) \in AssembledTxs(k, WithResult(k, x, n))
    BY <1>2 DEF ResultCompletes
  <2> QED
    BY <2>1 DEF AssembledTxs, SlashTx, CommitTx, HistoryTx
<1>3. ASSUME NEW k \in Jobs, PostJob(k) PROVE FALSE
  BY <1>3 DEF PostJob, SlashTx, PostTx
<1>4. mempool' # mempool /\ ~ ProduceBlock
  BY DEF ProduceBlock
<1>5. ASSUME NEW k \in Jobs, NEW d \in Dispatches, DispatchStep(k, d) PROVE FALSE
  BY <1>4, <1>5 DEF DispatchStep, DispatchFails, DispatchJob, OfferShard
<1>6. ASSUME NEW k \in Jobs, NEW x \in Shards, NEW n \in Miners,
             MinerAnswers(k, x, n) \/ ResultIgnored(k, x, n) \/ ResultRecorded(k, x, n)
      PROVE  FALSE
  BY <1>4, <1>6 DEF MinerAnswers, ResultIgnored, ResultRecorded
<1>7. ASSUME NEW k \in Jobs, NEW d \in Dispatches, NEW x \in Shards, TimerStep(k, d, x)
      PROVE  TimesOut(k, d, x)
  BY <1>4, <1>7 DEF TimerStep, TimerFires, TimerEnds, BroadcastDone, OfferTimeout,
                    ResultTimeout, ResultTimeoutStops, ResultTimeoutFails, ResultTimeoutReassigns
<1>8. ~ PeerConnected /\ ~ UNCHANGED vars
  BY <1>4 DEF PeerConnected, vars
<1> QED
  BY <1>1, <1>2, <1>3, <1>4, <1>5, <1>6, <1>7, <1>8 DEF Next, OnShardResult

(* The action property SlashesTheAssignee, for any constants.              *)
THEOREM TimeoutsSlashTheAssignee == Spec => SlashesTheAssignee
<1> DEFINE Just == \A j \in Jobs, s \in Shards, m \in Miners :
                     OnceDispatched(j) /\ SlashTx(j, s, m) \in mempool' \ mempool =>
                        Current(j).spec[s] = m /\ ~ Has(Current(j).result, s)
<1>1. IInv /\ [Next]_vars => Just
  BY SlashStep
<1>2. Spec => [][Just]_vars
  BY <1>1, Invariant, PTL DEF Spec
<1> QED
  BY <1>2 DEF SlashesTheAssignee
-----------------------------------------------------------------------------
\* The dispatches of j that were assembled with a result for s.
Assembled(j, s) == {d \in Dispatches : obj[j][d].status = "complete" /\ Has(obj[j][d].result, s)}

\* The miners whose commit for the shard is in the pool.
Paying(j, s) == {m \in Miners : CommitTx(j, s, m) \in mempool}

\* What a result map may become in a step that assembles nothing.
ResultMoves(j, d) ==
    \/ obj'[j][d].result = obj[j][d].result
    \/ obj'[j][d].result = BlankJob.result
    \/ \E s \in Shards, m \in Miners :
          /\ obj'[j][d].result = [obj[j][d].result EXCEPT ![s] = m]
          /\ ~ Ready(j, obj[j][d].spec, obj'[j][d].result)

(* A step that neither is a block nor assembles a job.                     *)
Quiet ==
    /\ chain' = chain
    /\ \A j \in Jobs, s \in Shards : Paying(j, s)' = Paying(j, s)
    /\ \A j \in Jobs : PostTx(j) \in mempool' => PostTx(j) \in mempool \/ chain[j].status = "none"
    /\ \A j \in Jobs, d \in Dispatches :
          /\ obj'[j][d].status = "complete" => obj[j][d].status = "complete"
          /\ ResultMoves(j, d)
          /\ task'[j][d].pc # "idle" =>
                task[j][d].pc # "idle" \/ chain[j].status = "pending"

\* Slashes, posts and histories are not commits.
LEMMA NoNewCommit ==
  ASSUME NEW X, mempool' = mempool \cup X,
         \A t \in X : \/ \E j, s, m : t = SlashTx(j, s, m)
                      \/ \E j : t = PostTx(j) /\ chain[j].status = "none"
  PROVE  /\ \A j \in Jobs, s \in Shards : Paying(j, s)' = Paying(j, s)
         /\ \A j \in Jobs : PostTx(j) \in mempool' =>
               PostTx(j) \in mempool \/ chain[j].status = "none"
<1>1. \A j \in Jobs, s \in Shards, m \in Miners :
         CommitTx(j, s, m) \in mempool' <=> CommitTx(j, s, m) \in mempool
  BY DEF CommitTx, SlashTx, PostTx
<1>2. \A j \in Jobs : PostTx(j) \in mempool' => PostTx(j) \in mempool \/ chain[j].status = "none"
  BY DEF SlashTx, PostTx
<1> QED
  BY <1>1, <1>2 DEF Paying

LEMMA PoolKept ==
  ASSUME mempool' = mempool
  PROVE  /\ \A j \in Jobs, s \in Shards : Paying(j, s)' = Paying(j, s)
         /\ \A j \in Jobs : PostTx(j) \in mempool' =>
               PostTx(j) \in mempool \/ chain[j].status = "none"
BY DEF Paying

\* The obj and task of a quiet step, when one object is replaced.
LEMMA ObjMoves ==
  ASSUME TypeOK, NEW j \in Jobs, NEW c \in Dispatches, NEW R,
         obj' = WithObj(j, c, R),
         R.status = "complete" => obj[j][c].status = "complete",
         \/ R.result = obj[j][c].result
         \/ R.result = BlankJob.result
         \/ \E s \in Shards, m \in Miners :
               /\ R.result = [obj[j][c].result EXCEPT ![s] = m]
               /\ ~ Ready(j, obj[j][c].spec, R.result)
  PROVE  \A k \in Jobs, d \in Dispatches :
            /\ obj'[k][d].status = "complete" => obj[k][d].status = "complete"
            /\ ResultMoves(k, d)
<1> SUFFICES ASSUME NEW k \in Jobs, NEW d \in Dispatches
             PROVE  /\ obj'[k][d].status = "complete" => obj[k][d].status = "complete"
                    /\ ResultMoves(k, d)
  OBVIOUS
<1>1. CASE k = j /\ d = c
  <2>1. obj'[k][d] = R
    BY <1>1 DEF WithObj, TypeOK
  <2> QED
    BY <1>1, <2>1 DEF ResultMoves
<1>2. CASE ~ (k = j /\ d = c)
  <2>1. obj'[k][d] = obj[k][d]
    BY <1>2 DEF WithObj, TypeOK
  <2> QED
    BY <2>1 DEF ResultMoves
<1> QED
  BY <1>1, <1>2

LEMMA ObjKept ==
  ASSUME obj' = obj
  PROVE  \A k \in Jobs, d \in Dispatches :
            /\ obj'[k][d].status = "complete" => obj[k][d].status = "complete"
            /\ ResultMoves(k, d)
BY DEF ResultMoves

LEMMA DispatchIsQuiet ==
  ASSUME IInv, NEW j \in Jobs, NEW d \in Dispatches, DispatchStep(j, d)
  PROVE  Quiet
<1> USE DEF IInv, BaseInv
<1>1. chain' = chain /\ mempool' = mempool
  BY DEF DispatchStep, DispatchFails, DispatchJob, OfferShard, network
<1>2. task[j][d].pc # "idle"
  BY DEF DispatchStep, DispatchFails, DispatchJob, OfferShard
<1>3. \A k \in Jobs, e \in Dispatches : k # j \/ e # d => task'[k][e] = task[k][e]
  <2>1. \E T : task' = [task EXCEPT ![j][d] = T]
    BY DEF DispatchStep, DispatchFails, DispatchJob, OfferShard
  <2> QED
    BY <2>1 DEF TypeOK
<1>4. \A k \in Jobs, e \in Dispatches :
         /\ obj'[k][e].status = "complete" => obj[k][e].status = "complete"
         /\ ResultMoves(k, e)
  <2>1. CASE OfferShard(j, d)
    BY <2>1, ObjKept DEF OfferShard
  <2>2. CASE DispatchFails(j, d)
    <3> DEFINE R == [BlankJob EXCEPT !.status = "failed"]
    <3>1. obj' = WithObj(j, d, R) /\ R.status # "complete" /\ R.result = BlankJob.result
      BY <2>2 DEF DispatchFails, WithObj, BlankJob
    <3> HIDE DEF R
    <3> QED
      BY <3>1, ObjMoves
  <2>3. CASE DispatchJob(j, d)
    <3>1. \E R : /\ obj' = WithObj(j, d, R)
                 /\ R.status # "complete" /\ R.result = BlankJob.result
      <4>1. PICK f :
               obj' = [obj EXCEPT ![j][d] =
                         [status |-> "pending",
                          spec   |-> [s \in Shards |-> IF s \in DOMAIN f THEN f[s] ELSE NoMiner],
                          result |-> BlankJob.result,
                          sstat  |-> [s \in Shards |->
                                        IF s \in DOMAIN f THEN "offered" ELSE "unassigned"]]]
        BY <2>3 DEF DispatchJob
      <4> DEFINE R == [status |-> "pending",
                       spec   |-> [s \in Shards |-> IF s \in DOMAIN f THEN f[s] ELSE NoMiner],
                       result |-> BlankJob.result,
                       sstat  |-> [s \in Shards |->
                                     IF s \in DOMAIN f THEN "offered" ELSE "unassigned"]]
      <4>2. R.status # "complete" /\ R.result = BlankJob.result
        OBVIOUS
      <4>3. obj' = WithObj(j, d, R)
        BY <4>1 DEF WithObj
      <4> QED
        BY <4>2, <4>3
    <3>2. PICK R : /\ obj' = WithObj(j, d, R)
                   /\ R.status # "complete" /\ R.result = BlankJob.result
      BY <3>1
    <3> QED
      BY <3>2, ObjMoves
  <2> QED
    BY <2>1, <2>2, <2>3 DEF DispatchStep
<1> QED
  BY <1>1, <1>2, <1>3, <1>4, PoolKept DEF Quiet

LEMMA TimerIsQuiet ==
  ASSUME IInv, NEW j \in Jobs, NEW d \in Dispatches, NEW s \in Shards, TimerStep(j, d, s)
  PROVE  Quiet
<1> USE DEF IInv, BaseInv
<1>1. chain' = chain /\ task' = task
  BY DEF TimerStep, TimerFires, ResultTimeout, OfferTimeout, ResultTimeoutStops, TimesOut,
         ResultTimeoutFails, ResultTimeoutReassigns, TimerEnds, BroadcastDone
<1>2. CASE TimerEnds(j, d, s) \/ BroadcastDone(j, d, s)
  <2>1. obj' = obj /\ mempool' = mempool
    BY <1>2 DEF TimerEnds, BroadcastDone
  <2> QED
    BY <1>1, <2>1, ObjKept, PoolKept DEF Quiet
<1>3. CASE TimerFires(j, d, s)
  <2>1. timer[j][d][s].kind # "none"
    BY <1>3 DEF TimerFires, ResultTimeout, OfferTimeout, ResultTimeoutStops,
                ResultTimeoutFails, ResultTimeoutReassigns, TimesOut
  <2>2. /\ cur[j] \in Dispatches /\ Current(j) = obj[j][cur[j]] /\ Current(j) \in JobRec
    BY <2>1, TimerCurrent
  <2>3. \E R : /\ obj' = WithObj(j, cur[j], R)
               /\ R.status = "complete" => Current(j).status = "complete"
               /\ R.result = Current(j).result
    <3>1. CASE OfferTimeout(j, d, s) \/ ResultTimeoutStops(j, d, s)
      <4> DEFINE R == [Current(j) EXCEPT !.sstat[s] = "timeout"]
      <4>1. obj' = WithObj(j, cur[j], R)
        BY <3>1 DEF OfferTimeout, ResultTimeoutStops, WithObj, Current
      <4> QED
        BY <2>2, <4>1 DEF JobRec
    <3>2. CASE ResultTimeoutFails(j, d, s)
      <4> DEFINE R == [Current(j) EXCEPT !.sstat[s] = "timeout", !.status = "failed"]
      <4>1. obj' = WithObj(j, cur[j], R)
        BY <3>2 DEF ResultTimeoutFails, WithObj, Current
      <4>2. R.status = "failed" /\ R.result = Current(j).result
        BY <2>2 DEF JobRec
      <4> QED
        BY <4>1, <4>2
    <3>3. CASE ResultTimeoutReassigns(j, d, s)
      <4>1. PICK m : obj' = [obj EXCEPT ![j][cur[j]] =
                                [@ EXCEPT !.spec[s] = m, !.sstat[s] = "offered"]]
        BY <3>3 DEF ResultTimeoutReassigns
      <4> DEFINE R == [Current(j) EXCEPT !.spec[s] = m, !.sstat[s] = "offered"]
      <4>2. obj' = WithObj(j, cur[j], R)
        BY <4>1 DEF WithObj, Current
      <4>3. R.status = Current(j).status /\ R.result = Current(j).result
        BY <2>2 DEF JobRec
      <4> QED
        BY <4>2, <4>3
    <3> QED
      BY <1>3, <3>1, <3>2, <3>3 DEF TimerFires, ResultTimeout
  <2>4. \A k \in Jobs, e \in Dispatches :
           /\ obj'[k][e].status = "complete" => obj[k][e].status = "complete"
           /\ ResultMoves(k, e)
    BY <2>2, <2>3, ObjMoves
  <2>5. \/ mempool' = mempool
        \/ mempool' = mempool \cup {SlashTx(j, s, timer[j][d][s].miner)}
    BY <1>3 DEF TimerFires, ResultTimeout, OfferTimeout, ResultTimeoutStops,
                ResultTimeoutFails, ResultTimeoutReassigns, TimesOut
  <2>6. /\ \A k \in Jobs, x \in Shards : Paying(k, x)' = Paying(k, x)
        /\ \A k \in Jobs : PostTx(k) \in mempool' =>
              PostTx(k) \in mempool \/ chain[k].status = "none"
    BY <2>5, PoolKept, NoNewCommit
  <2> QED
    BY <1>1, <2>4, <2>6 DEF Quiet
<1> QED
  BY <1>2, <1>3 DEF TimerStep

LEMMA RecordedIsQuiet ==
  ASSUME IInv, NEW j \in Jobs, NEW s \in Shards, NEW m \in Miners, ResultRecorded(j, s, m)
  PROVE  Quiet
<1> USE DEF IInv, BaseInv
<1>1. UNCHANGED <<mempool, chain, task, cur>> /\ Accepts(j, s, m)
  BY DEF ResultRecorded
<1>2. /\ cur[j] \in Dispatches /\ Current(j) = obj[j][cur[j]] /\ Current(j) \in JobRec
  BY <1>1, AcceptedResult
<1> DEFINE R == [Current(j) EXCEPT !.result[s] = m, !.sstat[s] = "submitted"]
<1>3. obj' = WithObj(j, cur[j], R)
  BY DEF ResultRecorded, WithObj, Current
<1>4. R.status = Current(j).status /\ R.result = [Current(j).result EXCEPT ![s] = m]
  BY <1>2 DEF JobRec
<1>5. ~ Ready(j, Current(j).spec, [Current(j).result EXCEPT ![s] = m])
  BY DEF ResultRecorded, WithResult
<1> HIDE DEF R
<1>6. \A k \in Jobs, e \in Dispatches :
         /\ obj'[k][e].status = "complete" => obj[k][e].status = "complete"
         /\ ResultMoves(k, e)
  BY <1>2, <1>3, <1>4, <1>5, ObjMoves
<1> QED
  BY <1>1, <1>6, PoolKept DEF Quiet

(* Every step is a block, assembles a job, or is quiet.                    *)
LEMMA StepKinds ==
  ASSUME IInv, [Next]_vars
  PROVE  \/ ProduceBlock
         \/ \E j \in Jobs, s \in Shards, m \in Miners : ResultCompletes(j, s, m)
         \/ Quiet
<1>1. CASE PeerConnected
  <2>1. chain' = chain /\ mempool' = mempool /\ obj' = obj
    BY <1>1 DEF PeerConnected, protocol
  <2>2. ASSUME NEW k \in Jobs, NEW e \in Dispatches, task'[k][e].pc # "idle"
        PROVE  task[k][e].pc # "idle" \/ chain[k].status = "pending"
    <3>1. StartTasks({j \in Jobs : Lost(j)})
      BY <1>1 DEF PeerConnected
    <3>2. CASE Lost(k)
      BY <3>2 DEF Lost
    <3>3. CASE ~ Lost(k)
      <4>1. task'[k][e] = task[k][e]
        BY <3>1, <3>3 DEF StartTasks
      <4> QED
        BY <2>2, <4>1
    <3> QED
      BY <3>2, <3>3
  <2> QED
    BY <2>1, <2>2, ObjKept, PoolKept DEF Quiet
<1>2. ASSUME NEW j \in Jobs, PostJob(j) PROVE Quiet
  <2>1. chain' = chain /\ obj' = obj /\ task' = task
    BY <1>2 DEF PostJob, protocol
  <2>2. mempool' = mempool \cup {PostTx(j)} /\ chain[j].status = "none"
    BY <1>2 DEF PostJob
  <2>3. /\ \A k \in Jobs, s \in Shards : Paying(k, s)' = Paying(k, s)
        /\ \A k \in Jobs : PostTx(k) \in mempool' =>
              PostTx(k) \in mempool \/ chain[k].status = "none"
    BY <2>2, NoNewCommit
  <2> QED
    BY <2>1, <2>3, ObjKept DEF Quiet
<1>3. ASSUME NEW j \in Jobs, NEW s \in Shards, NEW m \in Miners,
             MinerAnswers(j, s, m) \/ ResultIgnored(j, s, m)
      PROVE  Quiet
  <2>1. chain' = chain /\ obj' = obj /\ task' = task /\ mempool' = mempool
    BY <1>3 DEF MinerAnswers, ResultIgnored, protocol
  <2> QED
    BY <2>1, ObjKept, PoolKept DEF Quiet
<1>4. CASE UNCHANGED vars
  <2>1. chain' = chain /\ obj' = obj /\ task' = task /\ mempool' = mempool
    BY <1>4 DEF vars
  <2> QED
    BY <2>1, ObjKept, PoolKept DEF Quiet
<1> QED
  BY <1>1, <1>2, <1>3, <1>4, DispatchIsQuiet, TimerIsQuiet, RecordedIsQuiet
     DEF Next, OnShardResult

-----------------------------------------------------------------------------
(* Assembling a job: its object gets the last result and becomes complete, *)
(* a commit for each result enters the pool.                               *)
Assembles(j, s, m) ==
    /\ UNCHANGED <<chain, task>>
    /\ cur[j] \in Dispatches /\ Current(j) = obj[j][cur[j]]
    /\ Current(j).status # "complete"
    /\ obj'[j][cur[j]].status = "complete"
    /\ obj'[j][cur[j]].result = WithResult(j, s, m)
    /\ \A x \in Shards : WithResult(j, s, m)[x] = IF x = s THEN m ELSE Current(j).result[x]
    /\ Ready(j, Current(j).spec, WithResult(j, s, m))
    /\ \A k \in Jobs, d \in Dispatches : k # j \/ d # cur[j] => obj'[k][d] = obj[k][d]
    /\ \A k \in Jobs : PostTx(k) \in mempool' => PostTx(k) \in mempool
    /\ \A k \in Jobs, x \in Shards : k # j \/ ~ Has(WithResult(j, s, m), x)
          => Paying(k, x)' = Paying(k, x)
    /\ \A x \in Shards : Has(WithResult(j, s, m), x)
          => Paying(j, x)' = Paying(j, x) \cup {WithResult(j, s, m)[x]}

LEMMA CompletesAssembles ==
  ASSUME IInv, NEW j \in Jobs, NEW s \in Shards, NEW m \in Miners, ResultCompletes(j, s, m)
  PROVE  Assembles(j, s, m)
<1> USE DEF IInv, BaseInv
<1> DEFINE W == WithResult(j, s, m)
           R == [Current(j) EXCEPT !.result[s] = m, !.sstat[s] = "submitted",
                                   !.status = "complete"]
<1>1. /\ UNCHANGED <<chain, task>> /\ Accepts(j, s, m)
      /\ Ready(j, Current(j).spec, W)
      /\ mempool' = mempool \cup AssembledTxs(j, W)
  BY DEF ResultCompletes
<1>2. /\ cur[j] \in Dispatches /\ Current(j) = obj[j][cur[j]] /\ Current(j) \in JobRec
      /\ Current(j).status # "complete"
  BY <1>1, AcceptedResult
<1>3. obj' = WithObj(j, cur[j], R)
  BY DEF ResultCompletes, WithObj, Current
<1>4. /\ R.status = "complete" /\ R.result = W
      /\ \A x \in Shards : /\ W[x] = IF x = s THEN m ELSE Current(j).result[x]
                           /\ Has(W, x) => W[x] \in Miners
  BY <1>2 DEF JobRec, WithResult, Has, MinerOrNone
<1> HIDE DEF R, W
<1>5. /\ obj'[j][cur[j]] = R
      /\ \A k \in Jobs, d \in Dispatches : k # j \/ d # cur[j] => obj'[k][d] = obj[k][d]
  BY <1>2, <1>3 DEF WithObj, TypeOK
<1>6. \A k \in Jobs : PostTx(k) \in mempool' => PostTx(k) \in mempool
  BY <1>1 DEF AssembledTxs, PostTx, CommitTx, HistoryTx
<1>7. ASSUME NEW k \in Jobs, NEW x \in Shards, NEW n \in Miners
      PROVE  CommitTx(k, x, n) \in mempool' <=>
                CommitTx(k, x, n) \in mempool \/ (k = j /\ Has(W, x) /\ n = W[x])
  <2>1. CommitTx(k, x, n) \in AssembledTxs(j, W) <=> (k = j /\ Has(W, x) /\ n = W[x])
    BY DEF AssembledTxs, CommitTx, HistoryTx
  <2> QED
    BY <1>1, <2>1
<1>8. \A k \in Jobs, x \in Shards : k # j \/ ~ Has(W, x) => Paying(k, x)' = Paying(k, x)
  BY <1>7 DEF Paying
<1>9. \A x \in Shards : Has(W, x) => Paying(j, x)' = Paying(j, x) \cup {W[x]}
  BY <1>4, <1>7 DEF Paying
<1> QED
  BY <1>1, <1>2, <1>4, <1>5, <1>6, <1>8, <1>9 DEF Assembles, W

\* What a block does to the job table.
LEMMA BlockFacts ==
  ASSUME IInv, ProduceBlock, NEW j \in Jobs
  PROVE  /\ chain'[j].status = StatusAfter(j)
         /\ chain'[j].results = ResultsAfter(j)
         /\ chain'[j].paid = PaidAfter(j)
         /\ obj' = obj /\ mempool' = {}
         /\ Committed(j)' = {} /\ \A s \in Shards : Paying(j, s)' = {}
  BY DEF ProduceBlock, protocol, Committed, Paying
-----------------------------------------------------------------------------
(* PaidPerAssembly is inductive: a block moves commits from the pool to    *)
(* what is paid, an assembly adds one commit for each result it counts.    *)
LEMMA PaidSum ==
  ASSUME NEW j \in Jobs, NEW s \in Shards
  PROVE  PaidAfter(j)[s] = chain[j].paid[s] + Cardinality(Paying(j, s))
  BY DEF PaidAfter, Paying

LEMMA CountTypes ==
  ASSUME TypeOK, NEW j \in Jobs, NEW s \in Shards
  PROVE  /\ IsFiniteSet(Paying(j, s)) /\ Cardinality(Paying(j, s)) \in Nat
         /\ IsFiniteSet(Assembled(j, s)) /\ Cardinality(Assembled(j, s)) \in Nat
         /\ chain[j].paid[s] \in Nat
<1>1. IsFiniteSet(Paying(j, s))
  BY MinersAssumption, FS_Subset DEF Paying
<1>2. IsFiniteSet(1 .. MaxDispatch)
  BY BoundAssumption, FS_Interval
<1>3. IsFiniteSet(Assembled(j, s))
  BY <1>2, FS_Subset DEF Assembled
<1>4. chain[j].paid[s] \in Nat
  BY DEF TypeOK, ChainRec
<1> QED
  BY <1>1, <1>3, <1>4, FS_CardinalityType

LEMMA AddedAtMostOne ==
  ASSUME NEW S, NEW e, IsFiniteSet(S)
  PROVE  Cardinality(S \cup {e}) \in Nat /\ Cardinality(S \cup {e}) <= Cardinality(S) + 1
<1>1. Cardinality(S) \in Nat
  BY FS_CardinalityType
<1>2. CASE e \in S
  <2>1. S \cup {e} = S
    BY <1>2
  <2>2. Cardinality(S \cup {e}) = Cardinality(S)
    BY <2>1, Zenon
  <2> QED
    BY <1>1, <2>2
<1>3. CASE e \notin S
  BY <1>1, <1>3, FS_AddElement
<1> QED
  BY <1>2, <1>3

PaidFor(j, s) == chain[j].paid[s] + Cardinality(Paying(j, s)) <= Cardinality(Assembled(j, s))
PaidForInv == \A j \in Jobs, s \in Shards : PaidFor(j, s)

LEMMA QuietAssembled ==
  ASSUME IInv, [Next]_vars, Quiet, NEW j \in Jobs, NEW s \in Shards
  PROVE  Assembled(j, s)' = Assembled(j, s)
  BY AssembledStep DEF Quiet, Assembled, Has

LEMMA PaidForStep ==
  ASSUME IInv, IInv', PaidForInv, [Next]_vars
  PROVE  PaidForInv'
<1> SUFFICES ASSUME NEW k \in Jobs, NEW x \in Shards PROVE PaidFor(k, x)'
  BY DEF PaidForInv
<1>1. PaidFor(k, x)
  BY DEF PaidForInv
<1>2. /\ IsFiniteSet(Paying(k, x)) /\ Cardinality(Paying(k, x)) \in Nat
      /\ IsFiniteSet(Assembled(k, x)) /\ Cardinality(Assembled(k, x)) \in Nat
      /\ chain[k].paid[x] \in Nat
  BY CountTypes DEF IInv, BaseInv
<1>3. IsFiniteSet(Assembled(k, x)') /\ Cardinality(Assembled(k, x)') \in Nat
  <2>1. IsFiniteSet(1 .. MaxDispatch)
    BY BoundAssumption, FS_Interval
  <2>2. IsFiniteSet(Assembled(k, x)')
    BY <2>1, FS_Subset DEF Assembled
  <2> QED
    BY <2>2, FS_CardinalityType
<1>4. CASE ProduceBlock
  <2>1. /\ chain'[k].paid[x] = chain[k].paid[x] + Cardinality(Paying(k, x))
        /\ Paying(k, x)' = {}
    BY <1>4, BlockFacts, PaidSum
  <2>2. Assembled(k, x)' = Assembled(k, x)
    BY <1>4, BlockFacts DEF Assembled
  <2>3. Cardinality(Paying(k, x)') = 0
    BY <2>1, FS_EmptySet
  <2> QED
    BY <1>1, <1>2, <2>1, <2>2, <2>3 DEF PaidFor
<1>5. CASE Quiet
  <2>1. chain' = chain /\ Paying(k, x)' = Paying(k, x)
    BY <1>5 DEF Quiet
  <2>2. Assembled(k, x)' = Assembled(k, x)
    BY <1>5, QuietAssembled
  <2> QED
    BY <1>1, <2>1, <2>2 DEF PaidFor
<1>6. ASSUME NEW j \in Jobs, NEW s \in Shards, NEW m \in Miners, Assembles(j, s, m)
      PROVE  PaidFor(k, x)'
  <2> DEFINE W == WithResult(j, s, m)
  <2>0. chain' = chain /\ cur[j] \in Dispatches
    BY <1>6 DEF Assembles
  <2>1. CASE k # j
    <3>1. Paying(k, x)' = Paying(k, x) /\ \A d \in Dispatches : obj'[k][d] = obj[k][d]
      BY <1>6, <2>1 DEF Assembles
    <3>2. Assembled(k, x)' = Assembled(k, x)
      BY <3>1 DEF Assembled
    <3> QED
      BY <1>1, <2>0, <3>1, <3>2 DEF PaidFor
  <2>2. CASE k = j /\ ~ Has(W, x)
    <3>1. Paying(k, x)' = Paying(k, x)
      BY <1>6, <2>2 DEF Assembles
    <3>2. cur[j] \notin Assembled(k, x)
      BY <1>6, <2>2 DEF Assembles, Assembled
    <3>3. Assembled(k, x)' = Assembled(k, x)
      BY <1>6, <2>2, <3>2 DEF Assembles, Assembled
    <3> QED
      BY <1>1, <2>0, <3>1, <3>3 DEF PaidFor
  <2>3. CASE k = j /\ Has(W, x)
    <3>1. Paying(k, x)' = Paying(k, x) \cup {W[x]}
      BY <1>6, <2>3 DEF Assembles
    <3>2. cur[j] \notin Assembled(k, x)
      BY <1>6, <2>3 DEF Assembles, Assembled
    <3>3. Assembled(k, x)' = Assembled(k, x) \cup {cur[j]}
      BY <1>6, <2>0, <2>3, <3>2 DEF Assembles, Assembled
    <3>4. Cardinality(Assembled(k, x)') = Cardinality(Assembled(k, x)) + 1
      BY <1>2, <3>2, <3>3, FS_AddElement
    <3>5. /\ Cardinality(Paying(k, x) \cup {W[x]}) <= Cardinality(Paying(k, x)) + 1
          /\ Cardinality(Paying(k, x) \cup {W[x]}) \in Nat
      BY <1>2, AddedAtMostOne
    <3> QED
      BY <1>1, <1>2, <2>0, <3>1, <3>4, <3>5 DEF PaidFor
  <2> QED
    BY <2>1, <2>2, <2>3
<1> QED
  BY <1>4, <1>5, <1>6, StepKinds, CompletesAssembles

(* A shard is never paid, nor about to be, more often than dispatches of   *)
(* its job were assembled with a result for it, for any number of them.    *)
THEOREM PaidPerAssemblyHolds == Spec => []PaidPerAssembly
<1>1. Init => PaidForInv
  <2> SUFFICES ASSUME Init, NEW j \in Jobs, NEW s \in Shards PROVE PaidFor(j, s)
    BY DEF PaidForInv
  <2>1. chain[j].paid[s] = 0 /\ Paying(j, s) = {} /\ Assembled(j, s) = {}
    BY DEF Init, NewChainJob, Paying, Assembled, BlankJob
  <2> QED
    BY <2>1, FS_EmptySet DEF PaidFor
<1>2. IInv /\ IInv' /\ PaidForInv /\ [Next]_vars => PaidForInv'
  BY PaidForStep
<1>3. PaidForInv => PaidPerAssembly
  BY PaidSum DEF PaidForInv, PaidFor, PaidPerAssembly, Assembled
<1> QED
  BY <1>1, <1>2, <1>3, Invariant, PTL DEF Spec

-----------------------------------------------------------------------------
(* What the mode of a job says of its objects: a race keeps no result      *)
(* before the one that wins it, a pipeline is complete with its            *)
(* coordinator's.                                                          *)
ModeOK(j, d) ==
    /\ ProtoMode(j) = "parallel_sample" =>
          /\ obj[j][d].status # "complete" => \A s \in Shards : ~ Has(obj[j][d].result, s)
          /\ \A s, t \in Shards : Has(obj[j][d].result, s) /\ Has(obj[j][d].result, t) => s = t
    /\ ProtoMode(j) = "pipeline_parallel" /\ obj[j][d].status = "complete" =>
          Has(obj[j][d].result, 0)

(* The commits of a pipeline come with the coordinator's.                  *)
CoordinatorInv ==
    \A j \in Jobs : ProtoMode(j) = "pipeline_parallel" =>
        /\ ResultsAfter(j) # {} => 0 \in ResultsAfter(j)
        /\ chain[j].status = "complete" => 0 \in chain[j].results

ModeInv == CoordinatorInv /\ \A j \in Jobs, d \in Dispatches : ModeOK(j, d)

LEMMA RaceIsReady ==
  ASSUME NEW j, ProtoMode(j) = "parallel_sample", NEW spec, NEW result, NEW s \in Shards,
         Has(result, s)
  PROVE  Ready(j, spec, result)
  BY DEF Ready

LEMMA PipelineIsReady ==
  ASSUME NEW j, ProtoMode(j) = "pipeline_parallel", NEW spec, NEW result, Ready(j, spec, result)
  PROVE  Has(result, 0)
  BY DEF Ready

LEMMA ModeOKStep ==
  ASSUME IInv, ModeInv, [Next]_vars, NEW k \in Jobs, NEW e \in Dispatches
  PROVE  ModeOK(k, e)'
<1> USE DEF IInv, BaseInv
<1>0. ModeOK(k, e)
  BY DEF ModeInv
<1>1. CASE obj'[k][e] = obj[k][e]
  BY <1>0, <1>1 DEF ModeOK
<1>2. CASE Quiet
  <2>1. ResultMoves(k, e) /\ (obj'[k][e].status = "complete" => obj[k][e].status = "complete")
    BY <1>2 DEF Quiet
  <2>2. CASE obj[k][e].status = "complete"
    <3>1. obj'[k][e].status = "complete" /\ obj'[k][e].result = obj[k][e].result
      BY <2>2, AssembledStep
    <3> QED
      BY <1>0, <2>2, <3>1 DEF ModeOK
  <2>3. CASE obj[k][e].status # "complete"
    <3> SUFFICES ASSUME ProtoMode(k) = "parallel_sample", NEW s \in Shards
                 PROVE  ~ Has(obj'[k][e].result, s)
      BY <2>1, <2>3 DEF ModeOK
    <3>1. ~ Has(obj[k][e].result, s)
      BY <1>0, <2>3 DEF ModeOK
    <3>2. ~ Has(BlankJob.result, s)
      BY DEF Has, BlankJob
    <3>3. ASSUME NEW x \in Shards, NEW m \in Miners,
                 obj'[k][e].result = [obj[k][e].result EXCEPT ![x] = m],
                 ~ Ready(k, obj[k][e].spec, obj'[k][e].result)
          PROVE  FALSE
      <4>1. obj[k][e].result \in [Shards -> MinerOrNone]
        BY EntryTypes DEF JobRec
      <4>2. Has(obj'[k][e].result, x)
        BY <3>3, <4>1, MinersAssumption DEF Has
      <4> QED
        BY <3>3, <4>2, RaceIsReady
    <3> QED
      BY <2>1, <3>1, <3>2, <3>3 DEF ResultMoves
  <2> QED
    BY <2>2, <2>3
<1>3. ASSUME NEW j \in Jobs, NEW s \in Shards, NEW m \in Miners, Assembles(j, s, m),
             k = j, e = cur[j]
      PROVE  ModeOK(k, e)'
  <2> DEFINE W == WithResult(j, s, m)
  <2>1. /\ obj'[k][e].status = "complete" /\ obj'[k][e].result = W
        /\ obj[k][e].status # "complete" /\ Current(j) = obj[k][e]
        /\ \A x \in Shards : W[x] = IF x = s THEN m ELSE obj[k][e].result[x]
        /\ Ready(j, Current(j).spec, W)
    BY <1>3 DEF Assembles
  <2>2. ProtoMode(k) = "parallel_sample" => \A x \in Shards : Has(W, x) => x = s
    BY <1>0, <2>1 DEF ModeOK, Has
  <2>3. ProtoMode(k) = "pipeline_parallel" => Has(W, 0)
    BY <1>3, <2>1, PipelineIsReady
  <2> HIDE DEF W
  <2> QED
    BY <2>1, <2>2, <2>3 DEF ModeOK
<1>4. CASE \E j \in Jobs, s \in Shards, m \in Miners : ResultCompletes(j, s, m)
  <2>1. PICK j \in Jobs, s \in Shards, m \in Miners : Assembles(j, s, m)
    BY <1>4, CompletesAssembles
  <2>2. k # j \/ e # cur[j] => obj'[k][e] = obj[k][e]
    BY <2>1 DEF Assembles
  <2> QED
    BY <1>1, <1>3, <2>1, <2>2
<1>5. CASE ProduceBlock
  BY <1>1, <1>5, BlockFacts
<1> QED
  BY <1>2, <1>4, <1>5, StepKinds

LEMMA CommittedIsPaying ==
  ASSUME NEW j \in Jobs, NEW s \in Shards
  PROVE  s \in Committed(j) <=> Paying(j, s) # {}
  BY DEF Committed, Paying

\* A job that becomes complete in a block has commits in it.
LEMMA CompletedByCommit ==
  ASSUME NEW j \in Jobs, StatusAfter(j) = "complete", chain[j].status # "complete"
  PROVE  Committed(j) # {}
<1>1. StatusAfterPosts(j) # "complete"
  BY DEF StatusAfterPosts
<1> QED
  BY <1>1 DEF StatusAfter, CompletesIn

LEMMA CoordinatorStep ==
  ASSUME IInv, ModeInv, [Next]_vars
  PROVE  CoordinatorInv'
<1> SUFFICES ASSUME NEW k \in Jobs, ProtoMode(k) = "pipeline_parallel"
             PROVE  /\ ResultsAfter(k)' # {} => 0 \in ResultsAfter(k)'
                    /\ chain'[k].status = "complete" => 0 \in chain'[k].results
  BY DEF CoordinatorInv, ProtoMode
<1>0. /\ ResultsAfter(k) # {} => 0 \in ResultsAfter(k)
      /\ chain[k].status = "complete" => 0 \in chain[k].results
  BY DEF ModeInv, CoordinatorInv
<1>1. CASE ProduceBlock
  <2>1. /\ chain'[k].status = StatusAfter(k) /\ chain'[k].results = ResultsAfter(k)
        /\ Committed(k)' = {}
    BY <1>1, BlockFacts
  <2>2. ResultsAfter(k)' = ResultsAfter(k)
    BY <2>1 DEF ResultsAfter
  <2>3. StatusAfter(k) = "complete" => ResultsAfter(k) # {}
    BY <1>0, CompletedByCommit DEF ResultsAfter
  <2> QED
    BY <1>0, <2>1, <2>2, <2>3
<1>2. ASSUME chain' = chain, \A x \in Shards : Paying(k, x)' = Paying(k, x)
      PROVE  ResultsAfter(k)' = ResultsAfter(k)
  <2>1. Committed(k)' = Committed(k)
    BY <1>2 DEF Committed, Paying
  <2> QED
    BY <1>2, <2>1 DEF ResultsAfter
<1>3. CASE Quiet
  BY <1>0, <1>2, <1>3 DEF Quiet
<1>4. ASSUME NEW j \in Jobs, NEW s \in Shards, NEW m \in Miners, Assembles(j, s, m)
      PROVE  /\ chain' = chain
             /\ ResultsAfter(k)' # {} => 0 \in ResultsAfter(k)'
  <2>1. CASE k # j
    BY <1>0, <1>2, <1>4, <2>1 DEF Assembles
  <2>2. CASE k = j
    <3>1. Has(WithResult(j, s, m), 0) /\ 0 \in Shards
      BY <1>4, <2>2, PipelineIsReady, ShardsAssumption DEF Assembles
    <3>2. Paying(j, 0)' = Paying(j, 0) \cup {WithResult(j, s, m)[0]}
      BY <1>4, <3>1 DEF Assembles
    <3>3. 0 \in Committed(j)'
      BY <3>1, <3>2 DEF Committed, Paying
    <3> QED
      BY <1>4, <2>2, <3>3 DEF Assembles, ResultsAfter
  <2> QED
    BY <2>1, <2>2
<1>5. CASE \E j \in Jobs, s \in Shards, m \in Miners : ResultCompletes(j, s, m)
  BY <1>0, <1>4, <1>5, CompletesAssembles
<1> QED
  BY <1>1, <1>3, <1>5, StepKinds

\* The shards with a commit, in the pool or applied, of a job dispatched once.
LEMMA RaceHasOneCommit ==
  ASSUME IInv, ModeInv, NEW j \in Jobs, ProtoMode(j) = "parallel_sample", OnceDispatched(j)
  PROVE  Cardinality(chain[j].results \cup Committed(j)) <= 1
<1> USE DEF IInv, BaseInv
<1>1. \A s \in chain[j].results \cup Committed(j) : s \in Shards /\ Has(obj[j][1].result, s)
  <2> SUFFICES ASSUME NEW s \in chain[j].results \cup Committed(j)
               PROVE  s \in Shards /\ Has(obj[j][1].result, s)
    OBVIOUS
  <2>1. s \in Shards
    BY EntryTypes, BoundAssumption DEF Committed, ChainRec, TypeOK
  <2>2. PICK d \in Dispatches : obj[j][d].status = "complete" /\ Has(obj[j][d].result, s)
    BY <2>1, MinersAssumption DEF CommitsAreOfAssembledJobs, Committed, Has
  <2>3. task[j][d].pc # "idle"
    BY <2>2 DEF TaskInv, TaskOK, BlankJob
  <2> QED
    BY <2>1, <2>2, <2>3 DEF OnceDispatched
<1>2. \A s, t \in chain[j].results \cup Committed(j) : s = t
  BY <1>1, BoundAssumption DEF ModeInv, ModeOK
<1>3. CASE chain[j].results \cup Committed(j) = {}
  BY <1>3, FS_EmptySet
<1>4. ASSUME NEW s \in chain[j].results \cup Committed(j)
      PROVE  Cardinality(chain[j].results \cup Committed(j)) <= 1
  <2>1. chain[j].results \cup Committed(j) = {s}
    BY <1>2
  <2>2. Cardinality({s}) = 1
    BY FS_Singleton
  <2>3. Cardinality(chain[j].results \cup Committed(j)) = 1
    BY <2>1, <2>2, Zenon
  <2> QED
    BY <2>3
<1> QED
  BY <1>3, <1>4

(* The commits of a job fit its mode: a pipeline never settles without its *)
(* coordinator, a race that was dispatched once is won once.               *)
THEOREM CommitsFitModes == Spec => []CommitsFitTheMode
<1>1. Init => ModeInv
  BY DEF Init, ModeInv, CoordinatorInv, ModeOK, ResultsAfter, Committed, NewChainJob,
         BlankJob, Has
<1>2. IInv /\ ModeInv /\ [Next]_vars => ModeInv'
  BY ModeOKStep, CoordinatorStep DEF ModeInv
<1>3. IInv /\ ModeInv => CommitsFitTheMode
  BY RaceHasOneCommit DEF CommitsFitTheMode, ModeInv, CoordinatorInv
<1> QED
  BY <1>1, <1>2, <1>3, Invariant, PTL DEF Spec

-----------------------------------------------------------------------------
(* What the refinement rests on: only unposted jobs are posted, and a job  *)
(* that was dispatched is pending or complete.                             *)
LifeInv ==
    /\ \A j \in Jobs : PostTx(j) \in mempool => chain[j].status = "none"
    /\ \A j \in Jobs, d \in Dispatches : task[j][d].pc # "idle" =>
          chain[j].status \in {"pending", "complete"}

\* A job with a commit in the pool was dispatched.
LEMMA CommitsAreStarted ==
  ASSUME IInv, LifeInv, NEW j \in Jobs, Committed(j) # {}
  PROVE  chain[j].status \in {"pending", "complete"}
<1>1. PICK s \in Shards, m \in Miners : CommitTx(j, s, m) \in mempool
  BY DEF Committed
<1>2. PICK d \in Dispatches : obj[j][d].status = "complete"
  BY <1>1 DEF IInv, CommitsAreOfAssembledJobs
<1>3. task[j][d].pc # "idle"
  BY <1>2 DEF IInv, BaseInv, TaskInv, TaskOK, BlankJob
<1> QED
  BY <1>3 DEF LifeInv

\* The status of a job after a block, by its status before.
LEMMA StatusMoves ==
  ASSUME IInv, LifeInv, NEW j \in Jobs
  PROVE  /\ chain[j].status = "none" =>
               /\ Committed(j) = {}
               /\ StatusAfter(j) \in {"none", "waiting", "pending"}
         /\ chain[j].status = "waiting" =>
               /\ Committed(j) = {}
               /\ StatusAfter(j) \in {"waiting", "pending"}
         /\ chain[j].status = "pending" => StatusAfter(j) \in {"pending", "complete"}
         /\ chain[j].status = "complete" => StatusAfter(j) = "complete"
         /\ ChainDone(j, ResultsAfter(j))
               \/ chain[j].status = "complete"
               \/ StatusAfter(j) # "complete"
<1>1. chain[j].status # "none" => StatusAfterPosts(j) = chain[j].status
  BY DEF LifeInv, Posted, StatusAfterPosts
<1>2. chain[j].status = "none" => StatusAfterPosts(j) \in {"none", "waiting", "pending"}
  BY DEF StatusAfterPosts
<1>3. chain[j].status \in {"none", "waiting"} => Committed(j) = {}
  BY CommitsAreStarted
<1> QED
  BY <1>1, <1>2, <1>3 DEF StatusAfter, CompletesIn, Cascades

LEMMA LifeStep ==
  ASSUME IInv, LifeInv, [Next]_vars
  PROVE  LifeInv'
<1>1. CASE ProduceBlock
  <2>1. ASSUME NEW j \in Jobs, NEW d \in Dispatches, task'[j][d].pc # "idle"
        PROVE  chain'[j].status \in {"pending", "complete"}
    <3>1. chain'[j].status = StatusAfter(j)
      BY <1>1, BlockFacts
    <3>2. CASE task[j][d].pc # "idle"
      BY <3>1, <3>2, StatusMoves DEF LifeInv
    <3>3. CASE task[j][d].pc = "idle"
      BY <1>1, <2>1, <3>1, <3>3 DEF ProduceBlock, StartTasks
    <3> QED
      BY <3>2, <3>3
  <2> QED
    BY <1>1, <2>1, BlockFacts DEF LifeInv
<1>2. CASE Quiet
  BY <1>2 DEF Quiet, LifeInv
<1>3. ASSUME NEW j \in Jobs, NEW s \in Shards, NEW m \in Miners, Assembles(j, s, m)
      PROVE  LifeInv'
  BY <1>3 DEF Assembles, LifeInv
<1> QED
  BY <1>1, <1>2, <1>3, StepKinds, CompletesAssembles

\* A job becomes pending only if its parent is complete after the block.
LEMMA StartsFreed ==
  ASSUME IInv, LifeInv, ProduceBlock, NEW j \in Jobs, chain[j].status \in {"none", "waiting"},
         StatusAfter(j) = "pending"
  PROVE  Parent[j] = NoJob \/ (Parent[j] \in Jobs /\ chain'[Parent[j]].status = "complete")
<1>1. Parent[j] \in Jobs \cup {NoJob}
  BY JobAssumption
<1>2. CASE Cascades(j)
  <2>1. Parent[j] \in Jobs /\ StatusAfter(Parent[j]) = "complete"
    BY <1>2 DEF Cascades, StatusAfter
  <2> QED
    BY <2>1, BlockFacts
<1>3. CASE ~ Cascades(j)
  <2>1. StatusAfterPosts(j) = "pending"
    BY <1>3 DEF StatusAfter
  <2>2. Parent[j] = NoJob \/ chain[Parent[j]].status = "complete"
    BY <2>1 DEF StatusAfterPosts
  <2>3. CASE Parent[j] \in Jobs /\ chain[Parent[j]].status = "complete"
    BY <2>3, StatusMoves, BlockFacts
  <2> QED
    BY <1>1, <2>2, <2>3
<1> QED
  BY <1>2, <1>3

StatusOf  == [j \in Jobs |-> chain[j].status]
ResultsOf == [j \in Jobs |-> chain[j].results]

LEMMA BlockIsBlock ==
  ASSUME IInv, LifeInv, ProduceBlock
  PROVE  Lifecycle!Block
<1> SUFFICES ASSUME NEW j \in Jobs
             PROVE  \/ Lifecycle!Keeps(j)
                    \/ /\ Lifecycle!Posted(j) \/ Lifecycle!Wakes(j)
                       /\ Lifecycle!Starts(j) /\ ResultsOf'[j] = ResultsOf[j]
                    \/ Lifecycle!Serves(j)
                    \/ Lifecycle!Completes(j)
  BY DEF Lifecycle!Block, ResultsOf
<1>1. /\ StatusOf[j] = chain[j].status /\ StatusOf'[j] = StatusAfter(j)
      /\ ResultsOf[j] = chain[j].results /\ ResultsOf'[j] = ResultsAfter(j)
      /\ \A k \in Jobs : StatusOf'[k] = chain'[k].status
  BY BlockFacts DEF StatusOf, ResultsOf
<1>2. /\ chain[j].status \in {"none", "waiting", "pending", "complete"}
      /\ chain[j].results \subseteq Shards
  BY EntryTypes, BoundAssumption DEF IInv, BaseInv, TypeOK, ChainRec
<1>3. chain[j].results \subseteq ResultsAfter(j) /\ ResultsAfter(j) \subseteq Shards
  BY <1>2 DEF ResultsAfter, Committed
<1>4. Committed(j) = {} => ResultsAfter(j) = chain[j].results
  BY DEF ResultsAfter
<1>5. Lifecycle!Gains(j)
  BY <1>1, <1>3 DEF Lifecycle!Gains, ResultsOf
<1>6. CASE StatusAfter(j) = chain[j].status /\ chain[j].status \in {"none", "waiting"}
  <2>1. Lifecycle!Keeps(j)
    BY <1>1, <1>4, <1>6, StatusMoves DEF Lifecycle!Keeps, StatusOf, ResultsOf
  <2> QED
    BY <2>1
<1>7. CASE StatusAfter(j) # chain[j].status /\ chain[j].status \in {"none", "waiting"}
  <2>1. Lifecycle!Posted(j) \/ Lifecycle!Wakes(j)
    BY <1>1, <1>7, StatusMoves DEF Lifecycle!Posted, Lifecycle!Wakes, StatusOf
  <2>2. Lifecycle!Starts(j)
    BY <1>1, <1>7, StartsFreed DEF Lifecycle!Starts, Lifecycle!Free, StatusOf
  <2>3. ResultsOf'[j] = ResultsOf[j]
    BY <1>1, <1>4, <1>7, StatusMoves
  <2> QED
    BY <2>1, <2>2, <2>3
<1>8. CASE StatusAfter(j) = chain[j].status /\ chain[j].status \in {"pending", "complete"}
  <2>1. Lifecycle!Serves(j)
    BY <1>1, <1>5, <1>8 DEF Lifecycle!Serves, StatusOf
  <2> QED
    BY <2>1
<1>9. CASE StatusAfter(j) = "complete" /\ chain[j].status = "pending"
  <2>1. ChainDone(j, ResultsAfter(j))
    BY <1>9, StatusMoves
  <2>2. ResultsAfter(j) \in Enough[j]
    BY <1>3, <2>1 DEF Enough
  <2>3. Lifecycle!Completes(j)
    BY <1>1, <1>5, <1>9, <2>2 DEF Lifecycle!Completes, StatusOf, ResultsOf
  <2> QED
    BY <2>3
<1> QED
  BY <1>2, <1>6, <1>7, <1>8, <1>9, StatusMoves

(* The orchestrator, with its time-outs, reassignments and recoveries,     *)
(* implements the life of a job that JobLifecycle promises.                *)
THEOREM OrchestratorImplementsLifecycle == Spec => ImplementsLifecycle
<1>1. Init => LifeInv
  BY DEF Init, LifeInv
<1>2. IInv /\ LifeInv /\ [Next]_vars => LifeInv'
  BY LifeStep
<1>3. Init => Lifecycle!Init
  BY DEF Init, Lifecycle!Init, NewChainJob
<1>4. IInv /\ LifeInv /\ [Next]_vars => [Lifecycle!Block]_(Lifecycle!vars)
  <2> SUFFICES ASSUME IInv, LifeInv, [Next]_vars
               PROVE  Lifecycle!Block \/ UNCHANGED Lifecycle!vars
    OBVIOUS
  <2>1. chain' = chain => UNCHANGED Lifecycle!vars
    BY DEF Lifecycle!vars
  <2> QED
    BY <2>1, BlockIsBlock, StepKinds, CompletesAssembles DEF Quiet, Assembles
<1> QED
  BY <1>1, <1>2, <1>3, <1>4, Invariant, PTL DEF Spec, ImplementsLifecycle, Lifecycle!Spec
=============================================================================
