------------------------------ MODULE JobTexts ------------------------------
(***************************************************************************)
(* What the miners of a job are told and what becomes of what they say:    *)
(* prompts cut into slices (chain/shard/modes), answers joined             *)
(* (chain/shard/assembler.py), and the output of one job put into the      *)
(* prompt of the next (inft_postJobChain, dispatch_chained_job).           *)
(*                                                                         *)
(* A prompt is its length, plus, for a chained job, the answers that were  *)
(* put in the place of {prev_output}.  A slice is a pair <<from, to>> of   *)
(* positions.  An answer is who gave it and what kind of text it is; an    *)
(* output is the sequence of the answers it is made of.                    *)
(*                                                                         *)
(* The steps are those of ShardProtocol, which has the offers, timers and  *)
(* miners this module leaves out: here any shard may be answered, again or *)
(* by somebody else, while its job is not complete.                        *)
(***************************************************************************)
EXTENDS Integers, Sequences, FiniteSets

CONSTANTS
    NSteps,       \* steps of the chain posted with inft_postJobChain
    NShards,      \* the largest number of shards of a job
    MaxDispatch,  \* BOUND: dispatch tasks ever started for one job
    Asked,        \* [Jobs -> SUBSET Requests]: what a step may ask for
    Lengths,      \* lengths a prompt may have
    Overlap,      \* OVERLAP_CHARS
    Says,         \* kinds of text a model may answer with
    NoText        \* final_output = None

Jobs       == 1 .. NSteps
Shards     == 0 .. (NShards - 1)
Dispatches == 1 .. MaxDispatch
Modes      == {"parallel_sample", "context_split", "speculative", "pipeline_parallel"}
\* Texts: a "long" one does not fit the 200 characters of output_preview, which
\* keeps a "cut" one; white space is "empty".
Kinds      == {"text", "long", "cut", "empty", "placeholder"}
Answers    == [shard : Shards, by : Dispatches, kind : Kinds]
Requests   == [mode : Modes, n : Nat \ {0}]

ASSUME StepsAssumption == NSteps \in Nat \ {0} /\ MaxDispatch \in Nat \ {0}
ASSUME TextAssumption  == Lengths \subseteq Nat /\ Overlap \in Nat \ {0}
ASSUME NoTextAssumption == NoText \notin Seq(Answers)
ASSUME SaysAssumption == Says \subseteq {"text", "long", "empty"}
ASSUME AskedAssumption ==
    /\ Asked \in [Jobs -> SUBSET Requests]
    /\ NShards \in Nat \ {0, 1}
    /\ \A j \in Jobs : \A r \in Asked[j] : r.n <= NShards

VARIABLES
    chain,    \* StateDB._jobs: status, parent, request, results and parent_output_hash
    commits,  \* SHARD_COMMITs that wait for a block, oldest first, per job
    task,     \* the dispatch tasks of each job and the prompts they work with
    job       \* self._jobs: the JobState the shard protocol has of each job

textsVars == <<chain, commits, task, job>>
-----------------------------------------------------------------------------
Lower(a, b)  == IF a < b THEN a ELSE b
Higher(a, b) == IF a > b THEN a ELSE b

(* context_split.split_prompt: the loop takes ChunkSize characters, or     *)
(* what is left, and goes back OVERLAP_CHARS; it never runs out of prompt. *)
ChunkSize(len, n) == Higher(2 * Overlap, len \div n)

\* Mutant of SliceEnd: the last slice is as long as the others.
SliceEnd_Plain(len, n, i, start) == Lower(len, start + ChunkSize(len, n))

SliceEnd(len, n, i, start) ==
    IF i = n - 1 THEN len ELSE Lower(len, start + ChunkSize(len, n))

NextStart(end) == Higher(0, end - Overlap)

SplitSlices(len, n) ==
    LET start[i \in 0 .. (n - 1)] ==
            IF i = 0 THEN 0 ELSE NextStart(SliceEnd(len, n, i - 1, start[i - 1]))
    IN  [k \in 1 .. n |-> <<start[k - 1], SliceEnd(len, n, k - 1, start[k - 1])>>]

\* split_prompt of each mode: shard s is told the slice number s + 1.
Slices(mode, len, n) ==
    CASE mode = "context_split"     -> SplitSlices(len, n)
      [] mode = "pipeline_parallel" -> [k \in 1 .. n |-> IF k = 1 THEN <<0, len>> ELSE <<0, 0>>]
      [] OTHER                      -> [k \in 1 .. n |-> <<0, len>>]

\* The mode and the numbers of shards dispatch_job may settle for: a pipeline
\* keeps a coordinator and the workers that advertise an rpc address.
ProtoMode(r) ==
    IF r.n = 1 /\ r.mode # "pipeline_parallel" THEN "parallel_sample" ELSE r.mode
ProtoShards(r) ==
    CASE ProtoMode(r) = "speculative"       -> {2}
      [] ProtoMode(r) = "pipeline_parallel" -> 1 .. r.n
      [] OTHER                              -> {r.n}
-----------------------------------------------------------------------------
(* Answers and results.                                                    *)
IsSaid(a)   == a.kind # "empty"
Stripped(a) == IF IsSaid(a) THEN <<a>> ELSE <<>>
Preview(a)  == IF a.kind = "long" THEN [a EXCEPT !.kind = "cut"] ELSE a

\* A results dictionary is a sequence with one answer a shard, in the order
\* in which the shards were put into it.
ShardsOf(q) == {q[k].shard : k \in DOMAIN q}
Of(q, s)    == q[CHOOSE k \in DOMAIN q : q[k].shard = s]
Put(q, a) ==
    IF a.shard \in ShardsOf(q)
    THEN [k \in DOMAIN q |-> IF q[k].shard = a.shard THEN a ELSE q[k]]
    ELSE Append(q, a)

\* Mutant of Sorted: the results as they arrived.
Sorted_Arrival(q, S) == SelectSeq(q, LAMBDA a : a.shard \in S)

\* The results of the shards of S, sorted by shard_index.
Sorted(q, S) ==
    LET upto[i \in 0 .. NShards] ==
            IF i = 0 THEN <<>>
            ELSE IF i - 1 \in S THEN Append(upto[i - 1], Of(q, i - 1))
            ELSE upto[i - 1]
    IN  upto[NShards]

\* assemble of each mode.
RaceOutput(q)  == Stripped(Sorted(q, ShardsOf(q))[1])
SplitOutput(q) == Sorted(q, {s \in ShardsOf(q) : IsSaid(Of(q, s))})

SpeculativeOutput(q) ==
    LET r == Sorted(q, ShardsOf(q))
    IN  IF Len(r) > 1 /\ IsSaid(r[2]) THEN <<r[2]>> ELSE Stripped(r[1])

PipelineOutput(q) ==
    LET real == Sorted(q, {s \in ShardsOf(q) : Of(q, s).kind # "placeholder"})
    IN  IF real = <<>> THEN <<>> ELSE Stripped(real[1])

\* assembler.assemble.
Assembled(mode, q) ==
    CASE mode = "context_split"     -> SplitOutput(q)
      [] mode = "speculative"       -> SpeculativeOutput(q)
      [] mode = "pipeline_parallel" -> PipelineOutput(q)
      [] OTHER                      -> RaceOutput(q)

\* JobState.ready_to_assemble.
Ready(mode, n, q) ==
    CASE mode = "parallel_sample"   -> Len(q) >= 1
      [] mode = "pipeline_parallel" -> 0 \in ShardsOf(q)
      [] OTHER                      -> Len(q) = n
-----------------------------------------------------------------------------
NewChainJob == [status |-> "none", parent |-> 0, asked |-> [mode |-> "parallel_sample", n |-> 1],
                results |-> <<>>, read |-> NoText]
NewTask     == [pc |-> "idle", len |-> 0, read |-> NoText]

\* A JobState without specs: none is known, or _register_failed_job made it.
NoJob == [known |-> FALSE, by |-> 1, len |-> 0, told |-> <<>>, workers |-> {},
          said |-> <<>>, final |-> NoText]

TextsInit ==
    /\ chain   = [j \in Jobs |-> NewChainJob]
    /\ commits = [j \in Jobs |-> <<>>]
    /\ task    = [j \in Jobs |-> [d \in Dispatches |-> NewTask]]
    /\ job     = [j \in Jobs |-> NoJob]

FreeSlots(j)  == {d \in Dispatches : task[j][d].pc = "idle"}
IsFirst(j, d) == d \in FreeSlots(j) /\ \A e \in FreeSlots(j) : d <= e
StartTasks(J) ==
    task' = [j \in Jobs |-> [d \in Dispatches |->
                IF j \in J /\ IsFirst(j, d)
                THEN [task[j][d] EXCEPT !.pc = "started"]
                ELSE task[j][d]]]
-----------------------------------------------------------------------------
(* inft_postJobChain: submit_transaction may refuse any of the JOB_POSTs.  *)
(* A step is the child of the one before it if that one was accepted;      *)
(* otherwise it is posted as the first step of a chain.                    *)
PostChain(asked, accepted) ==
    /\ \A j \in Jobs : chain[j].status = "none"
    /\ accepted # {}
    /\ chain' = [j \in Jobs |->
                    IF j \in accepted
                    THEN [chain[j] EXCEPT !.status = "posted", !.asked = asked[j],
                                          !.parent = IF j - 1 \in accepted THEN j - 1 ELSE 0]
                    ELSE chain[j]]
    /\ UNCHANGED <<commits, task, job>>

(* Sequencer._produce_block: _apply_job_post, _apply_shard_commit in the   *)
(* order of the pool, _cascade_dependents, and the dispatch tasks.         *)
ChainDone(r, shards) ==
    \/ Cardinality(shards) = r.n
    \/ r.mode = "parallel_sample" /\ shards # {}
    \/ r.mode = "pipeline_parallel" /\ 0 \in shards

\* The results on the chain once the first i commits are applied.
Applied(j, i) ==
    LET upto[k \in 0 .. i] ==
            IF k = 0 THEN chain[j].results ELSE Put(upto[k - 1], commits[j][k].answer)
    IN  upto[i]

DoneWith(j) ==
    {i \in DOMAIN commits[j] : ChainDone(chain[j].asked, ShardsOf(Applied(j, i)))}

StatusAfterPosts(j) ==
    IF chain[j].status # "posted" THEN chain[j].status
    ELSE IF chain[j].parent = 0 THEN "pending"
    ELSE IF chain[chain[j].parent].status = "complete" THEN "pending"
    ELSE "waiting"
Cascades(j) ==
    StatusAfterPosts(j) = "waiting" /\ DoneWith(chain[j].parent) # {}
StatusAfter(j) ==
    IF DoneWith(j) # {} THEN "complete"
    ELSE IF Cascades(j) THEN "pending"
    ELSE StatusAfterPosts(j)

\* The output whose hash the commit that completes job p records.
Recorded(p) ==
    commits[p][CHOOSE i \in DoneWith(p) : \A k \in DoneWith(p) : i <= k].output

ProduceBlock ==
    /\ \E j \in Jobs : chain[j].status = "posted" \/ commits[j] # <<>>
    /\ chain' = [j \in Jobs |->
                    [chain[j] EXCEPT
                        !.status  = StatusAfter(j),
                        !.results = Applied(j, Len(commits[j])),
                        !.read    = IF Cascades(j) THEN Recorded(chain[j].parent) ELSE @]]
    /\ commits' = [j \in Jobs |-> <<>>]
    /\ StartTasks({j \in Jobs : chain[j].status \in {"posted", "waiting"}
                                 /\ StatusAfter(j) = "pending"})
    /\ UNCHANGED job

(* recover_pending_jobs, when a peer connects.                             *)
Lost(j) == chain[j].status = "pending" /\ ~ job[j].known
PeerConnected ==
    /\ \E j \in Jobs : Lost(j)
    /\ \A j \in Jobs : Lost(j) => FreeSlots(j) # {}     \* BOUND MaxDispatch
    /\ StartTasks({j \in Jobs : Lost(j)})
    /\ UNCHANGED <<chain, commits, job>>
-----------------------------------------------------------------------------
(* dispatch_chained_job puts the parent's output into the template: the    *)
(* whole output if the protocol still has it, else the previews that are   *)
(* on the chain.  A first step has its prompt in the payload.              *)
Previews(p) == Sorted(chain[p].results, ShardsOf(chain[p].results))

\* Mutant of ParentOutput: always from the chain.
ParentOutput_Previews(p) == Previews(p)

ParentOutput(p) == IF job[p].final # NoText THEN job[p].final ELSE Previews(p)

TaskStarts(j, d) ==
    /\ task[j][d].pc = "started"
    /\ IF chain[j].parent # 0 /\ chain[j].status # "pending"
       THEN task' = [task EXCEPT ![j][d].pc = "done"]
       ELSE \E len \in Lengths :
              task' = [task EXCEPT ![j][d] =
                         [pc   |-> "prompted", len |-> len,
                          read |-> IF chain[j].parent = 0 THEN NoText
                                   ELSE ParentOutput(chain[j].parent)]]
    /\ UNCHANGED <<chain, commits, job>>

(* dispatch_job: the prompt is split and the JobState is put into          *)
(* self._jobs, over whatever was there; or no miner qualifies.             *)
Dispatched(j, d, n) ==
    LET mode == ProtoMode(chain[j].asked)
        len  == task[j][d].len
    IN  [known |-> TRUE, by |-> d, len |-> len, told |-> Slices(mode, len, n),
         workers |-> IF mode = "pipeline_parallel" THEN 1 .. (n - 1) ELSE {},
         said |-> <<>>, final |-> NoText]

DispatchJob(j, d) ==
    /\ task[j][d].pc = "prompted"
    /\ task' = [task EXCEPT ![j][d].pc = "done"]
    /\ \/ \E n \in ProtoShards(chain[j].asked) : job' = [job EXCEPT ![j] = Dispatched(j, d, n)]
       \/ job' = [job EXCEPT ![j] = [NoJob EXCEPT !.known = TRUE, !.by = d]]
    /\ UNCHANGED <<chain, commits>>

(* _reassign_shard builds a new spec without the role of the old one.      *)
Reassign(j, s) ==
    /\ job[j].final = NoText
    /\ s \in job[j].workers \ ShardsOf(job[j].said)
    /\ job' = [job EXCEPT ![j].workers = @ \ {s}]
    /\ UNCHANGED <<chain, commits, task>>

(* The miner of a shard answers: a worker of a pipeline with a             *)
(* placeholder, any other with what its model says.  on_shard_result and,  *)
(* when the job is ready, _assemble.  A commit equal to one that still     *)
(* waits (same job, shard and miner) is not added to the pool again.       *)
Sayable(j, s) == IF s \in job[j].workers THEN {"placeholder"} ELSE Says

Heard(j, s, kind) == Put(job[j].said, [shard |-> s, by |-> job[j].by, kind |-> kind])

\* The SHARD_COMMITs _assemble makes for the shards of S.
CommitsOf(q, S, output) ==
    [k \in DOMAIN Sorted(q, S) |-> [answer |-> Preview(Sorted(q, S)[k]), output |-> output]]

InPool(j) == {commits[j][k].answer.shard : k \in DOMAIN commits[j]}

ShardAnswered(j, s, kind) ==
    /\ s + 1 \in DOMAIN job[j].told
    /\ job[j].final = NoText
    /\ kind \in Sayable(j, s)
    /\ LET mode == ProtoMode(chain[j].asked)
           said == Heard(j, s, kind)
       IN  IF Ready(mode, Len(job[j].told), said)
           THEN \E added \in SUBSET ShardsOf(said) :
                  /\ ShardsOf(said) \ InPool(j) \subseteq added
                  /\ job'  = [job EXCEPT ![j] = [@ EXCEPT !.said = said, !.final = Assembled(mode, said)]]
                  /\ commits' = [commits EXCEPT
                        ![j] = @ \o CommitsOf(said, added, Assembled(mode, said))]
           ELSE /\ job' = [job EXCEPT ![j].said = said]
                /\ UNCHANGED commits
    /\ UNCHANGED <<chain, task>>
-----------------------------------------------------------------------------
TextsNext ==
    \/ \E asked \in [Jobs -> UNION {Asked[j] : j \in Jobs}], accepted \in SUBSET Jobs :
          (\A j \in Jobs : asked[j] \in Asked[j]) /\ PostChain(asked, accepted)
    \/ ProduceBlock
    \/ PeerConnected
    \/ \E j \in Jobs, d \in Dispatches : TaskStarts(j, d) \/ DispatchJob(j, d)
    \/ \E j \in Jobs, s \in Shards :
          \/ Reassign(j, s)
          \/ \E kind \in Kinds : ShardAnswered(j, s, kind)

TextsSpec == TextsInit /\ [][TextsNext]_textsVars
-----------------------------------------------------------------------------
Outputs == Seq(Answers)

ChainRec == [status  : {"none", "posted", "waiting", "pending", "complete"},
             parent  : {0} \cup Jobs, asked : Requests,
             results : Outputs, read : Outputs \cup {NoText}]
TaskRec  == [pc : {"idle", "started", "prompted", "done"},
             len : {0} \cup Lengths, read : Outputs \cup {NoText}]
JobRec   == [known : BOOLEAN, by : Dispatches, len : {0} \cup Lengths,
             told : Seq(Nat \X Nat), workers : SUBSET Shards,
             said : Outputs, final : Outputs \cup {NoText}]

CommitRec == [answer : Answers, output : Outputs]

(* Types.                                                                  *)
TextsTypeOK ==
    /\ chain \in [Jobs -> ChainRec]
    /\ commits \in [Jobs -> Seq(CommitRec)]
    /\ task \in [Jobs -> [Dispatches -> TaskRec]]
    /\ job \in [Jobs -> JobRec]

(* The slices of a split prompt cover it from its first to its last        *)
(* character, and each but the first starts with the last OVERLAP_CHARS    *)
(* characters of the one before, or with all of it (context_split.py:35).  *)
Mode(j) == ProtoMode(chain[j].asked)
Covers(told, len) ==
    /\ told[1][1] = 0 /\ told[Len(told)][2] = len
    /\ \A i \in 2 .. Len(told) :
          /\ told[i - 1][1] <= told[i][1] /\ told[i][1] <= told[i - 1][2]
          /\ told[i - 1][2] - told[i][1] = Lower(Overlap, told[i - 1][2])
PromptIsCovered ==
    \A j \in Jobs : Mode(j) = "context_split" /\ job[j].told # <<>>
                        => Covers(job[j].told, job[j].len)

(* An output is made of the last answers of the job's shards, joined in    *)
(* the order of the shards whatever the order of their arrival; a split    *)
(* job's has every answer that says something.                             *)
IsIncreasing(q) == \A k, l \in DOMAIN q : k < l => q[k].shard < q[l].shard
AnswersIn(q)    == {q[k] : k \in DOMAIN q}
OutputIsInOrder ==
    \A j \in Jobs : job[j].final # NoText =>
        /\ IsIncreasing(job[j].final)
        /\ AnswersIn(job[j].final) \subseteq AnswersIn(job[j].said)
        /\ Mode(j) = "context_split" =>
              AnswersIn(job[j].final) = {a \in AnswersIn(job[j].said) : IsSaid(a)}

(* What a client reads was written by a model that was shown the prompt:   *)
(* never a worker's placeholder, nor the answer to an empty slice of a     *)
(* pipeline (a re-assigned worker runs the model on one).                  *)
OutputIsAnAnswer ==
    \A j \in Jobs : job[j].final # NoText =>
        \A a \in AnswersIn(job[j].final) :
            /\ a.kind \in {"text", "long"}
            /\ Mode(j) = "pipeline_parallel" => a.shard = 0

(* A job that had an answer has an output: a race, a split job and a       *)
(* speculative one are only empty if all their miners said nothing.        *)
AnAnswerIsUsed ==
    \A j \in Jobs : job[j].final = <<>> /\ Mode(j) # "pipeline_parallel" =>
        \A a \in AnswersIn(job[j].said) : ~ IsSaid(a)

(* Whatever the prompt, it is split without a loss, and the state keeps its *)
(* types.                                                                  *)
SplitIsSound == TextsTypeOK /\ PromptIsCovered

(* Whatever the order of the answers, the output is what the mode promises *)
(* to make of them.                                                        *)
OutputIsSound == OutputIsInOrder /\ OutputIsAnAnswer /\ AnAnswerIsUsed

(* The prompt of a chained job has the whole output of its parent in it,   *)
(* the one whose hash the chain recorded when the parent completed, if the *)
(* parent was dispatched once.                                             *)
DispatchedOnce(p) == \A d \in Dispatches \ {1} : task[p][d].pc = "idle"
ChildReadsWhatWasRecorded ==
    \A j \in Jobs, d \in Dispatches :
        task[j][d].read # NoText /\ DispatchedOnce(chain[j].parent)
            => task[j][d].read = chain[j].read
=============================================================================
