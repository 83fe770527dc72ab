---------------------- MODULE PaperPipelineWorkProofs ----------------------
(***************************************************************************)
(* More proofs about the preparation of a paper, on top of the invariant   *)
(* of PaperPipelineProofs:                                                 *)
(*   - RemainingWorkIsKept, for any workers, attempts, versions, crashes   *)
(*     and lapsed leases;                                                  *)
(*   - OneExecution and ChatHasCorpus, where no lease runs out under a     *)
(*     live execution;                                                     *)
(*   - the pipeline implements Preparation, what the reader of a paper's   *)
(*     status is promised.                                                 *)
(***************************************************************************)
EXTENDS PaperPipelineProofs

Artifacts == {"index_chat", "resolve_connections"}
Present(j) == jobs[j].state # "absent"

(* The follow-ups that prepare_document has inserted when it is at pc.     *)
Inserted(pc) ==
    IF pc = "enqueue_refs" THEN {"index_chat"}
    ELSE IF pc \in {"enqueue_rest", "ok"} THEN Artifacts ELSE {}

(* The job of a worker has a row, and so have its follow-ups as far as it  *)
(* has inserted them.                                                      *)
WorkerKeeps(w) ==
    task[w].pc # "loop" =>
      /\ Present(task[w].job)
      /\ task[w].job.kind = "prepare_document" =>
           \A kind \in Inserted(task[w].pc) : Present(FollowUp(w, kind))

(* Only rows of superseded generations are cancelled; a prepare job that   *)
(* succeeded leaves its follow-ups behind.                                 *)
RowKeeps(j) ==
    /\ jobs[j].state = "cancelled" => j.gen < generation
    /\ j.kind = "prepare_document" /\ jobs[j].state = "succeeded" =>
         \A kind \in Artifacts : Present([gen |-> j.gen, kind |-> kind])

(* The introduction was published by a prepare job that has a row.         *)
IntroductionKeeps == proc.introduction => Present(CurrentJob("prepare_document"))

(* The inductive invariant for RemainingWorkIsKept.                        *)
KInv ==
    /\ PInv
    /\ \A w \in Workers : WorkerKeeps(w)
    /\ \A j \in Job : RowKeeps(j)
    /\ IntroductionKeeps

-----------------------------------------------------------------------------
(* The steps of the pipeline as the rows and the workers see them.         *)

(* A client's request puts the row in the queue.                           *)
Requested(j) ==
    \E retry \in BOOLEAN :
      PrepareRequest(retry) /\ j.gen = generation /\ j.kind \in WantedKinds /\ Enters(j, retry)

(* A worker on a prepare job inserts the row.                              *)
FollowsUp(j) ==
    \E w \in Workers, kind \in Artifacts :
      /\ exec[w].phase = "executing"
      /\ task[w].job.kind = "prepare_document"
      /\ task[w].pc \in {"enqueue_chat", "enqueue_refs"}
      /\ j = FollowUp(w, kind)
      /\ UNCHANGED <<generation, proc, document, chunks>>

LEMMA FollowUpIsJob ==
  ASSUME PInv, NEW w \in Workers, task[w].pc # "loop", NEW kind \in Artifacts
  PROVE  /\ FollowUp(w, kind) \in Job
         /\ FollowUp(w, kind).gen = task[w].job.gen /\ FollowUp(w, kind).kind = kind
<1>1. task[w].job \in Job
  BY DEF PInv, Grounded
<1> QED BY <1>1, JobParts, PipelineConstants DEF FollowUp, Job, Core, Artifacts

LEMMA CurrentIsJob ==
  ASSUME PInv, NEW kind \in Core
  PROVE  /\ CurrentJob(kind) \in Job
         /\ CurrentJob(kind).gen = generation /\ CurrentJob(kind).kind = kind
BY PipelineConstants DEF PInv, TypeOK, QTypeOK, CurrentJob, Job

(* What a step of execute_job does to the rows.                            *)
LEMMA JobRows ==
  ASSUME PInv, NEW w \in Workers, JobStep(w), NEW j \in Job
  PROVE  \/ jobs'[j] = jobs[j]
         \/ jobs[j].state = "absent" /\ jobs'[j] = FreshRow /\ FollowsUp(j)
<1>1. ASSUME EnqueueChat(w) \/ EnqueueRefs(w)
      PROVE  \/ jobs'[j] = jobs[j]
             \/ jobs[j].state = "absent" /\ jobs'[j] = FreshRow /\ FollowsUp(j)
  <2>1. /\ exec[w].phase = "executing" /\ task[w].job.kind = "prepare_document"
        /\ task[w].pc \in {"enqueue_chat", "enqueue_refs"}
        /\ UNCHANGED <<proc, document, chunks>>
    BY <1>1 DEF EnqueueChat, EnqueueRefs, At
  <2>2. \/ jobs' = jobs
        \/ \E kind \in Artifacts : EnqueueOnce(FollowUp(w, kind))
    BY <1>1 DEF EnqueueChat, EnqueueRefs, EnqueueFollowUp, ReturnFailure, Return,
                FinishExecution, Artifacts, qvars
  <2>3. ASSUME NEW kind \in Artifacts, EnqueueOnce(FollowUp(w, kind))
        PROVE  \/ jobs'[j] = jobs[j]
               \/ jobs[j].state = "absent" /\ jobs'[j] = FreshRow /\ FollowsUp(j)
    <3>1. jobs \in [Job -> Row]
      BY DEF PInv, TypeOK, QTypeOK
    <3>2. CASE j = FollowUp(w, kind)
      BY <2>1, <2>3, <3>1, <3>2 DEF EnqueueOnce, FollowsUp
    <3>3. CASE j # FollowUp(w, kind)
      BY <2>3, <3>1, <3>3 DEF EnqueueOnce
    <3> QED BY <3>2, <3>3
  <2> QED BY <2>2, <2>3
<1>2. CASE ~(EnqueueChat(w) \/ EnqueueRefs(w))
  <2>1. jobs' = jobs
    BY <1>2 DEF JobStep, ReadProcessing, Fetch, PersistParsedDocument,
       PersistDocument, EnqueueRest, BeginArtifact, BuildArtifact, PublishArtifact,
       ReturnStale, ReturnFailure, Return, FinishExecution, qvars
  <2> QED BY <2>1
<1> QED BY <1>1, <1>2

(* What any step does to a row.                                            *)
RowMove(j) ==
    \/ jobs'[j].state = jobs[j].state
    \/ jobs[j].state \in {"absent", "failed"} /\ jobs'[j].state = "queued" /\ Requested(j)
    \/ jobs[j].state = "absent" /\ jobs'[j].state = "queued" /\ FollowsUp(j)
    \/ Live(j) /\ jobs'[j].state = "running"
    \/ jobs[j].state = "running" /\ jobs'[j].state \in {"queued", "failed"}
    \/ /\ jobs[j].state = "running" /\ jobs'[j].state = "succeeded"
       /\ \E w \in Workers : CompleteJob(w) /\ task[w].pc = "ok" /\ task[w].job = j
    \/ Live(j) /\ jobs'[j].state = "cancelled" /\ ObserveNewVersion

LEMMA RowMoves ==
  ASSUME PInv, [Next]_vars, NEW j \in Job
  PROVE  RowMove(j)
<1>0. QTypeOK /\ jobs \in [Job -> Row] /\ jobs[j] \in Row
  BY DEF PInv, TypeOK, QTypeOK
<1>1. ASSUME NEW retry \in BOOLEAN, PrepareRequest(retry) PROVE RowMove(j)
  <2>1. PrepareJobs(WantedKinds, retry)
    BY <1>1 DEF PrepareRequest
  <2>2. CASE j.gen = generation /\ j.kind \in WantedKinds /\ Enters(j, retry)
    <3>1. jobs'[j].state = "queued"
      BY <2>1, <2>2, WrittenRows DEF PrepareJobs
    <3>2. Requested(j)
      BY <1>1, <2>2 DEF Requested
    <3> QED BY <2>2, <3>1, <3>2 DEF RowMove, Enters
  <2>3. CASE ~(j.gen = generation /\ j.kind \in WantedKinds /\ Enters(j, retry))
    BY <2>1, <2>3 DEF PrepareJobs, RowMove
  <2> QED BY <2>2, <2>3
<1>2. ASSUME ObserveNewVersion PROVE RowMove(j)
  BY <1>0, <1>2, WrittenRows DEF ObserveNewVersion, NewArxivVersion, RowMove, JobState
<1>3. ASSUME PassTime PROVE RowMove(j)
  BY <1>0, <1>3, TickEffect DEF PassTime, RowMove
<1>4. ASSUME NEW w \in Workers, SweepExhausted(w) PROVE RowMove(j)
  <2>1. jobs'[j] = IF Exhausted(j) THEN Settled(jobs[j], "failed") ELSE jobs[j]
    BY <1>4 DEF SweepExhausted, FailExhaustedLeases
  <2> QED BY <1>0, <2>1, WrittenRows DEF Exhausted, LeaseExpired, RowMove, JobState
<1>5. ASSUME NEW w \in Workers, NEW k \in Job, ClaimJob(w, k) PROVE RowMove(j)
  <2>1. Claim(w, k)
    BY <1>5 DEF ClaimJob
  <2> QED BY <1>0, <2>1, ClaimEffect DEF Claim, Claimable, LeaseExpired, Live, RowMove
<1>6. ASSUME NEW w \in Workers, JobStep(w) PROVE RowMove(j)
  BY <1>6, JobRows, WrittenRows DEF RowMove
<1>7. ASSUME NEW w \in Workers, CompleteJob(w) PROVE RowMove(j)
  <2>1. task[w].pc = "ok" /\ task[w].job = exec[w].job
    BY <1>7, AtSettling DEF CompleteJob, Results
  <2> QED BY <1>0, <1>7, <2>1, CompleteEffect DEF CompleteJob, HeldBy, RowMove
<1>8. ASSUME NEW w \in Workers, RecordFailure(w) PROVE RowMove(j)
  <2>1. PICK r \in BOOLEAN : Fail(w, r)
    BY <1>8 DEF RecordFailure
  <2> QED BY <1>0, <2>1, FailEffect DEF HeldBy, RowMove
<1>9. ASSUME NEW w \in Workers,
             FindNothing(w) \/ DropStaleWork(w) \/ PublishFailure(w) \/ CrashWorker(w)
      PROVE  RowMove(j)
  BY <1>9 DEF FindNothing, ClaimNothing, DropStaleWork, DiscardStale, PublishFailure,
              CrashWorker, Crash, qvars, RowMove
<1>10. ASSUME UNCHANGED vars PROVE RowMove(j)
  BY <1>10 DEF vars, RowMove
<1> QED BY <1>1, <1>2, <1>3, <1>4, <1>5, <1>6, <1>7, <1>8, <1>9, <1>10 DEF Next, SettleStep

(* No row is ever deleted.                                                 *)
LEMMA RowsRemain ==
  ASSUME PInv, [Next]_vars, NEW j \in Job, Present(j)
  PROVE  Present(j)'
BY RowMoves DEF RowMove, Present

(* What a step of execute_job does to its worker.                          *)
LEMMA GoesTo ==
  ASSUME PInv, NEW w \in Workers, NEW pc, Goto(w, pc)
  PROVE  task'[w].pc = pc /\ task'[w].job = task[w].job
BY DEF Goto, PInv, TypeOK, Task

LEMMA FailsTo ==
  ASSUME PInv, NEW w \in Workers, ReturnFailure(w)
  PROVE  /\ task'[w].pc \in {"retryable", "terminal"} /\ task'[w].job = task[w].job
         /\ FinishExecution(w)
BY GoesTo, PipelineConstants DEF ReturnFailure, Return

(* The job whose code a worker is in.                                      *)
LEMMA AtWork ==
  ASSUME PInv, NEW w \in Workers, exec[w].phase = "executing"
  PROVE  /\ task[w].pc \in Steps /\ task[w].pc # "loop"
         /\ task[w].job = exec[w].job /\ task[w].job \in Job
         /\ task[w].job.kind \in Core /\ task[w].job.gen <= generation
<1>1. task[w].pc \in Steps /\ task[w].pc # "loop" /\ task[w].job = exec[w].job
  BY DEF PInv, Linked, Steps
<1>2. task[w].job \in Job /\ task[w].job.gen <= generation
  BY <1>1 DEF PInv, Grounded
<1> QED BY <1>1, <1>2, KindParts

(* The worker keeps its job, and goes on in the order of the code.         *)
JobMove(w) ==
    LET from == task[w].pc
        to == task'[w].pc
    IN  \/ /\ task[w].job.kind = "prepare_document"
           /\ \/ from = "enqueue_chat" /\ to = "enqueue_refs" /\ EnqueueFollowUp(w, "index_chat")
              \/ /\ from = "enqueue_refs" /\ to = "enqueue_rest"
                 /\ EnqueueFollowUp(w, "resolve_connections")
              \/ from = "enqueue_rest" /\ to = "ok"
        \/ task[w].job.kind \in Artifacts /\ to = "ok"
        \/ to \notin {"loop", "enqueue_refs", "enqueue_rest", "ok"}

LEMMA JobMoves ==
  ASSUME PInv, NEW w \in Workers, JobStep(w)
  PROVE  /\ exec[w].phase = "executing" /\ generation' = generation
         /\ task'[w].job = task[w].job
         /\ JobMove(w)
<1>1. exec[w].phase = "executing"
  BY DEF JobStep, ReadProcessing, Fetch, PersistParsedDocument, PersistDocument,
     EnqueueChat, EnqueueRefs, EnqueueRest, BeginArtifact, BuildArtifact,
     PublishArtifact, At
<1>2. generation' = generation
  BY JobKeeps DEF Keeps
<1> DEFINE Goal == task'[w].job = task[w].job /\ JobMove(w)
<1>3. ASSUME NEW pc \in (Steps \cup Results) \ {"enqueue_refs", "enqueue_rest", "ok"}, Goto(w, pc)
      PROVE  Goal
  BY <1>3, GoesTo DEF JobMove, Steps, Results
<1>4. ASSUME ReturnFailure(w) \/ ReturnStale(w) \/ Return(w, "retryable") \/ Return(w, "stale")
      PROVE  Goal
  BY <1>3, <1>4, FailsTo DEF ReturnStale, Return, Results, Steps, JobMove
<1>5. ASSUME ReadProcessing(w) \/ PersistDocument(w) PROVE Goal
  BY <1>3, <1>4, <1>5 DEF ReadProcessing, PersistDocument, Steps
<1>6. ASSUME NEW next \in Steps \ ParsedSteps, NEW pc, NEW stage, Fetch(w, pc, stage, next)
      PROVE  Goal
  <2>1. next \in (Steps \cup Results) \ {"enqueue_refs", "enqueue_rest", "ok"}
    BY DEF Steps, ParsedSteps
  <2> QED BY <1>3, <1>4, <1>6, <2>1 DEF Fetch
<1>7. ASSUME PersistParsedDocument(w) PROVE Goal
  <2>1. CASE task' = [v \in Workers |->
                        [task[v] EXCEPT !.fresh = FALSE,
                                        !.pc = IF v = w THEN "document" ELSE @]]
    <3>1. task[w] \in Task
      BY DEF PInv, TypeOK
    <3>2. task'[w].pc = "document" /\ task'[w].job = task[w].job
      BY <2>1, <3>1 DEF Task
    <3> QED BY <3>2 DEF JobMove
  <2> QED BY <1>4, <1>7, <2>1 DEF PersistParsedDocument
<1>8. ASSUME EnqueueChat(w) \/ EnqueueRefs(w) \/ EnqueueRest(w) PROVE Goal
  BY <1>4, <1>8, GoesTo DEF EnqueueChat, EnqueueRefs, EnqueueRest, At, Return, JobMove
<1>9. ASSUME NEW kind \in Artifacts,
             BeginArtifact(w, kind) \/ BuildArtifact(w, kind) \/ PublishArtifact(w, kind)
      PROVE  Goal
  <2>1. CASE BeginArtifact(w, kind)
    BY <1>3, <1>4, <2>1 DEF BeginArtifact, Steps
  <2>2. CASE BuildArtifact(w, kind)
    <3>1. CASE task' = [task EXCEPT ![w].pc = "publish", ![w].fresh = TRUE]
      <4>1. task'[w].pc = "publish" /\ task'[w].job = task[w].job
        BY <3>1 DEF PInv, TypeOK, Task
      <4> QED BY <4>1 DEF JobMove
    <3> QED BY <1>4, <2>2, <3>1 DEF BuildArtifact
  <2>3. CASE PublishArtifact(w, kind)
    BY <1>4, <2>3, GoesTo DEF PublishArtifact, Return, At, JobMove
  <2> QED BY <1>9, <2>1, <2>2, <2>3
<1>10. {"license", "pdf", "parsing", "persist"} \subseteq Steps \ ParsedSteps
  BY DEF Steps, ParsedSteps
<1> HIDE DEF Goal
<1>11. Goal
  BY <1>5, <1>6, <1>7, <1>8, <1>9, <1>10 DEF JobStep, Artifacts
<1> QED BY <1>1, <1>2, <1>11 DEF Goal

(* What any step does to a worker.                                         *)
LEMMA WorkerMoves ==
  ASSUME PInv, [Next]_vars, NEW w \in Workers
  PROVE  \/ task'[w].pc = task[w].pc /\ task'[w].job = task[w].job
         \/ task'[w].pc = "loop"
         \/ \E j \in Job : ClaimJob(w, j)
         \/ JobStep(w)
         \/ RecordFailure(w)
<1>1. CASE UNCHANGED task
  BY <1>1
<1>2. CASE \/ \E retry \in BOOLEAN : PrepareRequest(retry)
           \/ ObserveNewVersion \/ PassTime \/ UNCHANGED vars
           \/ \E v \in Workers : SweepExhausted(v)
  BY <1>1, <1>2 DEF PrepareRequest, ObserveNewVersion, PassTime, pvars, vars, SweepExhausted
<1>3. ASSUME NEW v \in Workers \ {w},
             JobStep(v) \/ SettleStep(v) \/ (\E j \in Job : ClaimJob(v, j))
               \/ FindNothing(v) \/ CrashWorker(v)
      PROVE  task'[w].pc = task[w].pc /\ task'[w].job = task[w].job
  BY <1>3, MovesAlone
<1>4. ASSUME \/ FindNothing(w) \/ CrashWorker(w)
             \/ CompleteJob(w) \/ DropStaleWork(w) \/ PublishFailure(w)
      PROVE  UNCHANGED task \/ task'[w].pc = "loop"
  BY <1>4 DEF FindNothing, pvars, CrashWorker, CompleteJob, DropStaleWork, PublishFailure,
              IdleTask, PInv, TypeOK
<1> QED BY <1>1, <1>2, <1>3, <1>4 DEF Next, SettleStep

(* A failure that is recorded is published by the worker that still held   *)
(* the lease, and by no other.                                             *)
LEMMA RecordMoves ==
  ASSUME PInv, NEW w \in Workers, RecordFailure(w)
  PROVE  /\ task[w].pc \in {"retryable", "terminal"} /\ task[w].job = exec[w].job
         /\ exec[w].phase = "settling" /\ task[w].job \in Job
         /\ UNCHANGED <<generation, proc, document, chunks>>
         /\ \/ task'[w].pc = "loop"
            \/ /\ HeldBy(w, task[w].job)
               /\ task'[w].pc \in Marks /\ task'[w].job = task[w].job
               /\ task'[w].pc = "mark_retryable" => jobs'[task[w].job].state = "failed"
<1>1. /\ task[w].pc \in {"retryable", "terminal"} /\ task[w].job = exec[w].job
      /\ exec[w].phase = "settling" /\ task[w].job \in Job
      /\ task \in [Workers -> Task] /\ IdleTask.pc = "loop"
  BY AtSettling DEF RecordFailure, Settling, Results
<1>2. UNCHANGED <<generation, proc, document, chunks>>
  BY DEF RecordFailure, Fail
<1> DEFINE j == task[w].job
           retryable == task[w].pc = "retryable"
           mark == IF MayRetry(w, retryable) THEN "mark_retry"
                   ELSE IF retryable THEN "mark_retryable" ELSE "mark_terminal"
<1>3. CASE ~HeldBy(w, j)
  BY <1>1, <1>2, <1>3 DEF RecordFailure
<1>4. CASE HeldBy(w, j)
  <2>1. task' = [task EXCEPT ![w].pc = mark]
    BY <1>4 DEF RecordFailure
  <2>2. task'[w].pc = mark /\ task'[w].job = j /\ mark \in Marks
    BY <1>1, <2>1 DEF Task, Marks
  <2>3. ASSUME mark = "mark_retryable" PROVE jobs'[j].state = "failed"
    <3>1. ~MayRetry(w, retryable) /\ Fail(w, retryable)
      BY <2>3 DEF RecordFailure
    <3>2. jobs' = [jobs EXCEPT ![j] = Settled(jobs[j], "failed")]
      BY <1>1, <1>4, <3>1 DEF Fail
    <3> QED BY <1>1, <3>2, WrittenRows DEF JobState, PInv, TypeOK, QTypeOK
  <2> HIDE DEF mark
  <2> QED BY <1>1, <1>2, <1>4, <2>2, <2>3
<1> QED BY <1>3, <1>4

(* What a step writes to the processing row and to the chat corpus: the    *)
(* introduction, a capability, or a stage.                                 *)
Introduces(w) ==
    /\ exec[w].phase = "executing" /\ task[w].pc = "persist"
    /\ task[w].job = CurrentJob("prepare_document")
    /\ proc' = [proc EXCEPT !.stage = "introduction_ready", !.introduction = TRUE]
    /\ chunks' = FALSE

PublishesOne(w, kind) ==
    /\ exec[w].phase = "executing" /\ task[w].job = CurrentJob(kind)
    /\ Publish(kind)
    /\ chunks' = (chunks \/ kind = "index_chat")

WritesStage(stage) ==
    /\ proc' = [proc EXCEPT !.stage = stage]
    /\ chunks' = chunks

RowWrite ==
    \/ proc' = proc /\ chunks' = chunks
    \/ ObserveNewVersion
    \/ \E w \in Workers : Introduces(w)
    \/ \E w \in Workers, kind \in Artifacts : PublishesOne(w, kind)
    \/ \E stage \in RunningStages \cup {"failed_terminal"} : WritesStage(stage)
    \/ /\ WritesStage("failed_retryable")
       /\ \E w \in Workers :
            \/ SweepExhausted(w) /\ \E j \in Job : Exhausted(j) /\ j.gen = generation
            \/ PublishFailure(w) /\ task[w].pc = "mark_retryable" /\ ~Stale(w)

LEMMA CurrentWork ==
  ASSUME PInv, NEW w \in Workers, NEW kind \in Core, exec[w].phase = "executing",
         task[w].job.kind = kind, ~Stale(w)
  PROVE  task[w].job = CurrentJob(kind)
BY AtWork DEF Stale, CurrentJob, Job

LEMMA JobWrites ==
  ASSUME PInv, NEW w \in Workers, JobStep(w)
  PROVE  RowWrite
<1>0. {"prepare_document", "index_chat", "resolve_connections"} \subseteq Core
  BY DEF Core
<1>1. CASE proc' = proc /\ chunks' = chunks
  BY <1>1 DEF RowWrite
<1>2. ASSUME NEW stage \in RunningStages, SetStage(stage), chunks' = chunks PROVE RowWrite
  BY <1>2 DEF SetStage, RowWrite, WritesStage
<1>3. ASSUME ReadProcessing(w) \/ PersistDocument(w) \/ EnqueueChat(w) \/ EnqueueRefs(w)
               \/ EnqueueRest(w)
      PROVE  RowWrite
  BY <1>1, <1>3 DEF ReadProcessing, PersistDocument, EnqueueChat, EnqueueRefs,
                    EnqueueRest, ReturnStale
<1>4. ASSUME NEW stage \in RunningStages, NEW pc, NEW next, Fetch(w, pc, stage, next)
      PROVE  RowWrite
  BY <1>1, <1>2, <1>4 DEF Fetch, ReturnStale
<1>5. ASSUME PersistParsedDocument(w) PROVE RowWrite
  <2>1. CASE /\ ~Stale(w) /\ chunks' = FALSE
             /\ proc' = [proc EXCEPT !.stage = "introduction_ready", !.introduction = TRUE]
    BY <1>0, <1>5, <2>1, CurrentWork DEF PersistParsedDocument, At, RowWrite, Introduces
  <2> QED BY <1>1, <1>5, <2>1 DEF PersistParsedDocument, ReturnStale
<1>6. ASSUME NEW kind \in Artifacts,
             BeginArtifact(w, kind) \/ BuildArtifact(w, kind) \/ PublishArtifact(w, kind)
      PROVE  RowWrite
  <2>1. CASE SetStage(ArtifactStage(kind)) /\ chunks' = chunks
    BY <1>2, <2>1 DEF ArtifactStage, RunningStages
  <2>2. CASE /\ PublishArtifact(w, kind) /\ ~Stale(w) /\ Publish(kind)
             /\ chunks' = (chunks \/ kind = "index_chat")
    BY <1>0, <2>2, CurrentWork DEF PublishArtifact, At, RowWrite, PublishesOne, Artifacts
  <2> QED BY <1>1, <1>6, <2>1, <2>2
          DEF BeginArtifact, BuildArtifact, PublishArtifact, ReturnStale
<1>7. {"fetching_license", "fetching_pdf", "parsing_pdf"} \subseteq RunningStages
  BY DEF RunningStages
<1> QED BY <1>3, <1>4, <1>5, <1>6, <1>7 DEF JobStep, Artifacts

LEMMA EveryWrite ==
  ASSUME PInv, [Next]_vars
  PROVE  RowWrite
<1>1. CASE proc' = proc /\ chunks' = chunks
  BY <1>1 DEF RowWrite
<1>2. ASSUME NEW retry \in BOOLEAN, PrepareRequest(retry) PROVE RowWrite
  BY <1>2 DEF PrepareRequest, NextStage, RunningStages, RowWrite, WritesStage
<1>3. ASSUME NEW w \in Workers, SweepExhausted(w) PROVE RowWrite
  BY <1>1, <1>3 DEF SweepExhausted, RowWrite, WritesStage
<1>4. ASSUME NEW w \in Workers, PublishFailure(w) PROVE RowWrite
  <2>1. CASE Stale(w)
    BY <1>1, <1>4, <2>1 DEF PublishFailure
  <2>2. CASE ~Stale(w) /\ task[w].pc = "mark_retryable"
    BY <1>4, <2>2 DEF PublishFailure, RowWrite, WritesStage
  <2>3. CASE ~Stale(w) /\ task[w].pc # "mark_retryable"
    <3>1. PICK stage \in RunningStages \cup {"failed_terminal"} : WritesStage(stage)
      BY <1>4, <2>3 DEF PublishFailure, Marks, RetryStage, ArtifactStage, RunningStages,
                        WritesStage
    <3> QED BY <3>1 DEF RowWrite
  <2> QED BY <2>1, <2>2, <2>3
<1>5. ASSUME NEW w \in Workers,
             \/ (\E j \in Job : ClaimJob(w, j)) \/ FindNothing(w) \/ CrashWorker(w)
             \/ CompleteJob(w) \/ DropStaleWork(w) \/ RecordFailure(w)
      PROVE  RowWrite
  BY <1>1, <1>5 DEF ClaimJob, FindNothing, pvars, CrashWorker, CompleteJob, DropStaleWork,
                    RecordFailure
<1>6. ASSUME ObserveNewVersion \/ PassTime \/ UNCHANGED vars PROVE RowWrite
  BY <1>1, <1>6 DEF PassTime, pvars, vars, RowWrite
<1> QED BY <1>2, <1>3, <1>4, <1>5, <1>6, JobWrites DEF Next, SettleStep

-----------------------------------------------------------------------------
(* Each part of KInv is preserved.                                         *)

(* A follow-up that was there, or is being inserted, is there afterwards.  *)
LEMMA InsertedRow ==
  ASSUME PInv, NEW w \in Workers, task[w].pc # "loop", NEW kind \in Artifacts,
         EnqueueFollowUp(w, kind)
  PROVE  jobs'[FollowUp(w, kind)].state # "absent"
<1>1. jobs \in [Job -> Row] /\ FollowUp(w, kind) \in Job
  BY FollowUpIsJob DEF PInv, TypeOK, QTypeOK
<1> QED BY <1>1, WrittenRows DEF EnqueueFollowUp, EnqueueOnce, qvars

LEMMA WorkerKeepsStep ==
  ASSUME KInv, [Next]_vars, NEW w \in Workers
  PROVE  WorkerKeeps(w)'
<1>0. PInv /\ WorkerKeeps(w)
  BY DEF KInv
<1>1. ASSUME task[w].pc # "loop"
      PROVE  /\ task[w].job \in Job /\ jobs'[task[w].job].state # "absent"
             /\ \A kind \in Artifacts :
                  /\ FollowUp(w, kind) \in Job
                  /\ Present(FollowUp(w, kind)) => jobs'[FollowUp(w, kind)].state # "absent"
  <2>1. task[w].job \in Job
    BY <1>0, <1>1 DEF PInv, Grounded
  <2> QED BY <1>0, <1>1, <2>1, RowsRemain, FollowUpIsJob DEF WorkerKeeps, Present
<1>2. CASE task'[w].pc = "loop"
  BY <1>2 DEF WorkerKeeps
<1>3. ASSUME task'[w].pc # "loop", task[w].pc # "loop", task'[w].job = task[w].job,
             task[w].job.kind = "prepare_document" =>
               \A kind \in Inserted(task'[w].pc) : jobs'[FollowUp(w, kind)].state # "absent"
      PROVE  WorkerKeeps(w)'
  <2>1. \A kind : FollowUp(w, kind)' = FollowUp(w, kind)
    BY <1>3 DEF FollowUp
  <2> QED BY <1>1, <1>3, <2>1 DEF WorkerKeeps, Present
<1>4. ASSUME task'[w].pc \notin {"loop", "enqueue_refs", "enqueue_rest", "ok"},
             task[w].pc # "loop", task'[w].job = task[w].job
      PROVE  WorkerKeeps(w)'
  BY <1>3, <1>4 DEF Inserted
<1>5. ASSUME task'[w].pc = task[w].pc, task'[w].job = task[w].job PROVE WorkerKeeps(w)'
  <2>1. CASE task[w].pc # "loop"
    <3>1. Inserted(task[w].pc) \subseteq Artifacts
      BY DEF Inserted, Artifacts
    <3> QED BY <1>0, <1>1, <1>3, <1>5, <2>1, <3>1 DEF WorkerKeeps
  <2> QED BY <1>2, <1>5, <2>1
<1>6. ASSUME NEW j \in Job, ClaimJob(w, j) PROVE WorkerKeeps(w)'
  <2>1. task'[w].job = j /\ task'[w].pc = FirstStep(j.kind)
    BY <1>0, <1>6 DEF ClaimJob, PInv, TypeOK
  <2>2. Present(j)
    BY <1>6 DEF ClaimJob, Claim, Claimable, LeaseExpired, Present
  <2>3. jobs'[j].state # "absent"
    BY <1>0, <2>2, RowsRemain DEF Present
  <2> QED BY <2>1, <2>3 DEF WorkerKeeps, FirstStep, Inserted, Present
<1>7. ASSUME JobStep(w) PROVE WorkerKeeps(w)'
  <2>1. /\ task[w].pc # "loop" /\ task'[w].job = task[w].job /\ JobMove(w)
    BY <1>0, <1>7, JobMoves, AtWork
  <2>2. CASE task'[w].pc \notin {"loop", "enqueue_refs", "enqueue_rest", "ok"}
    BY <1>4, <2>1, <2>2
  <2>3. CASE task[w].job.kind \in Artifacts /\ task'[w].pc = "ok"
    BY <1>3, <2>1, <2>3 DEF Artifacts
  <2>4. CASE /\ task[w].pc = "enqueue_chat" /\ task'[w].pc = "enqueue_refs"
             /\ EnqueueFollowUp(w, "index_chat")
    BY <1>0, <1>3, <2>1, <2>4, InsertedRow DEF Inserted, Artifacts
  <2>5. CASE /\ task[w].pc = "enqueue_refs" /\ task'[w].pc = "enqueue_rest"
             /\ EnqueueFollowUp(w, "resolve_connections")
             /\ task[w].job.kind = "prepare_document"
    <3>1. jobs'[FollowUp(w, "index_chat")].state # "absent"
      BY <1>0, <1>1, <2>1, <2>5 DEF WorkerKeeps, Inserted, Artifacts
    <3>2. jobs'[FollowUp(w, "resolve_connections")].state # "absent"
      BY <1>0, <2>1, <2>5, InsertedRow DEF Artifacts
    <3> QED BY <1>3, <2>1, <2>5, <3>1, <3>2 DEF Inserted, Artifacts
  <2>6. CASE /\ task[w].pc = "enqueue_rest" /\ task'[w].pc = "ok"
             /\ task[w].job.kind = "prepare_document"
    BY <1>0, <1>1, <1>3, <2>1, <2>6 DEF WorkerKeeps, Inserted
  <2> QED BY <2>1, <2>2, <2>3, <2>4, <2>5, <2>6 DEF JobMove
<1>8. ASSUME RecordFailure(w) PROVE WorkerKeeps(w)'
  BY <1>0, <1>2, <1>4, <1>8, RecordMoves DEF Marks
<1> QED BY <1>0, <1>2, <1>5, <1>6, <1>7, <1>8, WorkerMoves

LEMMA RowKeepsStep ==
  ASSUME KInv, [Next]_vars, NEW j \in Job
  PROVE  RowKeeps(j)'
<1>0. PInv /\ RowKeeps(j) /\ j.gen \in Nat /\ generation \in Nat
  BY JobParts DEF KInv, PInv, TypeOK, QTypeOK, Generations
<1>1. generation' \in {generation, generation + 1}
      /\ (ObserveNewVersion => generation' = generation + 1)
  BY <1>0, EveryStepKeeps DEF Keeps, ObserveNewVersion, NewArxivVersion
<1>2. ASSUME jobs'[j].state = "cancelled" PROVE j.gen < generation'
  <2>1. CASE jobs[j].state = "cancelled"
    BY <1>0, <1>1, <2>1 DEF RowKeeps
  <2>2. CASE Live(j) /\ ObserveNewVersion
    <3>1. j.gen <= generation
      BY <1>0, <2>2 DEF PInv, Founded, Live
    <3> QED BY <1>0, <1>1, <2>2, <3>1
  <2> QED BY <1>0, <1>2, <2>1, <2>2, RowMoves DEF RowMove
<1>3. ASSUME j.kind = "prepare_document", jobs'[j].state = "succeeded", NEW kind \in Artifacts
      PROVE  jobs'[[gen |-> j.gen, kind |-> kind]].state # "absent"
  <2> DEFINE k == [gen |-> j.gen, kind |-> kind]
  <2>1. k \in Job
    BY JobParts, PipelineConstants DEF Job, Artifacts, Core
  <2>2. Present(k)
    <3>1. CASE jobs[j].state = "succeeded"
      BY <1>0, <1>3, <3>1 DEF RowKeeps
    <3>2. ASSUME NEW w \in Workers, task[w].pc = "ok", task[w].job = j
          PROVE  Present(k)
      BY <1>3, <3>2 DEF KInv, WorkerKeeps, Inserted, FollowUp
    <3> QED BY <1>0, <1>3, <3>1, <3>2, RowMoves DEF RowMove
  <2> HIDE DEF k
  <2>3. jobs'[k].state # "absent"
    BY <1>0, <2>1, <2>2, RowsRemain DEF Present
  <2> QED BY <2>3 DEF k
<1> QED BY <1>2, <1>3 DEF RowKeeps, Present

LEMMA IntroductionKeepsStep ==
  ASSUME KInv, [Next]_vars
  PROVE  IntroductionKeeps'
<1>0. PInv
  BY DEF KInv
<1>1. CASE ObserveNewVersion
  BY <1>1 DEF ObserveNewVersion, NotRequested, IntroductionKeeps
<1>2. ASSUME generation' = generation, Present(CurrentJob("prepare_document"))
      PROVE  IntroductionKeeps'
  BY <1>0, <1>2, CurrentIsJob, RowsRemain DEF IntroductionKeeps, CurrentJob, Core, Present
<1>3. ASSUME generation' = generation, ~proc.introduction, proc'.introduction
      PROVE  Present(CurrentJob("prepare_document"))
  <2>1. PICK w \in Workers : Introduces(w)
    <3>1. proc \in Processing
      BY <1>0 DEF PInv, TypeOK
    <3>2. /\ proc' # proc
          /\ ~ \E stage : WritesStage(stage)
          /\ ~ \E kind : Publish(kind)
      BY <1>3, <3>1 DEF Processing, WritesStage, Publish
    <3>3. ~ObserveNewVersion
      BY <1>3 DEF ObserveNewVersion, NotRequested
    <3> QED BY <1>0, <3>2, <3>3, EveryWrite DEF RowWrite, PublishesOne
  <2>2. task[w].pc # "loop" /\ task[w].job = CurrentJob("prepare_document")
    BY <2>1 DEF Introduces
  <2> QED BY <2>2 DEF KInv, WorkerKeeps
<1>4. CASE generation' = generation
  BY <1>2, <1>3, <1>4 DEF KInv, IntroductionKeeps
<1> QED BY <1>0, <1>1, <1>4, EveryStepKeeps DEF Keeps

LEMMA KInitInv == Init => KInv
<1> SUFFICES ASSUME Init PROVE KInv
  OBVIOUS
<1>1. PInv
  BY PInitInv
<1>2. \A w \in Workers : WorkerKeeps(w)
  BY DEF Init, IdleTask, WorkerKeeps
<1>3. \A j \in Job : RowKeeps(j)
  BY DEF Init, QInit, AbsentRow, RowKeeps
<1>4. IntroductionKeeps
  BY DEF Init, NotRequested, IntroductionKeeps
<1> QED BY <1>1, <1>2, <1>3, <1>4 DEF KInv

LEMMA KStepInv == KInv /\ [Next]_vars => KInv'
BY PStepInv, WorkerKeepsStep, RowKeepsStep, IntroductionKeepsStep DEF KInv

(* The invariant of the rows and the workers' programs holds in the        *)
(* pipeline.                                                               *)
THEOREM RemainingWorkInvariant == Spec => []KInv
BY KInitInv, KStepInv, PTL DEF Spec

(* Once the introduction is published, a capability that is missing has a  *)
(* row that is not settled, or the prepare job that inserts it has.        *)
THEOREM PipelineRemainingWorkIsKept == Spec => []RemainingWorkIsKept
<1>1. KInv => RemainingWorkIsKept
  <2> SUFFICES ASSUME KInv, proc.introduction,
                      NEW kind \in Artifacts, ~Capability(kind),
                      ~Open(CurrentJob("prepare_document"))
               PROVE  Open(CurrentJob(kind))
    BY DEF RemainingWorkIsKept, Artifacts
  <2> DEFINE parent == CurrentJob("prepare_document")
             child == CurrentJob(kind)
  <2>0. PInv /\ generation \in Nat
    BY DEF KInv, PInv, TypeOK, QTypeOK, Generations
  <2>1. /\ parent \in Job /\ parent.gen = generation /\ parent.kind = "prepare_document"
        /\ child \in Job /\ child.gen = generation /\ child.kind = kind
    BY <2>0, CurrentIsJob DEF Core, Artifacts
  <2>2. \A j \in Job : jobs[j].state \in JobState
    BY <2>0 DEF PInv, TypeOK, QTypeOK, Row
  <2>3. child = [gen |-> parent.gen, kind |-> kind]
    BY <2>1 DEF CurrentJob
  <2> HIDE DEF parent, child
  <2>4. \A j \in Job : j.gen = generation => jobs[j].state # "cancelled"
    BY <2>0, <2>1 DEF KInv, RowKeeps
  <2>5. Present(parent)
    BY DEF KInv, IntroductionKeeps, parent
  <2>6. jobs[parent].state = "succeeded"
    BY <2>1, <2>2, <2>4, <2>5 DEF Open, JobState, Present, parent
  <2>7. Present(child)
    BY <2>1, <2>3, <2>6 DEF KInv, RowKeeps
  <2>8. jobs[child].state # "succeeded"
    BY <2>0, <2>1 DEF PInv, Founded
  <2>9. jobs[child].state \in {"queued", "running", "failed"}
    BY <2>1, <2>2, <2>4, <2>7, <2>8 DEF JobState, Present
  <2> QED BY <2>9 DEF Open, child
<1> QED BY <1>1, RemainingWorkInvariant, PTL
-----------------------------------------------------------------------------
(* ChatHasCorpus.  Where no lease runs out under a live execution, there   *)
(* is at most one execution of a job of the current generation, and what   *)
(* it has read of the document stays true until it acts on it.             *)

HoldsLease(w) ==
    exec[w].phase \in {"executing", "settling"} /\ exec[w].job.gen = generation =>
      HeldBy(w, exec[w].job) /\ jobs[exec[w].job].lease > 0

Preparing(w) ==
    exec[w].phase = "executing" /\ task[w].job = CurrentJob("prepare_document")

(* The document is stored by the step "document", and by no one else       *)
(* while an execution is on its way there.                                 *)
DocumentSteps(w) ==
    Preparing(w) =>
      /\ task[w].pc \in {"license", "pdf", "parsing", "persist", "document"} => ~document
      /\ task[w].pc \in {"enqueue_chat", "enqueue_refs", "enqueue_rest"} => document

(* The last failure of the prepare job is recorded and not published yet.  *)
Reporting(w) ==
    task[w].pc = "mark_retryable" /\ task[w].job = CurrentJob("prepare_document")

(* As long as the document may still be parsed, no artifact job exists     *)
(* that could be indexing it, and no retry can bring one in.               *)
Parsing ==
    /\ ~document
    /\ Live(CurrentJob("prepare_document")) \/ \E w \in Workers : Reporting(w)

Unparsed ==
    Parsing =>
      /\ \A kind \in Artifacts : ~Present(CurrentJob(kind))
      /\ proc.stage # "failed_retryable"

OneReport ==
    ~document =>
      \A w \in Workers : Reporting(w) =>
        /\ jobs[CurrentJob("prepare_document")].state = "failed"
        /\ \A v \in Workers : Reporting(v) => v = w

Unrequested ==
    proc.stage = "not_requested" => \A kind \in Core : ~Present(CurrentJob(kind))

ChatIsIndexed == proc.chat => Present(CurrentJob("index_chat"))

(* The inductive invariant for ChatHasCorpus.                              *)
CInv ==
    /\ KInv
    /\ LeasesMayLapse = FALSE
    /\ \A w \in Workers : HoldsLease(w) /\ DocumentSteps(w)
    /\ document => proc.introduction
    /\ Unparsed
    /\ OneReport
    /\ Unrequested
    /\ ChatIsIndexed
    /\ ChatHasCorpus

(* A step within a generation.                                             *)
Within == [Next]_vars /\ generation' = generation

LEMMA WithinCurrent ==
  ASSUME PInv, Within
  PROVE  /\ \A kind : CurrentJob(kind)' = CurrentJob(kind)
         /\ Keeps /\ ~ObserveNewVersion
<1>1. ~ObserveNewVersion
  BY DEF Within, ObserveNewVersion, NewArxivVersion, PInv, TypeOK, QTypeOK, Generations
<1> QED BY <1>1, EveryStepKeeps DEF Within, CurrentJob

(* What a step of execute_job does to the queue's view of the worker.      *)
LEMMA JobExec ==
  ASSUME NEW w \in Workers, JobStep(w)
  PROVE  exec' = exec \/ FinishExecution(w)
BY DEF JobStep, ReadProcessing, Fetch, PersistParsedDocument, PersistDocument,
       EnqueueChat, EnqueueRefs, EnqueueRest, EnqueueFollowUp, EnqueueOnce,
       BeginArtifact, BuildArtifact, PublishArtifact, ReturnStale, ReturnFailure,
       Return, qvars

LEMMA Finishes ==
  ASSUME PInv, NEW w \in Workers, FinishExecution(w)
  PROVE  exec[w].phase = "executing" /\ exec'[w].job = exec[w].job
         /\ exec'[w].phase = "settling"
<1>1. exec \in [Workers -> Exec] /\ exec[w] \in Exec
  BY DEF PInv, TypeOK, QTypeOK
<1> QED BY <1>1 DEF FinishExecution, Exec

(* A worker is executing or settling because it claimed, or was before.    *)
LEMMA ExecMoves ==
  ASSUME PInv, [Next]_vars, NEW w \in Workers, exec'[w].phase \in {"executing", "settling"}
  PROVE  \/ \E j \in Job : ClaimJob(w, j)
         \/ /\ exec[w].phase \in {"executing", "settling"}
            /\ exec'[w].job = exec[w].job
            /\ exec'[w].phase = "executing" => exec[w].phase = "executing"
<1>0. exec \in [Workers -> Exec] /\ IdleExec.phase = "idle"
  BY DEF PInv, TypeOK, QTypeOK, IdleExec
<1>1. CASE exec'[w] = exec[w]
  BY <1>1
<1>2. CASE \/ \E retry \in BOOLEAN : PrepareRequest(retry)
           \/ ObserveNewVersion \/ PassTime \/ UNCHANGED vars
  BY <1>1, <1>2 DEF PrepareRequest, PrepareJobs, ObserveNewVersion, NewArxivVersion,
                    PassTime, Tick, vars
<1>3. ASSUME NEW v \in Workers, SweepExhausted(v)
      PROVE  exec'[w] = exec[w] \/ exec'[w].phase = "swept"
  BY <1>0, <1>3 DEF SweepExhausted, FailExhaustedLeases, Exec
<1>4. ASSUME NEW v \in Workers \ {w},
             JobStep(v) \/ SettleStep(v) \/ (\E j \in Job : ClaimJob(v, j))
               \/ FindNothing(v) \/ CrashWorker(v)
      PROVE  exec'[w] = exec[w]
  BY <1>4, MovesAlone
<1>5. ASSUME \/ FindNothing(w) \/ CrashWorker(w) \/ SettleStep(w)
      PROVE  exec'[w] = exec[w] \/ exec'[w].phase = "idle"
  BY <1>0, <1>5 DEF FindNothing, ClaimNothing, CrashWorker, Crash, SettleStep, CompleteJob,
                    Complete, DropStaleWork, DiscardStale, RecordFailure, Fail,
                    PublishFailure, Release, qvars
<1>6. ASSUME JobStep(w), exec'[w] # exec[w]
      PROVE  exec[w].phase = "executing" /\ exec'[w].job = exec[w].job
             /\ exec'[w].phase = "settling"
  BY <1>6, JobExec, Finishes
<1>7. ASSUME NEW v \in Workers,
             \/ SweepExhausted(v) \/ FindNothing(v) \/ CrashWorker(v) \/ JobStep(v)
             \/ SettleStep(v) \/ (\E j \in Job : ClaimJob(v, j))
      PROVE  \/ \E j \in Job : ClaimJob(w, j)
             \/ exec'[w] = exec[w]
             \/ exec[w].phase = "executing" /\ exec'[w].job = exec[w].job
                /\ exec'[w].phase = "settling"
  BY <1>3, <1>4, <1>5, <1>6, <1>7
<1> QED BY <1>1, <1>2, <1>7 DEF Next

(* The lease of a live execution of the current generation is neither      *)
(* taken over nor swept, and no one else settles its row.                  *)
LEMMA HeldRowStays ==
  ASSUME CInv, Within, NEW w \in Workers,
         exec[w].phase \in {"executing", "settling"}, exec[w].job.gen = generation,
         exec'[w].phase \in {"executing", "settling"}
  PROVE  jobs'[exec[w].job] = jobs[exec[w].job]
<1> DEFINE j == exec[w].job
<1>0. PInv /\ jobs \in [Job -> Row] /\ exec \in [Workers -> Exec] /\ IdleExec.phase = "idle"
      /\ LeasesMayLapse = FALSE
  BY DEF CInv, KInv, PInv, TypeOK, QTypeOK, IdleExec
<1>1. HeldBy(w, j) /\ jobs[j].lease > 0 /\ jobs[j].state = "running"
  BY DEF CInv, HoldsLease, HeldBy
<1>2. j \in Job
  BY <1>0 DEF PInv, Linked, Grounded, Steps, Results
<1>3. jobs[j].lease # 0
  BY <1>1
<1> HIDE DEF j
<1>4. ASSUME NEW retry \in BOOLEAN, PrepareRequest(retry) PROVE jobs'[j] = jobs[j]
  BY <1>1, <1>2, <1>4 DEF PrepareRequest, PrepareJobs, Enters
<1>5. ~PassTime
  BY <1>0, <1>1 DEF PassTime, j
<1>6. ASSUME NEW v \in Workers, SweepExhausted(v) PROVE jobs'[j] = jobs[j]
  BY <1>2, <1>3, <1>6 DEF SweepExhausted, FailExhaustedLeases, Exhausted, LeaseExpired
<1>7. ASSUME NEW v \in Workers, NEW k \in Job, ClaimJob(v, k) PROVE jobs'[j] = jobs[j]
  <2>1. k # j
    BY <1>1, <1>3, <1>7 DEF ClaimJob, Claim, Claimable, LeaseExpired
  <2> QED BY <1>0, <1>2, <1>7, <2>1, ClaimEffect DEF ClaimJob, PInv, TypeOK
<1>8. ASSUME NEW v \in Workers, JobStep(v) PROVE jobs'[j] = jobs[j]
  BY <1>0, <1>1, <1>2, <1>8, JobRows
<1>9. ASSUME NEW v \in Workers, CompleteJob(v) PROVE jobs'[j] = jobs[j]
  <2>1. v # w
    BY <1>0, <1>9 DEF CompleteJob, Complete, Release
  <2> QED BY <1>0, <1>1, <1>2, <1>9, <2>1, CompleteEffect
          DEF CompleteJob, HeldBy, PInv, TypeOK
<1>10. ASSUME NEW v \in Workers, RecordFailure(v) PROVE jobs'[j] = jobs[j]
  <2>1. PICK r \in BOOLEAN : Fail(v, r)
    BY <1>10 DEF RecordFailure
  <2>2. v # w
    BY <1>0, <2>1 DEF Fail, Release
  <2> QED BY <1>0, <1>1, <1>2, <2>1, <2>2, FailEffect DEF HeldBy, PInv, TypeOK
<1>11. ASSUME NEW v \in Workers,
              FindNothing(v) \/ DropStaleWork(v) \/ PublishFailure(v) \/ CrashWorker(v)
       PROVE  jobs' = jobs
  BY <1>11 DEF FindNothing, ClaimNothing, DropStaleWork, DiscardStale, PublishFailure,
               CrashWorker, Crash, qvars
<1>12. ~ObserveNewVersion
  BY <1>0, WithinCurrent
<1>13. jobs'[j] = jobs[j]
  BY <1>4, <1>5, <1>6, <1>7, <1>8, <1>9, <1>10, <1>11, <1>12
     DEF Within, Next, SettleStep, vars
<1> QED BY <1>13 DEF j

LEMMA HoldsLeaseStep ==
  ASSUME CInv, Within, NEW w \in Workers
  PROVE  HoldsLease(w)'
<1> SUFFICES ASSUME exec'[w].phase \in {"executing", "settling"},
                    exec'[w].job.gen = generation'
             PROVE  /\ jobs'[exec'[w].job].state = "running"
                    /\ jobs'[exec'[w].job].owner = w
                    /\ jobs'[exec'[w].job].lease > 0
  BY DEF HoldsLease, HeldBy
<1>0. PInv /\ jobs \in [Job -> Row] /\ exec \in [Workers -> Exec]
  BY DEF CInv, KInv, PInv, TypeOK, QTypeOK
<1>1. ASSUME NEW j \in Job, ClaimJob(w, j) PROVE exec'[w].job = j /\ jobs'[j].state = "running"
                               /\ jobs'[j].owner = w /\ jobs'[j].lease > 0
  BY <1>0, <1>1, QueueConstants DEF ClaimJob, Claim, Row
<1>2. CASE /\ exec[w].phase \in {"executing", "settling"}
           /\ exec'[w].job = exec[w].job
  <2>1. HeldBy(w, exec[w].job) /\ jobs[exec[w].job].lease > 0
    BY <1>2 DEF CInv, HoldsLease, Within
  <2>2. jobs'[exec[w].job] = jobs[exec[w].job]
    BY <1>2, HeldRowStays DEF Within
  <2> QED BY <1>2, <2>1, <2>2 DEF HeldBy
<1> QED BY <1>0, <1>1, <1>2, ExecMoves DEF Within

LEMMA PreparingHolds ==
  ASSUME CInv, NEW w \in Workers, Preparing(w)
  PROVE  /\ HeldBy(w, CurrentJob("prepare_document"))
         /\ Live(CurrentJob("prepare_document"))
         /\ Present(CurrentJob("prepare_document"))
<1>1. exec[w].job = CurrentJob("prepare_document")
  BY AtWork DEF Preparing, CInv, KInv
<1>2. exec[w].job.gen = generation /\ exec[w].phase = "executing"
  BY <1>1 DEF CurrentJob, Preparing
<1> QED BY <1>1, <1>2 DEF CInv, HoldsLease, HeldBy, Live, Present

LEMMA OneExecutor ==
  ASSUME CInv, NEW v \in Workers, NEW w \in Workers, Preparing(v), Preparing(w)
  PROVE  v = w
BY PreparingHolds DEF HeldBy

(* The execution that stores the document.                                 *)
StoresDocument(w) ==
    /\ Preparing(w) /\ task[w].pc = "document" /\ proc.introduction
    /\ document' = TRUE /\ task'[w].pc = "enqueue_chat"

LEMMA DocumentMoves ==
  ASSUME PInv, Within, document' # document
  PROVE  \E w \in Workers : StoresDocument(w)
<1>1. ASSUME NEW w \in Workers, PersistDocument(w), document' # document
      PROVE  StoresDocument(w)
  <2>1. /\ exec[w].phase = "executing" /\ task[w].job.kind = "prepare_document"
        /\ task[w].pc = "document" /\ ~Stale(w) /\ document' = TRUE
        /\ Goto(w, "enqueue_chat")
    BY <1>1 DEF PersistDocument, At, ReturnStale
  <2>2. task[w].job = CurrentJob("prepare_document")
    BY <2>1, CurrentWork DEF Core
  <2>3. task'[w].pc = "enqueue_chat"
    BY <2>1, GoesTo
  <2>4. proc.introduction
    BY <2>1 DEF PInv, Grounded, ParsedSteps, Stale
  <2> QED BY <2>1, <2>2, <2>3, <2>4 DEF StoresDocument, Preparing
<1>2. ASSUME NEW w \in Workers, JobStep(w), ~PersistDocument(w) PROVE document' = document
  BY <1>2 DEF JobStep, ReadProcessing, Fetch, PersistParsedDocument, EnqueueChat,
     EnqueueRefs, EnqueueRest, BeginArtifact, BuildArtifact, PublishArtifact, ReturnStale
<1>3. ASSUME NEW w \in Workers,
             \/ SweepExhausted(w) \/ (\E j \in Job : ClaimJob(w, j)) \/ FindNothing(w)
             \/ SettleStep(w) \/ CrashWorker(w)
      PROVE  document' = document
  BY <1>3 DEF SweepExhausted, ClaimJob, FindNothing, pvars, SettleStep, CompleteJob,
              DropStaleWork, RecordFailure, PublishFailure, CrashWorker
<1>4. ASSUME \/ \E retry \in BOOLEAN : PrepareRequest(retry)
             \/ PassTime \/ UNCHANGED vars
      PROVE  document' = document
  BY <1>4 DEF PrepareRequest, PassTime, pvars, vars
<1> QED BY <1>1, <1>2, <1>3, <1>4, WithinCurrent DEF Within, Next

(* The way of a prepare job of the current generation to the document.     *)
DocumentMove(w) ==
    LET from == task[w].pc
        to == task'[w].pc
    IN  \/ /\ from = "read" /\ document' = document
           /\ to = (IF proc.introduction /\ document THEN "enqueue_chat" ELSE "license")
        \/ /\ from \in {"license", "pdf", "parsing", "persist"} /\ document' = document
           /\ to \in {"pdf", "parsing", "persist", "document"}
        \/ from = "document" /\ document' /\ to = "enqueue_chat"
        \/ /\ from \in {"enqueue_chat", "enqueue_refs"} /\ document' = document
           /\ to \in {"enqueue_refs", "enqueue_rest"}

LEMMA DocumentJobMoves ==
  ASSUME PInv, NEW w \in Workers, JobStep(w), Preparing(w), task'[w].pc \in Steps
  PROVE  DocumentMove(w)
<1>0. /\ task[w].job.kind = "prepare_document" /\ ~Stale(w)
      /\ task \in [Workers -> Task]
  BY DEF Preparing, CurrentJob, Stale, PInv, TypeOK
<1>1. ~ReturnFailure(w) /\ ~ReturnStale(w) /\ \A r \in Results : ~Return(w, r)
  <2>1. \A r \in Results : ~Return(w, r)
    BY GoesTo DEF Return, Results, Steps
  <2> QED BY <2>1, PipelineConstants DEF ReturnFailure, ReturnStale, Results
<1>2. CASE ReadProcessing(w)
  <2>1. task[w].pc = "read" /\ document' = document
        /\ Goto(w, IF proc.introduction /\ document THEN "enqueue_chat" ELSE "license")
    BY <1>1, <1>2 DEF ReadProcessing, AlreadyPrepared, At, Results
  <2> QED BY <2>1, GoesTo DEF DocumentMove
<1>3. ASSUME NEW pc \in {"license", "pdf", "parsing"}, NEW stage,
             NEW next \in {"pdf", "parsing", "persist"}, Fetch(w, pc, stage, next)
      PROVE  DocumentMove(w)
  <2>1. task[w].pc = pc /\ document' = document /\ Goto(w, next)
    BY <1>1, <1>3 DEF Fetch, At
  <2> QED BY <2>1, GoesTo DEF DocumentMove
<1>4. CASE PersistParsedDocument(w)
  <2>1. /\ task[w].pc = "persist" /\ document' = document
        /\ task' = [v \in Workers |->
                        [task[v] EXCEPT !.fresh = FALSE,
                                        !.pc = IF v = w THEN "document" ELSE @]]
    BY <1>1, <1>4 DEF PersistParsedDocument, At
  <2>2. task'[w].pc = "document"
    BY <1>0, <2>1 DEF Task
  <2> QED BY <2>1, <2>2 DEF DocumentMove
<1>5. CASE PersistDocument(w)
  <2>1. task[w].pc = "document" /\ document' = TRUE /\ Goto(w, "enqueue_chat")
    BY <1>0, <1>1, <1>5 DEF PersistDocument, At
  <2> QED BY <2>1, GoesTo DEF DocumentMove
<1>6. CASE EnqueueChat(w) \/ EnqueueRefs(w) \/ EnqueueRest(w)
  <2>1. /\ task[w].pc \in {"enqueue_chat", "enqueue_refs"} /\ document' = document
        /\ Goto(w, "enqueue_refs") \/ Goto(w, "enqueue_rest")
    BY <1>1, <1>6 DEF EnqueueChat, EnqueueRefs, EnqueueRest, At, Results
  <2> QED BY <2>1, GoesTo DEF DocumentMove
<1>7. ASSUME NEW kind \in Artifacts,
             BeginArtifact(w, kind) \/ BuildArtifact(w, kind) \/ PublishArtifact(w, kind)
      PROVE  FALSE
  BY <1>0, <1>7 DEF BeginArtifact, BuildArtifact, PublishArtifact, At, Artifacts
<1> QED BY <1>2, <1>3, <1>4, <1>5, <1>6, <1>7 DEF JobStep, Artifacts

LEMMA DocumentStepsStep ==
  ASSUME CInv, Within, NEW w \in Workers
  PROVE  DocumentSteps(w)'
<1> SUFFICES ASSUME Preparing(w)'
             PROVE  /\ task'[w].pc \in {"license", "pdf", "parsing", "persist", "document"}
                         => ~document'
                    /\ task'[w].pc \in {"enqueue_chat", "enqueue_refs", "enqueue_rest"}
                         => document'
  BY DEF DocumentSteps
<1>0. PInv /\ PInv' /\ document \in BOOLEAN /\ (document => proc.introduction)
  BY PStepInv DEF CInv, KInv, PInv, TypeOK, Within
<1>1. exec'[w].phase = "executing" /\ task'[w].job = CurrentJob("prepare_document")
      /\ task'[w].job = exec'[w].job /\ task'[w].pc \in Steps
  BY <1>0, WithinCurrent DEF Preparing, PInv, Linked
<1>2. ASSUME NEW j \in Job, ClaimJob(w, j)
      PROVE  task'[w].pc \in {"read", "stage"}
  BY <1>0, <1>2 DEF ClaimJob, FirstStep, PInv, TypeOK
<1>3. CASE ~ \E j \in Job : ClaimJob(w, j)
  <2>1. exec[w].phase = "executing" /\ exec'[w].job = exec[w].job
    BY <1>0, <1>1, <1>3, ExecMoves DEF Within
  <2>2. Preparing(w)
    BY <1>0, <1>1, <2>1, AtWork DEF Preparing
  <2>3. /\ task[w].pc \in {"license", "pdf", "parsing", "persist", "document"} => ~document
        /\ task[w].pc \in {"enqueue_chat", "enqueue_refs", "enqueue_rest"} => document
    BY <2>2 DEF CInv, DocumentSteps
  <2>4. CASE task'[w].pc = task[w].pc
    <3>1. document' = document
      <4>1. \A v \in Workers : StoresDocument(v) => v = w
        BY <2>2, OneExecutor DEF StoresDocument
      <4> QED BY <1>0, <2>4, <4>1, DocumentMoves DEF StoresDocument
    <3> QED BY <2>3, <2>4, <3>1
  <2>5. CASE JobStep(w)
    BY <1>0, <1>1, <2>2, <2>3, <2>5, DocumentJobMoves DEF DocumentMove
  <2>6. ~RecordFailure(w)
    BY <1>0, <2>1, RecordMoves
  <2>7. task'[w].pc # "loop"
    BY <1>1 DEF Steps
  <2> QED BY <1>0, <1>3, <2>4, <2>5, <2>6, <2>7, WorkerMoves DEF Within
<1> QED BY <1>2, <1>3

LEMMA IntroducedStep ==
  ASSUME CInv, Within
  PROVE  /\ (document => proc.introduction)'
         /\ document => document'
<1>1. PInv /\ Keeps /\ (document => proc.introduction)
  BY WithinCurrent DEF CInv, KInv
<1>2. CASE document' = document
  BY <1>1, <1>2 DEF Keeps
<1>3. CASE document' # document
  <2>1. PICK w \in Workers : StoresDocument(w)
    BY <1>1, <1>3, DocumentMoves
  <2> QED BY <1>1, <2>1 DEF Keeps, StoresDocument
<1> QED BY <1>2, <1>3

LEMMA ReportMoves ==
  ASSUME PInv, Within, NEW w \in Workers, Reporting(w)'
  PROVE  \/ Reporting(w)
         \/ /\ RecordFailure(w) /\ HeldBy(w, CurrentJob("prepare_document"))
            /\ jobs'[CurrentJob("prepare_document")].state = "failed"
<1>0. PInv' /\ exec \in [Workers -> Exec]
  BY PStepInv DEF Within, PInv, TypeOK, QTypeOK
<1>1. task'[w].pc = "mark_retryable" /\ task'[w].job = CurrentJob("prepare_document")
  BY WithinCurrent DEF Reporting
<1>2. CASE task'[w].pc = task[w].pc /\ task'[w].job = task[w].job
  BY <1>1, <1>2 DEF Reporting
<1>3. ASSUME NEW j \in Job, ClaimJob(w, j) PROVE FALSE
  BY <1>1, <1>3 DEF ClaimJob, FirstStep, PInv, TypeOK
<1>4. ASSUME JobStep(w) PROVE FALSE
  <2>1. exec[w].phase = "executing"
    BY <1>4, JobMoves
  <2>2. exec'[w].phase \in {"executing", "settling"}
    BY <1>4, <2>1, JobExec, Finishes
  <2> QED BY <1>0, <1>1, <2>2 DEF PInv, Linked, Steps, Results
<1>5. CASE RecordFailure(w)
  BY <1>1, <1>5, RecordMoves
<1> QED BY <1>1, <1>2, <1>3, <1>4, <1>5, WorkerMoves DEF Within

(* A step that records a failure leaves the other workers where they are.  *)
LEMMA OthersReport ==
  ASSUME PInv, Within, NEW w \in Workers, RecordFailure(w) \/ PublishFailure(w),
         NEW v \in Workers \ {w}, Reporting(v)'
  PROVE  Reporting(v)
BY MovesAlone, WithinCurrent DEF SettleStep, Reporting

(* How a row of the current generation comes to be there.                  *)
LEMMA RowEnters ==
  ASSUME PInv, Within, NEW j \in Job, ~Present(j), Present(j)'
  PROVE  Requested(j) \/ FollowsUp(j)
BY RowMoves DEF RowMove, Present, Within, Live

(* While the document may still be parsed, no request finds the paper      *)
(* waiting for one, and no follow-up is inserted.                          *)
LEMMA NoRequestWhileParsing ==
  ASSUME CInv, Parsing, NEW retry \in BOOLEAN
  PROVE  ~PrepareRequest(retry)
<1>1. proc.stage # "failed_retryable"
  BY DEF CInv, Unparsed
<1>2. proc.stage # "not_requested"
  BY DEF CInv, Unrequested, OneReport, Parsing, Live, Present, Core
<1> QED BY <1>1, <1>2 DEF PrepareRequest

LEMMA NoFollowUpWhileParsing ==
  ASSUME CInv, ~document, NEW kind \in Artifacts
  PROVE  ~FollowsUp(CurrentJob(kind))
<1> SUFFICES ASSUME NEW w \in Workers, NEW k \in Artifacts,
                    exec[w].phase = "executing",
                    task[w].job.kind = "prepare_document",
                    task[w].pc \in {"enqueue_chat", "enqueue_refs"},
                    CurrentJob(kind) = FollowUp(w, k)
             PROVE  FALSE
  BY DEF FollowsUp
<1>0. PInv
  BY DEF CInv, KInv
<1>1. task[w].job.gen = generation
  BY DEF CurrentJob, FollowUp
<1>2. Preparing(w)
  BY <1>0, <1>1, CurrentWork DEF Stale, Preparing, Core
<1> QED BY <1>2 DEF CInv, DocumentSteps

LEMMA ArtifactsStayAbsent ==
  ASSUME CInv, Within, Parsing, NEW kind \in Artifacts
  PROVE  ~Present(CurrentJob(kind)) /\ ~Present(CurrentJob(kind))'
<1>0. PInv /\ CurrentJob(kind) \in Job /\ CurrentJob(kind)' = CurrentJob(kind)
  BY CurrentIsJob, WithinCurrent DEF CInv, KInv, Core, Artifacts
<1>1. ~Present(CurrentJob(kind))
  BY DEF CInv, Unparsed
<1>2. ~Requested(CurrentJob(kind))
  BY NoRequestWhileParsing DEF Requested
<1>3. ~FollowsUp(CurrentJob(kind))
  BY NoFollowUpWhileParsing DEF Parsing
<1> QED BY <1>0, <1>1, <1>2, <1>3, RowEnters DEF Present

(* Parsing begins with a request that finds no introduction.               *)
LEMMA ParsingBegins ==
  ASSUME CInv, Within, Parsing', ~Parsing
  PROVE  \E retry \in BOOLEAN :
           PrepareRequest(retry) /\ CurrentJob("prepare_document").kind \in WantedKinds
<1> DEFINE parent == CurrentJob("prepare_document")
<1>0. PInv /\ parent \in Job /\ parent.kind = "prepare_document" /\ parent' = parent
  BY CurrentIsJob, WithinCurrent DEF CInv, KInv, Core
<1>1. ~document
  BY IntroducedStep DEF Parsing
<1>2. ~Live(parent) /\ \A w \in Workers : ~Reporting(w)
  BY <1>1 DEF Parsing
<1>3. Live(parent)'
  <2>1. ASSUME NEW w \in Workers, Reporting(w)' PROVE FALSE
    BY <1>0, <1>2, <2>1, ReportMoves DEF HeldBy, Live
  <2> QED BY <2>1 DEF Parsing
<1>4. jobs'[parent].state \in {"queued", "running"}
  BY <1>0, <1>3 DEF Live
<1> HIDE DEF parent
<1>5. Requested(parent) \/ FollowsUp(parent)
  BY <1>0, <1>2, <1>4, RowMoves DEF RowMove, Live, Within
<1>6. ~FollowsUp(parent)
  BY <1>0 DEF FollowsUp, FollowUp, Artifacts
<1> QED BY <1>5, <1>6 DEF Requested, parent

LEMMA UnparsedStep ==
  ASSUME CInv, Within
  PROVE  Unparsed'
<1> SUFFICES ASSUME Parsing'
             PROVE  /\ \A kind \in Artifacts : ~Present(CurrentJob(kind))'
                    /\ proc'.stage # "failed_retryable"
  BY DEF Unparsed
<1> DEFINE parent == CurrentJob("prepare_document")
<1>0. PInv /\ proc \in Processing
      /\ parent \in Job /\ parent.kind = "prepare_document" /\ parent' = parent
  BY CurrentIsJob, WithinCurrent DEF CInv, KInv, Core, PInv, TypeOK
<1>1. CASE ~Parsing
  <2>1. PICK retry \in BOOLEAN : PrepareRequest(retry) /\ "prepare_document" \in WantedKinds
    BY <1>0, <1>1, ParsingBegins
  <2>2. ~proc.introduction /\ WantedKinds = {"prepare_document"} /\ NextStage = "queued"
    BY <2>1 DEF WantedKinds, NextStage
  <2>3. proc'.stage = "queued"
    BY <1>0, <2>1, <2>2 DEF PrepareRequest, Processing
  <2>4. ASSUME NEW kind \in Artifacts PROVE ~Present(CurrentJob(kind))'
    <3>1. /\ CurrentJob(kind) \in Job /\ CurrentJob(kind).kind = kind
          /\ CurrentJob(kind).gen = generation /\ CurrentJob(kind)' = CurrentJob(kind)
      BY <1>0, CurrentIsJob, WithinCurrent DEF Core, Artifacts
    <3>2. ~Present(CurrentJob(kind))
      BY <1>0, <2>2, <3>1 DEF PInv, Founded, Present, Artifacts
    <3>3. jobs'[CurrentJob(kind)] = jobs[CurrentJob(kind)]
      BY <2>1, <2>2, <3>1 DEF PrepareRequest, PrepareJobs, Artifacts
    <3> QED BY <3>1, <3>2, <3>3 DEF Present
  <2> QED BY <2>3, <2>4
<1>2. CASE Parsing
  <2>1. \A kind \in Artifacts : ~Present(CurrentJob(kind)) /\ ~Present(CurrentJob(kind))'
    BY <1>2, ArtifactsStayAbsent
  <2>2. proc.stage # "failed_retryable"
    BY <1>2 DEF CInv, Unparsed
  <2>3. ~document
    BY <1>2 DEF Parsing
  <2>4. ASSUME NEW w \in Workers, Reporting(w)
        PROVE  jobs[parent].state = "failed" /\ \A v \in Workers : Reporting(v) => v = w
    BY <2>3, <2>4 DEF CInv, OneReport
  <2>5. ASSUME NEW w \in Workers, SweepExhausted(w),
               NEW j \in Job, Exhausted(j), j.gen = generation
        PROVE  FALSE
    <3>1. jobs[j].state = "running" /\ j = CurrentJob(j.kind)
      BY <2>5 DEF Exhausted, LeaseExpired, CurrentJob, Job
    <3>2. j = parent
      BY <2>1, <3>1, KindParts DEF Present, Core, Artifacts
    <3>3. \A v \in Workers : ~Reporting(v)
      BY <2>4, <3>1, <3>2
    <3>4. jobs'[parent].state = "failed"
      BY <1>0, <2>5, <3>2, WrittenRows
         DEF SweepExhausted, FailExhaustedLeases, JobState, PInv, TypeOK, QTypeOK
    <3>5. ~Live(parent)'
      BY <1>0, <3>4 DEF Live
    <3>6. PICK v \in Workers : Reporting(v)'
      BY <3>5 DEF Parsing
    <3> QED BY <1>0, <2>5, <3>3, <3>6, WithinCurrent DEF SweepExhausted, Reporting
  <2>6. ASSUME NEW w \in Workers, PublishFailure(w), task[w].pc = "mark_retryable", ~Stale(w)
        PROVE  FALSE
    <3>1. /\ task[w].job \in Job /\ task[w].job.gen = generation
          /\ Present(task[w].job)
      BY <2>6 DEF CInv, KInv, PInv, Grounded, WorkerKeeps, Stale
    <3>2. task[w].job = CurrentJob(task[w].job.kind) /\ task[w].job.kind \in Core
      BY <3>1, KindParts DEF CurrentJob, Job
    <3>3. task[w].job = parent
      BY <2>1, <3>1, <3>2 DEF Core, Artifacts
    <3>4. Reporting(w)
      BY <2>6, <3>3 DEF Reporting
    <3>5. ~Live(parent)'
      BY <1>0, <2>4, <2>6, <3>4 DEF PublishFailure, qvars, Live
    <3>6. PICK v \in Workers : Reporting(v)'
      BY <3>5 DEF Parsing
    <3>7. v # w
      BY <1>0, <2>6, <3>6 DEF PublishFailure, Reporting, IdleTask, PInv, TypeOK
    <3>8. Reporting(v)
      BY <1>0, <2>6, <3>6, <3>7, OthersReport
    <3> QED BY <2>4, <3>4, <3>7, <3>8
  <2>7. proc'.stage # "failed_retryable"
    <3>1. ASSUME NEW w \in Workers, Introduces(w) PROVE proc'.stage # "failed_retryable"
      BY <1>0, <3>1 DEF Introduces, Processing
    <3>2. ASSUME NEW w \in Workers, NEW kind \in Artifacts, PublishesOne(w, kind)
          PROVE  proc'.stage # "failed_retryable"
      BY <1>0, <2>2, <3>2 DEF PublishesOne, Publish, Processing
    <3>3. ASSUME NEW stage \in RunningStages \cup {"failed_terminal"}, WritesStage(stage)
          PROVE  proc'.stage # "failed_retryable"
      BY <1>0, <3>3 DEF WritesStage, Processing, RunningStages
    <3>4. RowWrite /\ ~ObserveNewVersion
      BY <1>0, EveryWrite, WithinCurrent DEF Within
    <3> QED BY <2>2, <2>5, <2>6, <3>1, <3>2, <3>3, <3>4 DEF RowWrite
  <2> QED BY <2>1, <2>7
<1> QED BY <1>1, <1>2

LEMMA OneReportStep ==
  ASSUME CInv, Within
  PROVE  OneReport'
<1> DEFINE parent == CurrentJob("prepare_document")
<1>0. PInv /\ parent \in Job /\ parent' = parent
  BY CurrentIsJob, WithinCurrent DEF CInv, KInv, Core
<1> SUFFICES ASSUME ~document', NEW w \in Workers, Reporting(w)'
             PROVE  /\ jobs'[parent].state = "failed"
                    /\ \A v \in Workers : Reporting(v)' => v = w
  BY <1>0 DEF OneReport
<1>1. ~document
  BY IntroducedStep
<1>2. CASE Reporting(w)
  <2>1. /\ jobs[parent].state = "failed" /\ \A v \in Workers : Reporting(v) => v = w
    BY <1>1, <1>2 DEF CInv, OneReport
  <2>2. Parsing
    BY <1>1, <1>2 DEF Parsing
  <2>3. ~Requested(parent)
    BY <2>2, NoRequestWhileParsing DEF Requested
  <2>4. jobs'[parent].state = "failed"
    BY <1>0, <2>1, <2>3, RowMoves DEF RowMove, Live, Within
  <2>5. ASSUME NEW v \in Workers, Reporting(v)' PROVE v = w
    BY <1>0, <2>1, <2>5, ReportMoves DEF HeldBy
  <2> QED BY <2>4, <2>5
<1>3. CASE RecordFailure(w) /\ HeldBy(w, parent) /\ jobs'[parent].state = "failed"
  <2>1. \A v \in Workers : ~Reporting(v)
    BY <1>1, <1>3 DEF CInv, OneReport, HeldBy
  <2>2. ASSUME NEW v \in Workers, Reporting(v)' PROVE v = w
    BY <1>0, <1>3, <2>1, <2>2, OthersReport
  <2> QED BY <1>3, <2>2
<1> QED BY <1>0, <1>2, <1>3, ReportMoves

LEMMA UnrequestedStep ==
  ASSUME CInv, Within
  PROVE  Unrequested'
<1> SUFFICES ASSUME proc'.stage = "not_requested", NEW kind \in Core
             PROVE  ~Present(CurrentJob(kind))'
  BY DEF Unrequested
<1> DEFINE j == CurrentJob(kind)
<1>0. PInv /\ proc \in Processing /\ j \in Job /\ j' = j /\ j.gen = generation
  BY CurrentIsJob, WithinCurrent DEF CInv, KInv, PInv, TypeOK
<1>1. proc.stage = "not_requested"
  <2>1. ASSUME NEW w \in Workers, Introduces(w) PROVE FALSE
    BY <1>0, <2>1 DEF Introduces, Processing
  <2>2. ASSUME NEW w \in Workers, NEW k \in Artifacts, PublishesOne(w, k) PROVE FALSE
    BY <1>0, <2>2 DEF PublishesOne, Publish, Processing, FailedStages
  <2>3. ASSUME NEW stage \in RunningStages \cup FailedStages, WritesStage(stage) PROVE FALSE
    BY <1>0, <2>3 DEF WritesStage, Processing, RunningStages, FailedStages
  <2>4. RowWrite /\ ~ObserveNewVersion
    BY <1>0, EveryWrite, WithinCurrent DEF Within
  <2> QED BY <2>1, <2>2, <2>3, <2>4 DEF RowWrite, FailedStages
<1>2. \A k \in Core : ~Present(CurrentJob(k))
  BY <1>1 DEF CInv, Unrequested
<1>3. ~Requested(j)
  <2>1. ASSUME NEW retry \in BOOLEAN, PrepareRequest(retry) PROVE FALSE
    BY <1>0, <2>1 DEF PrepareRequest, NextStage, Processing
  <2> QED BY <2>1 DEF Requested
<1>4. ~FollowsUp(j)
  <2> SUFFICES ASSUME NEW w \in Workers, NEW k \in Artifacts,
                      exec[w].phase = "executing",
                      task[w].job.kind = "prepare_document",
                      j = FollowUp(w, k)
               PROVE  FALSE
    BY DEF FollowsUp
  <2>1. task[w].job = CurrentJob("prepare_document")
    BY <1>0, CurrentWork DEF FollowUp, Stale, Core
  <2>2. Present(task[w].job)
    BY <1>0, AtWork DEF CInv, KInv, WorkerKeeps
  <2> QED BY <1>2, <2>1, <2>2 DEF Core
<1> HIDE DEF j
<1>5. ~Present(j)
  BY <1>2 DEF j
<1>6. ~Present(j)'
  BY <1>0, <1>3, <1>4, <1>5, RowEnters
<1> QED BY <1>6 DEF j

LEMMA ChatSteps ==
  ASSUME CInv, Within
  PROVE  ChatIsIndexed' /\ ChatHasCorpus'
<1> DEFINE child == CurrentJob("index_chat")
<1>0. PInv /\ proc \in Processing /\ chunks \in BOOLEAN
      /\ child \in Job /\ child' = child
  BY CurrentIsJob, WithinCurrent DEF CInv, KInv, PInv, TypeOK, Core
<1>1. (proc.chat => Present(child)) /\ (proc.chat => chunks)
  BY DEF CInv, ChatIsIndexed, ChatHasCorpus
<1>2. ASSUME Present(child) PROVE Present(child)'
  BY <1>0, <1>2, RowsRemain DEF Within
<1>3. ASSUME proc'.chat = proc.chat, chunks' = chunks PROVE ChatIsIndexed' /\ ChatHasCorpus'
  BY <1>1, <1>2, <1>3 DEF ChatIsIndexed, ChatHasCorpus
<1>4. ASSUME NEW w \in Workers, Introduces(w) PROVE ChatIsIndexed' /\ ChatHasCorpus'
  <2>1. Preparing(w) /\ task[w].pc = "persist"
    BY <1>4 DEF Introduces, Preparing
  <2>2. ~document
    BY <2>1 DEF CInv, DocumentSteps
  <2>3. Parsing
    BY <2>1, <2>2, PreparingHolds DEF Parsing
  <2>4. ~Present(child)
    BY <2>3 DEF CInv, Unparsed, Artifacts
  <2>5. ~proc'.chat
    BY <1>0, <1>1, <1>4, <2>4 DEF Introduces, Processing
  <2> QED BY <2>5 DEF ChatIsIndexed, ChatHasCorpus
<1>5. ASSUME NEW w \in Workers, PublishesOne(w, "index_chat")
      PROVE  ChatIsIndexed' /\ ChatHasCorpus'
  <2>1. Present(child)
    BY <1>0, <1>5, AtWork DEF PublishesOne, CInv, KInv, WorkerKeeps
  <2>2. chunks'
    BY <1>5 DEF PublishesOne
  <2> QED BY <1>2, <2>1, <2>2 DEF ChatIsIndexed, ChatHasCorpus
<1>6. ASSUME NEW w \in Workers, PublishesOne(w, "resolve_connections")
      PROVE  proc'.chat = proc.chat /\ chunks' = chunks
  BY <1>0, <1>6 DEF PublishesOne, Publish, Processing
<1>7. ASSUME NEW stage, WritesStage(stage) PROVE proc'.chat = proc.chat /\ chunks' = chunks
  BY <1>0, <1>7 DEF WritesStage, Processing
<1>8. RowWrite /\ ~ObserveNewVersion
  BY <1>0, EveryWrite, WithinCurrent DEF Within
<1> QED BY <1>3, <1>4, <1>5, <1>6, <1>7, <1>8 DEF RowWrite, Artifacts

(* A newer version leaves nothing of the generation in place.              *)
LEMMA VersionKeepsC ==
  ASSUME CInv, ObserveNewVersion
  PROVE  CInv'
<1>0. /\ PInv /\ KInv' /\ generation \in Nat /\ generation' = generation + 1
      /\ proc' = NotRequested /\ document' = FALSE /\ chunks' = FALSE
      /\ UNCHANGED <<exec, task>>
      /\ jobs' = [j \in Job |->
                    IF Live(j) THEN Settled(jobs[j], "cancelled") ELSE jobs[j]]
  BY KStepInv DEF CInv, KInv, PInv, TypeOK, QTypeOK, Generations, Next,
     ObserveNewVersion, NewArxivVersion
<1>1. ASSUME NEW w \in Workers
      PROVE  HoldsLease(w)' /\ DocumentSteps(w)' /\ ~Reporting(w)'
  <2>1. task[w].pc # "loop" => task[w].job.gen \in Nat /\ task[w].job.gen <= generation
    BY <1>0, JobParts DEF PInv, Grounded
  <2>2. task[w].pc # "loop" => task[w].job.gen # generation'
    BY <1>0, <2>1
  <2>3. exec[w].phase \in {"executing", "settling"} =>
          task[w].pc # "loop" /\ task[w].job = exec[w].job
    BY <1>0 DEF PInv, Linked, Steps, Results
  <2>4. CurrentJob("prepare_document")'.gen = generation'
    BY DEF CurrentJob
  <2> QED BY <1>0, <2>2, <2>3, <2>4 DEF HoldsLease, DocumentSteps, Preparing, Reporting
<1>2. ASSUME NEW kind \in Core PROVE jobs'[CurrentJob(kind)'].state = "absent"
  <2> DEFINE j == CurrentJob(kind)'
  <2>1. j \in Job /\ j.gen = generation + 1
    <3>1. PInv'
      BY <1>0 DEF KInv
    <3>2. generation' \in Generations
      BY <3>1 DEF PInv, TypeOK, QTypeOK
    <3> QED BY <1>0, <3>2, PipelineConstants DEF CurrentJob, Job
  <2>2. ~(j.gen <= generation)
    BY <1>0, <2>1
  <2> HIDE DEF j
  <2>3. jobs[j].state = "absent"
    BY <1>0, <2>1, <2>2 DEF PInv, Founded
  <2>4. jobs'[j] = jobs[j]
    BY <1>0, <2>1, <2>3 DEF Live
  <2> QED BY <2>3, <2>4 DEF j
<1>3. ~Live(CurrentJob("prepare_document"))' /\ \A kind \in Core : ~Present(CurrentJob(kind))'
  BY <1>2 DEF Live, Present, Core
<1>4. ~Parsing'
  BY <1>1, <1>3 DEF Parsing
<1> QED BY <1>0, <1>1, <1>3, <1>4
        DEF CInv, Unparsed, OneReport, Unrequested, ChatIsIndexed, ChatHasCorpus, NotRequested

LEMMA CInitInv == Init /\ LeasesMayLapse = FALSE => CInv
<1> SUFFICES ASSUME Init, LeasesMayLapse = FALSE PROVE CInv
  OBVIOUS
<1>1. KInv
  BY KInitInv
<1>2. \A j \in Job : ~Live(j) /\ ~Present(j)
  BY DEF Init, QInit, AbsentRow, Live, Present
<1>3. \A kind \in Core : CurrentJob(kind) \in Job
  BY <1>1, CurrentIsJob DEF KInv
<1>4. \A w \in Workers : HoldsLease(w) /\ DocumentSteps(w) /\ ~Reporting(w)
  BY DEF Init, QInit, IdleExec, IdleTask, HoldsLease, DocumentSteps, Preparing, Reporting
<1>5. ~proc.chat /\ ~document
  BY DEF Init, NotRequested
<1>6. ~Live(CurrentJob("prepare_document"))
  BY <1>2, <1>3 DEF Core
<1>7. ~Parsing /\ OneReport
  BY <1>4, <1>6 DEF Parsing, OneReport
<1> QED BY <1>1, <1>2, <1>3, <1>4, <1>5, <1>7
        DEF CInv, Unparsed, Unrequested, ChatIsIndexed, ChatHasCorpus

LEMMA CStepInv == CInv /\ [Next]_vars => CInv'
<1> SUFFICES ASSUME CInv, [Next]_vars PROVE CInv'
  OBVIOUS
<1>1. CASE ObserveNewVersion
  BY <1>1, VersionKeepsC
<1>2. CASE ~ObserveNewVersion
  <2>1. Within
    BY <1>2, EveryStepKeeps DEF CInv, KInv, Keeps, Within
  <2>2. KInv' /\ LeasesMayLapse = FALSE
    BY KStepInv DEF CInv
  <2>3. \A w \in Workers : HoldsLease(w)' /\ DocumentSteps(w)'
    BY <2>1, HoldsLeaseStep, DocumentStepsStep
  <2>4. (document => proc.introduction)'
    BY <2>1, IntroducedStep
  <2>5. Unparsed' /\ OneReport' /\ Unrequested' /\ ChatIsIndexed' /\ ChatHasCorpus'
    BY <2>1, UnparsedStep, OneReportStep, UnrequestedStep, ChatSteps
  <2> QED BY <2>2, <2>3, <2>4, <2>5 DEF CInv
<1> QED BY <1>1, <1>2

(* Where the heartbeats of every execution come in time, the chat          *)
(* capability never advertises an empty corpus.                            *)
THEOREM PipelineChatHasCorpus ==
  Spec /\ LeasesMayLapse = FALSE => []ChatHasCorpus
<1>1. CInv => ChatHasCorpus
  BY DEF CInv
<1> QED BY <1>1, CInitInv, CStepInv, PTL DEF Spec

(* Under the same assumption a job of the current generation is executed   *)
(* and settled by one worker at a time, through crashes, retries and       *)
(* newer versions: the exclusion that the lease is for.                    *)
OneExecution ==
    \A v, w \in Workers :
      /\ exec[v].phase \in {"executing", "settling"}
      /\ exec[w].phase \in {"executing", "settling"}
      /\ exec[v].job = exec[w].job /\ exec[v].job.gen = generation
      => v = w

(* Without lapsed leases no row of the current generation has two          *)
(* executions at once.                                                     *)
THEOREM PipelineOneExecution ==
  Spec /\ LeasesMayLapse = FALSE => []OneExecution
<1>1. CInv => OneExecution
  BY DEF CInv, HoldsLease, HeldBy, OneExecution
<1> QED BY <1>1, CInitInv, CStepInv, PTL DEF Spec

-----------------------------------------------------------------------------
(* The pipeline implements Preparation.                                    *)

Published == {kind \in Core : Capability(kind)}
Finished == {kind \in Core : jobs[CurrentJob(kind)].state = "succeeded"}

(* Within a generation, a job is only ever added to the finished ones, and *)
(* only when a worker completes it.                                        *)
LEMMA FinishedMoves ==
  ASSUME PInv, Within, ~ \E w \in Workers : CompleteJob(w)
  PROVE  Finished' = Finished
<1>1. ASSUME NEW kind \in Core
      PROVE  (jobs'[CurrentJob(kind)'].state = "succeeded")
               <=> (jobs[CurrentJob(kind)].state = "succeeded")
  <2> DEFINE j == CurrentJob(kind)
  <2>1. j \in Job /\ j' = j
    BY CurrentIsJob, WithinCurrent
  <2> HIDE DEF j
  <2>2. RowMove(j)
    BY <2>1, RowMoves DEF Within
  <2>3. (jobs'[j].state = "succeeded") <=> (jobs[j].state = "succeeded")
    BY <2>2 DEF RowMove, Live
  <2> QED BY <2>1, <2>3 DEF j
<1> QED BY <1>1 DEF Finished

(* A completed job joins the finished ones, behind its capability.         *)
LEMMA Completes ==
  ASSUME PInv, Within, NEW w \in Workers, CompleteJob(w)
  PROVE  \/ Finished' = Finished
         \/ \E kind \in Published \ Finished : Finished' = Finished \cup {kind}
<1>1. task[w].pc = "ok" /\ task[w].job = exec[w].job /\ task[w].job \in Job
  BY AtSettling DEF CompleteJob, Results
<1> DEFINE done == exec[w].job
<1>2. ASSUME NEW j \in Job, jobs'[j] # jobs[j]
      PROVE  j = done /\ jobs[j].state = "running" /\ jobs'[j].state = "succeeded"
  BY <1>2, CompleteEffect DEF CompleteJob, HeldBy, PInv, TypeOK
<1>3. \A kind \in Core : CurrentJob(kind) \in Job /\ CurrentJob(kind)' = CurrentJob(kind)
                         /\ CurrentJob(kind).kind = kind /\ CurrentJob(kind).gen = generation
  BY CurrentIsJob, WithinCurrent
<1>4. CASE \A kind \in Core : jobs'[CurrentJob(kind)] = jobs[CurrentJob(kind)]
  BY <1>3, <1>4 DEF Finished
<1>5. ASSUME NEW kind \in Core, jobs'[CurrentJob(kind)] # jobs[CurrentJob(kind)]
      PROVE  kind \in Published \ Finished /\ Finished' = Finished \cup {kind}
  <2>1. /\ CurrentJob(kind) = done /\ jobs[CurrentJob(kind)].state = "running"
        /\ jobs'[CurrentJob(kind)].state = "succeeded"
    BY <1>2, <1>3, <1>5
  <2>2. Capability(kind)
    <3>1. task[w].pc # "loop" /\ task[w].job.gen = generation /\ task[w].job.kind = kind
      BY <1>1, <1>3, <2>1
    <3> QED BY <1>1, <3>1 DEF PInv, Grounded
  <2>3. ASSUME NEW k \in Core, k # kind
        PROVE  jobs'[CurrentJob(k)'] = jobs[CurrentJob(k)]
    <3>1. CurrentJob(k) # done
      BY <1>3, <2>1, <2>3
    <3> QED BY <1>2, <1>3, <3>1
  <2>4. jobs'[CurrentJob(kind)'].state = "succeeded"
    BY <1>3, <2>1
  <2>5. Finished' = Finished \cup {kind}
    BY <2>3, <2>4 DEF Finished
  <2> QED BY <2>1, <2>2, <2>5 DEF Published, Finished
<1> QED BY <1>4, <1>5

(* What is published when the processing row is written.                   *)
LEMMA Publishes ==
  ASSUME PInv, Within
  PROVE  \/ Published' = Published
         \/ \E kind \in Core \ Published :
              /\ Published' = Published \cup {kind}
              /\ kind \in Artifacts => "prepare_document" \in Published
<1>0. proc \in Processing
  BY DEF PInv, TypeOK
<1>1. ASSUME proc'.introduction = proc.introduction, proc'.chat = proc.chat,
             proc'.connections = proc.connections
      PROVE  Published' = Published
  BY <1>1 DEF Published, Capability, Core
<1>2. ASSUME NEW w \in Workers, Introduces(w)
      PROVE  Published' = Published \cup {"prepare_document"}
  <2>1. /\ proc'.introduction /\ proc'.chat = proc.chat
        /\ proc'.connections = proc.connections
    BY <1>0, <1>2 DEF Introduces, Processing
  <2> QED BY <2>1 DEF Published, Capability, Core
<1>3. ASSUME NEW w \in Workers, NEW kind \in Artifacts, PublishesOne(w, kind)
      PROVE  Published' = Published \cup {kind} /\ "prepare_document" \in Published
  <2>1. task[w].pc # "loop" /\ task[w].job = CurrentJob(kind)
    BY <1>3, AtWork DEF PublishesOne
  <2>2. task[w].job.gen = generation /\ task[w].job.kind # "prepare_document"
    BY <2>1 DEF CurrentJob, Artifacts
  <2>3. proc.introduction
    BY <2>1, <2>2 DEF PInv, Grounded
  <2>4. Publish(kind)
    BY <1>3 DEF PublishesOne
  <2>5. CASE kind = "index_chat"
    <3>1. /\ proc'.introduction = proc.introduction /\ proc'.chat
          /\ proc'.connections = proc.connections
      BY <1>0, <2>4, <2>5 DEF Publish, Processing
    <3> QED BY <2>3, <2>5, <3>1 DEF Published, Capability, Core
  <2>6. CASE kind = "resolve_connections"
    <3>1. /\ proc'.introduction = proc.introduction /\ proc'.connections
          /\ proc'.chat = proc.chat
      BY <1>0, <2>4, <2>6 DEF Publish, Processing
    <3> QED BY <2>3, <2>6, <3>1 DEF Published, Capability, Core
  <2> QED BY <2>5, <2>6 DEF Artifacts
<1>4. ASSUME NEW stage, WritesStage(stage) PROVE Published' = Published
  <2>1. /\ proc'.introduction = proc.introduction /\ proc'.chat = proc.chat
        /\ proc'.connections = proc.connections
    BY <1>0, <1>4 DEF WritesStage, Processing
  <2> QED BY <1>1, <2>1
<1>5. ASSUME NEW kind \in Core, Published' = Published \cup {kind},
             kind \in Artifacts => "prepare_document" \in Published
      PROVE  \/ Published' = Published
             \/ \E k \in Core \ Published :
                  /\ Published' = Published \cup {k}
                  /\ k \in Artifacts => "prepare_document" \in Published
  BY <1>5
<1>6. CASE proc' = proc
  BY <1>1, <1>6
<1>7. CASE \E w \in Workers : Introduces(w)
  BY <1>2, <1>5, <1>7 DEF Core, Artifacts
<1>8. CASE \E w \in Workers, kind \in Artifacts : PublishesOne(w, kind)
  BY <1>3, <1>5, <1>8 DEF Core, Artifacts
<1>9. CASE \E stage : WritesStage(stage)
  BY <1>4, <1>9
<1>10. RowWrite /\ ~ObserveNewVersion
  BY EveryWrite, WithinCurrent DEF Within
<1> QED BY <1>6, <1>7, <1>8, <1>9, <1>10 DEF RowWrite

(* Whatever is said of the paper is true.                                  *)
LEMMA Says ==
  ASSUME PInv, [Next]_vars
  PROVE  Promise!Say
<1>1. CapabilityOrder'
  BY PStepInv DEF PInv
<1> QED BY <1>1 DEF CapabilityOrder, Promise!Say, Promise!All, Capability, Core

LEMMA PromiseInit == Init => Promise!PInit
<1> SUFFICES ASSUME Init PROVE Promise!PInit
  OBVIOUS
<1>1. \A kind \in Core : ~Capability(kind)
  BY DEF Init, NotRequested, Capability, Core
<1>2. ASSUME NEW kind \in Core PROVE jobs[CurrentJob(kind)].state # "succeeded"
  <2>1. CurrentJob(kind) \in Job
    BY PInitInv, CurrentIsJob
  <2> QED BY <2>1 DEF Init, QInit, AbsentRow
<1>3. generation = 1 /\ proc.stage # "ready"
  BY DEF Init, QInit, NotRequested
<1> QED BY <1>1, <1>2, <1>3 DEF Promise!PInit

LEMMA VersionSupersedes ==
  ASSUME PInv, ObserveNewVersion
  PROVE  Promise!Supersede
<1>0. /\ PInv' /\ generation \in Nat /\ generation' = generation + 1
      /\ proc' = NotRequested /\ jobs \in [Job -> Row]
      /\ jobs' = [j \in Job |->
                    IF Live(j) THEN Settled(jobs[j], "cancelled") ELSE jobs[j]]
  BY PStepInv DEF PInv, TypeOK, QTypeOK, Generations, Next, ObserveNewVersion, NewArxivVersion
<1>1. \A kind \in Core : ~Capability(kind)'
  BY <1>0 DEF NotRequested, Capability, Core
<1>2. ASSUME NEW kind \in Core PROVE jobs'[CurrentJob(kind)'].state # "succeeded"
  <2> DEFINE j == CurrentJob(kind)'
  <2>1. j \in Job /\ j.gen = generation + 1
    <3>1. generation' \in Generations
      BY <1>0 DEF PInv, TypeOK, QTypeOK
    <3> QED BY <1>0, <3>1, PipelineConstants DEF CurrentJob, Job
  <2>2. ~(j.gen <= generation)
    BY <1>0, <2>1
  <2> HIDE DEF j
  <2>3. jobs[j].state = "absent"
    BY <2>1, <2>2 DEF PInv, Founded
  <2>4. jobs'[j] = jobs[j]
    BY <1>0, <2>1, <2>3 DEF Live
  <2> QED BY <2>3, <2>4 DEF j
<1>3. proc'.stage # "ready"
  BY <1>0 DEF NotRequested
<1> QED BY <1>0, <1>1, <1>2, <1>3 DEF Promise!Supersede

LEMMA PromiseStep == PInv /\ [Next]_vars => [Promise!PNext]_(Promise!promise)
<1> SUFFICES ASSUME PInv, [Next]_vars PROVE [Promise!PNext]_(Promise!promise)
  OBVIOUS
<1>1. CASE ObserveNewVersion
  BY <1>1, VersionSupersedes DEF Promise!PNext
<1>2. CASE ~ObserveNewVersion
  <2>1. Within
    BY <1>2, EveryStepKeeps DEF Keeps, Within
  <2>2. generation' = generation
    BY <2>1 DEF Within
  <2>3. ASSUME NEW w \in Workers, CompleteJob(w)
        PROVE  [Promise!PNext]_(Promise!promise)
    <3>1. proc' = proc
      BY <2>3 DEF CompleteJob
    <3>2. Published' = Published
      BY <3>1 DEF Published, Capability, Core
    <3>3. CASE Finished' = Finished
      BY <2>2, <3>1, <3>2, <3>3 DEF Promise!promise, Published, Finished
    <3>4. ASSUME NEW kind \in Published \ Finished, Finished' = Finished \cup {kind}
          PROVE  Promise!Finish(kind) /\ kind \in Promise!All
      BY <2>2, <3>1, <3>2, <3>4 DEF Promise!Finish, Promise!All, Published, Finished, Core
    <3> QED BY <2>1, <2>3, <3>3, <3>4, Completes DEF Promise!PNext
  <2>4. ASSUME ~ \E w \in Workers : CompleteJob(w)
        PROVE  Promise!PNext
    <3>1. Finished' = Finished /\ Promise!Say
      BY <2>1, <2>4, FinishedMoves, Says
    <3>2. CASE Published' = Published
      BY <2>2, <3>1, <3>2 DEF Promise!PNext, Promise!Report, Published, Finished
    <3>3. ASSUME NEW kind \in Core \ Published, Published' = Published \cup {kind},
                 kind \in Artifacts => "prepare_document" \in Published
          PROVE  Promise!Publish(kind) /\ kind \in Promise!All
      BY <2>2, <3>1, <3>3
         DEF Promise!Publish, Promise!All, Published, Finished, Artifacts, Core
    <3> QED BY <2>1, <3>2, <3>3, Publishes DEF Promise!PNext
  <2> QED BY <2>3, <2>4
<1> QED BY <1>1, <1>2

(* The pipeline keeps what Preparation promises to the reader of a paper's *)
(* status: the capabilities one at a time and the introduction first,      *)
(* finished only when published, ready only when complete.                 *)
THEOREM PipelineImplementsPreparation == Spec => ImplementsPreparation
BY PromiseInit, PromiseStep, PipelineInvariant, PTL
   DEF Spec, ImplementsPreparation, Promise!PSpec
=============================================================================
