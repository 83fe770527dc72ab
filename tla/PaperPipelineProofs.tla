------------------------ MODULE PaperPipelineProofs ------------------------
(***************************************************************************)
(* Proofs about the preparation of a paper, for any number of workers,     *)
(* attempts, versions, crashes and lapsed leases:                          *)
(*   - the pipeline uses the jobs table only as the queue allows;          *)
(*   - the types, CapabilityOrder and SucceededIsPublished, by one         *)
(*     inductive invariant;                                                *)
(*   - CapabilitiesOnlyGrow and StaleWorkIsInert.                          *)
(***************************************************************************)
EXTENDS PaperPipeline, JobQueueProofs

(* The steps of prepare_document behind persist_parsed_document.           *)
ParsedSteps == {"document", "enqueue_chat", "enqueue_refs", "enqueue_rest"}

(* The worker's program counter agrees with what the queue model says the  *)
(* worker is doing.                                                        *)
Linked(w) ==
    /\ exec[w].phase = "idle" => task[w].pc \in {"loop"} \cup Marks
    /\ exec[w].phase = "swept" => task[w].pc = "loop"
    /\ exec[w].phase = "executing" => task[w].pc \in Steps /\ task[w].job = exec[w].job
    /\ exec[w].phase = "settling" => task[w].pc \in Results /\ task[w].job = exec[w].job

(* What a worker on a job of the current generation may rely on: behind    *)
(* the parser, and in the artifact jobs, the introduction is published; an *)
(* execution that returned ok has published its capability.                *)
Grounded(w) ==
    task[w].pc # "loop" =>
      /\ task[w].job \in Job
      /\ task[w].job.gen <= generation
      /\ task[w].job.gen = generation =>
           /\ task[w].pc \in ParsedSteps => proc.introduction
           /\ task[w].job.kind # "prepare_document" => proc.introduction
           /\ task[w].pc = "ok" => Capability(task[w].job.kind)

(* The rows of the jobs table: none of a future generation; an artifact    *)
(* job of the current one exists only behind the introduction, and one     *)
(* that succeeded has published its capability.                            *)
Founded(j) ==
    /\ jobs[j].state # "absent" => j.gen <= generation
    /\ jobs[j].state # "absent" /\ j.gen = generation /\ j.kind # "prepare_document"
         => proc.introduction
    /\ jobs[j].state = "succeeded" /\ j.gen = generation => Capability(j.kind)

(* The inductive invariant.                                                *)
PInv ==
    /\ QInv
    /\ TypeOK
    /\ CapabilityOrder
    /\ \A w \in Workers : Linked(w) /\ Grounded(w)
    /\ \A j \in Job : Founded(j)

(* Within a generation, a step keeps what is published.                    *)
Keeps ==
    /\ generation' = generation
    /\ proc.introduction => proc'.introduction
    /\ proc.chat => proc'.chat
    /\ proc.connections => proc'.connections

(* What a step of the pipeline may do to the processing row.               *)
RowStep ==
    /\ Keeps
    /\ proc' \in Processing
    /\ CapabilityOrder'

-----------------------------------------------------------------------------
(* Kinds are the core kinds, and every core kind has one capability.       *)
LEMMA KindParts ==
  ASSUME NEW j \in Job
  PROVE  j.kind \in Core
BY JobParts, PipelineConstants

(* A worker that a step leaves alone stays linked and grounded.            *)
LEMMA OthersStay ==
  ASSUME PInv, Keeps, NEW v \in Workers, exec'[v] = exec[v],
         task'[v].pc = task[v].pc, task'[v].job = task[v].job
  PROVE  Linked(v)' /\ Grounded(v)'
<1>1. Linked(v)'
  BY DEF PInv, Linked
<1>2. CASE task[v].pc = "loop"
  BY <1>2, <1>1 DEF Grounded
<1>3. CASE task[v].pc # "loop"
  <2>1. task[v].job \in Job /\ task[v].job.kind \in Core
    BY <1>3, KindParts DEF PInv, Grounded
  <2>2. Capability(task[v].job.kind) => Capability(task[v].job.kind)'
    BY <2>1 DEF Keeps, Capability, Core
  <2> QED BY <1>1, <1>3, <2>1, <2>2 DEF PInv, Grounded, Keeps
<1> QED BY <1>2, <1>3

(* A row that a step leaves absent or present, and makes succeeded only    *)
(* with its capability published, stays founded.                           *)
LEMMA RowStays ==
  ASSUME PInv, Keeps, NEW j \in Job,
         jobs'[j].state # "absent" => jobs[j].state # "absent",
         jobs'[j].state = "succeeded" /\ j.gen = generation =>
           jobs[j].state = "succeeded" \/ Capability(j.kind)'
  PROVE  Founded(j)'
<1>1. Capability(j.kind) => Capability(j.kind)'
  BY KindParts DEF Keeps, Capability, Core
<1> QED BY <1>1 DEF PInv, Founded, Keeps

(* A step of the queue preserves the queue's own invariant.                *)
LEMMA QueueStep ==
  ASSUME PInv, [QNext]_qvars
  PROVE  QInv'
BY QTypeStep, QDisciplineStep DEF PInv, QInv

(* The invariant holds initially.                                          *)
LEMMA PInitInv == Init => PInv
<1> SUFFICES ASSUME Init PROVE PInv
  OBVIOUS
<1>1. QInv
  BY QInitInv DEF Init
<1>2. TypeOK
  <2>1. NotRequested \in Processing
    BY DEF NotRequested, Processing, Stages
  <2>2. IdleTask \in Task
    BY DEF IdleTask, Task
  <2>3. 0 \in 0..MaxCrashes
    BY PipelineConstants
  <2> QED BY <1>1, <2>1, <2>2, <2>3 DEF Init, TypeOK, QInv
<1>3. CapabilityOrder
  BY DEF Init, CapabilityOrder, NotRequested
<1>4. ASSUME NEW w \in Workers PROVE Linked(w) /\ Grounded(w)
  BY <1>4 DEF Init, QInit, IdleExec, IdleTask, Linked, Grounded
<1>5. ASSUME NEW j \in Job PROVE Founded(j)
  BY <1>5 DEF Init, QInit, AbsentRow, Founded
<1> QED BY <1>1, <1>2, <1>3, <1>4, <1>5 DEF PInv

-----------------------------------------------------------------------------
(* A step of one worker, inside a generation, that leaves that worker      *)
(* linked and grounded and the rows founded.                               *)
LEMMA WorkerSteps ==
  ASSUME PInv, NEW w \in Workers, RowStep, QInv',
         document' \in BOOLEAN, chunks' \in BOOLEAN, crashes' \in 0..MaxCrashes,
         task' \in [Workers -> Task],
         \A v \in Workers \ {w} :
           exec'[v] = exec[v] /\ task'[v].pc = task[v].pc /\ task'[v].job = task[v].job,
         Linked(w)', Grounded(w)',
         \A j \in Job : Founded(j)'
  PROVE  PInv'
<1>1. TypeOK'
  BY DEF PInv, TypeOK, QInv, RowStep
<1>2. ASSUME NEW v \in Workers PROVE Linked(v)' /\ Grounded(v)'
  <2>1. CASE v # w
    BY <2>1, OthersStay DEF RowStep
  <2>2. CASE v = w
    BY <2>2
  <2> QED BY <2>1, <2>2
<1> QED BY <1>1, <1>2 DEF PInv, RowStep

(* A step inside execute_job that goes on to the next step.                *)
LEMMA GoesOnWithRows ==
  ASSUME PInv, NEW w \in Workers, exec[w].phase = "executing",
         NEW pc \in Steps, QInv',
         UNCHANGED <<generation, exec, crashes>>, RowStep,
         \A j \in Job : Founded(j)',
         document' \in BOOLEAN, chunks' \in BOOLEAN,
         task' \in [Workers -> Task],
         task'[w].pc = pc, task'[w].job = task[w].job,
         \A v \in Workers \ {w} : task'[v].pc = task[v].pc /\ task'[v].job = task[v].job,
         pc \in ParsedSteps /\ task[w].job.gen = generation => proc'.introduction
  PROVE  PInv'
<1>1. Linked(w)'
  BY DEF Linked, PInv
<1>2. task[w].pc # "loop" /\ pc # "ok" /\ pc # "loop"
  BY DEF PInv, Linked, Steps
<1>3. Grounded(w)'
  BY <1>2 DEF Grounded, PInv, RowStep, Keeps
<1>4. crashes' \in 0..MaxCrashes
  BY DEF PInv, TypeOK
<1> QED BY <1>1, <1>3, <1>4, WorkerSteps

LEMMA GoesOn ==
  ASSUME PInv, NEW w \in Workers, exec[w].phase = "executing",
         NEW pc \in Steps,
         UNCHANGED <<qvars, crashes>>, RowStep,
         document' \in BOOLEAN, chunks' \in BOOLEAN,
         task' \in [Workers -> Task],
         task'[w].pc = pc, task'[w].job = task[w].job,
         \A v \in Workers \ {w} : task'[v].pc = task[v].pc /\ task'[v].job = task[v].job,
         pc \in ParsedSteps /\ task[w].job.gen = generation => proc'.introduction
  PROVE  PInv'
<1>1. QInv' /\ UNCHANGED <<jobs, generation, exec>>
  BY QueueStep DEF qvars
<1>2. ASSUME NEW j \in Job PROVE Founded(j)'
  BY <1>1, RowStays DEF RowStep
<1> QED BY <1>1, <1>2, GoesOnWithRows

(* A step with which execute_job returns.                                  *)
LEMMA Returns ==
  ASSUME PInv, NEW w \in Workers, NEW result \in Results,
         FinishExecution(w), task' = [task EXCEPT ![w].pc = result],
         UNCHANGED crashes, RowStep,
         document' \in BOOLEAN, chunks' \in BOOLEAN,
         result = "ok" /\ task[w].job.gen = generation =>
           Capability(task[w].job.kind)'
  PROVE  PInv'
<1>0. exec[w].phase = "executing" /\ jobs' = jobs /\ generation' = generation
  BY DEF FinishExecution
<1>1. QInv'
  BY QueueStep DEF QNext, WorkerStep
<1>2. task[w] \in Task /\ exec[w] \in Exec
  BY DEF PInv, TypeOK, QTypeOK
<1>3. [task[w] EXCEPT !.pc = result] \in Task
  BY <1>2 DEF Task
<1>4. task' \in [Workers -> Task] /\ crashes' \in 0..MaxCrashes
  BY <1>3 DEF PInv, TypeOK
<1>5. /\ task'[w].pc = result /\ task'[w].job = task[w].job
      /\ exec'[w].phase = "settling" /\ exec'[w].job = exec[w].job
      /\ \A v \in Workers \ {w} : exec'[v] = exec[v] /\ task'[v] = task[v]
  BY <1>2 DEF FinishExecution, PInv, TypeOK, QTypeOK, Task, Exec
<1>6. Linked(w)'
  BY <1>0, <1>5 DEF Linked, PInv
<1>7. task[w].pc # "loop" /\ result # "loop" /\ result \notin ParsedSteps
  BY <1>0 DEF PInv, Linked, Steps, Results, ParsedSteps
<1>8. Grounded(w)'
  BY <1>0, <1>5, <1>7 DEF Grounded, PInv, RowStep, Keeps
<1>9. ASSUME NEW j \in Job PROVE Founded(j)'
  BY <1>0, RowStays DEF RowStep
<1> QED BY <1>1, <1>4, <1>5, <1>6, <1>8, <1>9, WorkerSteps

-----------------------------------------------------------------------------
(* The processing row: what the statements of the repository do to it.     *)

(* The row a step leaves alone.                                            *)
LEMMA SameRow ==
  ASSUME PInv, UNCHANGED <<generation, proc>>
  PROVE  RowStep
BY DEF PInv, TypeOK, CapabilityOrder, RowStep, Keeps

(* A stage other than ready is written.                                    *)
LEMMA StageRow ==
  ASSUME PInv, generation' = generation, NEW stage \in Stages, stage # "ready",
         proc' = [proc EXCEPT !.stage = stage]
  PROVE  RowStep
<1>1. proc \in Processing
  BY DEF PInv, TypeOK
<1>2. /\ proc'.introduction = proc.introduction
      /\ proc'.chat = proc.chat
      /\ proc'.connections = proc.connections
      /\ proc'.stage = stage
  BY <1>1 DEF Processing
<1>3. proc' \in Processing
  BY <1>1 DEF Processing
<1> QED BY <1>2, <1>3 DEF RowStep, Keeps, PInv, CapabilityOrder

LEMMA SetStageRow ==
  ASSUME PInv, generation' = generation, NEW stage \in RunningStages, SetStage(stage)
  PROVE  RowStep
<1>1. stage \in Stages /\ stage # "ready"
  BY DEF RunningStages, Stages
<1>2. CASE proc' = proc
  BY <1>2, SameRow
<1>3. CASE proc' = [proc EXCEPT !.stage = stage]
  BY <1>1, <1>3, StageRow
<1> QED BY <1>2, <1>3 DEF SetStage

(* publish_capability, behind the introduction.                            *)
LEMMA PublishRow ==
  ASSUME PInv, generation' = generation, proc.introduction,
         NEW kind \in {"index_chat", "resolve_connections"}, Publish(kind)
  PROVE  RowStep /\ Capability(kind)'
<1>1. proc \in Processing
  BY DEF PInv, TypeOK
<1>2. proc' \in Processing
  BY <1>1 DEF Publish, Processing, Stages, RunningStages, FailedStages
<1>3. CASE kind = "index_chat"
  <2>1. /\ proc'.introduction /\ proc'.chat
        /\ proc'.connections = proc.connections
        /\ proc'.stage = "ready" => proc.connections
    BY <1>1, <1>3 DEF Publish, Processing, FailedStages
  <2> QED BY <1>2, <1>3, <2>1 DEF RowStep, Keeps, CapabilityOrder, Capability
<1>4. CASE kind = "resolve_connections"
  <2>1. /\ proc'.introduction /\ proc'.connections
        /\ proc'.chat = proc.chat
        /\ proc'.stage = "ready" => proc.chat
    BY <1>1, <1>4 DEF Publish, Processing, FailedStages
  <2> QED BY <1>2, <1>4, <2>1 DEF RowStep, Keeps, CapabilityOrder, Capability
<1> QED BY <1>3, <1>4

-----------------------------------------------------------------------------
(* The steps of execute_job preserve the invariant.                        *)

(* Changing one worker's program counter.                                  *)
LEMMA GotoTask ==
  ASSUME PInv, NEW w \in Workers, NEW pc \in Steps, Goto(w, pc)
  PROVE  /\ task' \in [Workers -> Task]
         /\ task'[w].pc = pc /\ task'[w].job = task[w].job
         /\ \A v \in Workers \ {w} :
              task'[v].pc = task[v].pc /\ task'[v].job = task[v].job
<1>1. task \in [Workers -> Task]
  BY DEF PInv, TypeOK
<1>2. [task[w] EXCEPT !.pc = pc] \in Task
  BY <1>1 DEF Task
<1> QED BY <1>1, <1>2 DEF Goto, Task

(* The step fails: nothing but a stage has been written.                   *)
LEMMA FailsInside ==
  ASSUME PInv, NEW w \in Workers, ReturnFailure(w), RowStep,
         UNCHANGED <<document, chunks, crashes>>
  PROVE  PInv'
<1>1. PICK result \in Failures : Return(w, result)
  BY DEF ReturnFailure
<1>2. result \in Results /\ result # "ok"
  BY PipelineConstants DEF Results
<1>3. document' \in BOOLEAN /\ chunks' \in BOOLEAN
  BY DEF PInv, TypeOK
<1> QED BY <1>1, <1>2, <1>3, Returns DEF Return, Goto

(* The step finds its generation superseded.                               *)
LEMMA StopsStale ==
  ASSUME PInv, NEW w \in Workers, Return(w, "stale") \/ Return(w, "retryable"),
         UNCHANGED <<proc, document, chunks, crashes>>
  PROVE  PInv'
<1>1. RowStep
  BY SameRow DEF Return, FinishExecution
<1>2. document' \in BOOLEAN /\ chunks' \in BOOLEAN
  BY DEF PInv, TypeOK
<1> QED BY <1>1, <1>2, Returns DEF Return, Goto, Results

LEMMA ReadStep ==
  ASSUME PInv, NEW w \in Workers, ReadProcessing(w)
  PROVE  PInv'
<1>1. CASE Return(w, "retryable") \/ Return(w, "stale")
  BY <1>1, StopsStale DEF ReadProcessing
<1>2. CASE /\ Goto(w, IF proc.introduction /\ document
                     THEN "enqueue_chat" ELSE "license")
           /\ UNCHANGED qvars
  <2> DEFINE pc == IF proc.introduction /\ document THEN "enqueue_chat" ELSE "license"
  <2>1. pc \in Steps /\ (pc \in ParsedSteps => proc.introduction)
    BY DEF Steps, ParsedSteps
  <2>2. UNCHANGED <<proc, document, chunks, crashes, generation>>
    BY <1>2 DEF ReadProcessing, qvars
  <2>3. RowStep
    BY <2>2, SameRow
  <2>4. exec[w].phase = "executing" /\ document \in BOOLEAN /\ chunks \in BOOLEAN
    BY DEF ReadProcessing, At, PInv, TypeOK
  <2> HIDE DEF pc
  <2>5. Goto(w, pc)
    BY <1>2 DEF pc
  <2> QED BY <1>2, <2>1, <2>2, <2>3, <2>4, <2>5, GotoTask, GoesOn
<1> QED BY <1>1, <1>2 DEF ReadProcessing, AlreadyPrepared

LEMMA FetchStep ==
  ASSUME PInv, NEW w \in Workers,
         NEW pc \in Steps, NEW stage \in RunningStages,
         NEW next \in Steps \ ParsedSteps, Fetch(w, pc, stage, next)
  PROVE  PInv'
<1>1. CASE ReturnStale(w)
  BY <1>1, StopsStale DEF Fetch, ReturnStale
<1>2. CASE SetStage(stage) /\ ReturnFailure(w) /\ UNCHANGED <<document, chunks>>
  <2>1. RowStep
    BY <1>2, SetStageRow DEF ReturnFailure, Return, FinishExecution
  <2> QED BY <1>2, <2>1, FailsInside DEF Fetch
<1>3. CASE SetStage(stage) /\ Goto(w, next) /\ UNCHANGED <<qvars, document, chunks>>
  <2>1. RowStep
    BY <1>3, SetStageRow DEF qvars
  <2>2. exec[w].phase = "executing" /\ document \in BOOLEAN /\ chunks \in BOOLEAN
    BY DEF Fetch, At, PInv, TypeOK
  <2>3. crashes' = crashes
    BY DEF Fetch
  <2> QED BY <1>3, <2>1, <2>2, <2>3, GotoTask, GoesOn
<1> QED BY <1>1, <1>2, <1>3 DEF Fetch

LEMMA PersistParsedStep ==
  ASSUME PInv, NEW w \in Workers, PersistParsedDocument(w)
  PROVE  PInv'
<1>0. exec[w].phase = "executing" /\ proc \in Processing
      /\ document \in BOOLEAN /\ task \in [Workers -> Task]
  BY DEF PersistParsedDocument, At, PInv, TypeOK
<1>1. CASE ReturnStale(w)
  BY <1>1, StopsStale DEF PersistParsedDocument, ReturnStale
<1>2. CASE ReturnFailure(w) /\ UNCHANGED <<proc, document, chunks>>
  <2>1. RowStep
    BY <1>2, SameRow DEF ReturnFailure, Return, FinishExecution
  <2> QED BY <1>2, <2>1, FailsInside DEF PersistParsedDocument
<1>3. CASE /\ proc' = [proc EXCEPT !.stage = "introduction_ready", !.introduction = TRUE]
           /\ chunks' = FALSE
           /\ task' = [v \in Workers |->
                         [task[v] EXCEPT !.fresh = FALSE,
                                         !.pc = IF v = w THEN "document" ELSE @]]
           /\ UNCHANGED <<qvars, document>>
  <2>1. /\ proc' \in Processing
        /\ proc'.introduction
        /\ proc'.stage = "introduction_ready"
        /\ proc'.chat = proc.chat
        /\ proc'.connections = proc.connections
    BY <1>0, <1>3 DEF Processing, Stages, RunningStages
  <2>2. RowStep
    BY <1>3, <2>1 DEF RowStep, Keeps, CapabilityOrder, qvars
  <2>3. ASSUME NEW v \in Workers
        PROVE  /\ [task[v] EXCEPT !.fresh = FALSE,
                                  !.pc = IF v = w THEN "document" ELSE @] \in Task
               /\ task'[v].job = task[v].job
               /\ task'[v].pc = IF v = w THEN "document" ELSE task[v].pc
    <3>1. task[v] \in Task
      BY <1>0
    <3> QED BY <1>3, <3>1 DEF Task, Steps
  <2>4. task' \in [Workers -> Task]
    BY <1>3, <2>3
  <2>5. crashes' = crashes /\ "document" \in Steps
    BY DEF PersistParsedDocument, Steps
  <2>6. document' \in BOOLEAN /\ chunks' \in BOOLEAN /\ UNCHANGED <<qvars, crashes>>
    BY <1>0, <1>3, <2>5
  <2>7. /\ task'[w].pc = "document" /\ task'[w].job = task[w].job
        /\ \A v \in Workers \ {w} : task'[v].pc = task[v].pc /\ task'[v].job = task[v].job
    BY <2>3
  <2> QED BY <1>0, <2>1, <2>2, <2>4, <2>5, <2>6, <2>7, GoesOn
<1> QED BY <1>1, <1>2, <1>3 DEF PersistParsedDocument

LEMMA PersistStep ==
  ASSUME PInv, NEW w \in Workers, PersistDocument(w)
  PROVE  PInv'
<1>1. CASE ReturnStale(w)
  BY <1>1, StopsStale DEF PersistDocument, ReturnStale
<1>2. CASE ReturnFailure(w) /\ UNCHANGED <<proc, document, chunks>>
  <2>1. RowStep
    BY <1>2, SameRow DEF ReturnFailure, Return, FinishExecution
  <2> QED BY <1>2, <2>1, FailsInside DEF PersistDocument
<1>3. CASE /\ document' = TRUE /\ Goto(w, "enqueue_chat")
           /\ UNCHANGED <<qvars, proc, chunks>>
  <2>1. RowStep
    BY <1>3, SameRow DEF qvars
  <2>2. /\ exec[w].phase = "executing" /\ chunks \in BOOLEAN
        /\ task[w].pc = "document"
    BY DEF PersistDocument, At, PInv, TypeOK
  <2>3. task[w].job.gen = generation => proc.introduction
    BY <2>2 DEF PInv, Grounded, ParsedSteps
  <2>4. crashes' = crashes /\ "enqueue_chat" \in Steps
    BY DEF PersistDocument, Steps
  <2> QED BY <1>3, <2>1, <2>2, <2>3, <2>4, GotoTask, GoesOn
<1> QED BY <1>1, <1>2, <1>3 DEF PersistDocument

(* A follow-up job names a job, and its row is founded: the parent is      *)
(* behind the parser.                                                      *)
LEMMA FollowUpStep ==
  ASSUME PInv, NEW w \in Workers, NEW kind \in {"index_chat", "resolve_connections"},
         NEW next \in ParsedSteps,
         exec[w].phase = "executing", task[w].pc \in ParsedSteps,
         EnqueueFollowUp(w, kind), Goto(w, next),
         UNCHANGED <<proc, document, chunks, crashes>>
  PROVE  PInv'
<1>1. /\ next \in Steps /\ task[w].pc # "loop"
      /\ document' \in BOOLEAN /\ chunks' \in BOOLEAN
  BY DEF ParsedSteps, Steps, PInv, TypeOK
<1>2. task[w].job \in Job /\ (task[w].job.gen = generation => proc.introduction)
  BY <1>1 DEF PInv, Grounded
<1>3. CASE UNCHANGED qvars
  <2>1. RowStep
    BY <1>3, SameRow DEF qvars
  <2> QED BY <1>1, <1>2, <1>3, <2>1, GotoTask, GoesOn
<1>4. CASE EnqueueOnce(FollowUp(w, kind))
  <2>1. PICK j \in Job : j = FollowUp(w, kind)
    BY <1>2, JobParts, PipelineConstants DEF FollowUp, Job, Core
  <2>2. EnqueueOnce(j)
    BY <1>4, <2>1 DEF EnqueueOnce
  <2>3. j.gen = task[w].job.gen
    BY <2>1 DEF FollowUp
  <2>4. QInv' /\ UNCHANGED <<generation, exec>>
    BY <2>2, QueueStep DEF QNext, Producer, EnqueueOnce
  <2>5. RowStep
    BY <2>4, SameRow
  <2>6. jobs \in [Job -> Row]
    BY DEF PInv, TypeOK, QTypeOK
  <2>7. ASSUME NEW k \in Job PROVE Founded(k)'
    <3>1. CASE k = j
      BY <1>2, <2>2, <2>3, <2>4, <2>6, <3>1, WrittenRows DEF EnqueueOnce, Founded
    <3>2. CASE k # j
      BY <2>2, <2>6, <3>2, RowStays, <2>5 DEF EnqueueOnce, RowStep
    <3> QED BY <3>1, <3>2
  <2> QED BY <1>1, <1>2, <2>4, <2>5, <2>7, GotoTask, GoesOnWithRows
<1> QED BY <1>3, <1>4 DEF EnqueueFollowUp

LEMMA EnqueueStep ==
  ASSUME PInv, NEW w \in Workers, EnqueueChat(w) \/ EnqueueRefs(w)
  PROVE  PInv'
<1>1. /\ exec[w].phase = "executing" /\ task[w].pc \in ParsedSteps
      /\ UNCHANGED <<proc, document, chunks, crashes>>
  BY DEF EnqueueChat, EnqueueRefs, At, ParsedSteps
<1>2. CASE ReturnFailure(w)
  <2>1. RowStep
    BY <1>1, <1>2, SameRow DEF ReturnFailure, Return, FinishExecution
  <2> QED BY <1>1, <1>2, <2>1, FailsInside
<1>3. CASE \/ EnqueueFollowUp(w, "index_chat") /\ Goto(w, "enqueue_refs")
           \/ EnqueueFollowUp(w, "resolve_connections") /\ Goto(w, "enqueue_rest")
  BY <1>1, <1>3, FollowUpStep DEF ParsedSteps
<1> QED BY <1>2, <1>3 DEF EnqueueChat, EnqueueRefs

LEMMA EnqueueRestStep ==
  ASSUME PInv, NEW w \in Workers, EnqueueRest(w)
  PROVE  PInv'
<1>1. /\ task[w].pc = "enqueue_rest" /\ task[w].job.kind = "prepare_document"
      /\ UNCHANGED <<proc, document, chunks, crashes>>
      /\ document \in BOOLEAN /\ chunks \in BOOLEAN
  BY DEF EnqueueRest, At, PInv, TypeOK
<1>2. RowStep
  BY <1>1, SameRow DEF EnqueueRest, ReturnFailure, Return, FinishExecution
<1>3. CASE ReturnFailure(w)
  BY <1>1, <1>2, <1>3, FailsInside
<1>4. CASE Return(w, "ok")
  <2>1. task'[w].job = task[w].job
    BY <1>4 DEF Return, Goto, PInv, TypeOK, Task
  <2>2. task[w].job.gen = generation => proc.introduction
    BY <1>1 DEF PInv, Grounded, ParsedSteps
  <2>3. task[w].job.gen = generation => Capability(task[w].job.kind)'
    BY <1>1, <2>1, <2>2 DEF Capability
  <2> QED BY <1>1, <1>2, <1>4, <2>3, Returns DEF Return, Goto, Results
<1> QED BY <1>3, <1>4 DEF EnqueueRest

LEMMA BeginStep ==
  ASSUME PInv, NEW w \in Workers, NEW kind \in {"index_chat", "resolve_connections"},
         BeginArtifact(w, kind)
  PROVE  PInv'
<1>1. CASE ReturnStale(w)
  BY <1>1, StopsStale DEF BeginArtifact, ReturnStale
<1>s. ArtifactStage(kind) \in RunningStages
  BY DEF ArtifactStage, RunningStages
<1>2. CASE SetStage(ArtifactStage(kind)) /\ ReturnFailure(w) /\ UNCHANGED <<document, chunks>>
  <2>1. RowStep
    BY <1>2, <1>s, SetStageRow DEF ReturnFailure, Return, FinishExecution
  <2> QED BY <1>2, <2>1, FailsInside DEF BeginArtifact
<1>3. CASE /\ SetStage(ArtifactStage(kind)) /\ Goto(w, "build")
           /\ UNCHANGED <<qvars, document, chunks>>
  <2>1. RowStep
    BY <1>3, <1>s, SetStageRow DEF qvars
  <2>2. /\ exec[w].phase = "executing" /\ document \in BOOLEAN /\ chunks \in BOOLEAN
        /\ crashes' = crashes /\ "build" \in Steps \ ParsedSteps
    BY DEF BeginArtifact, At, PInv, TypeOK, Steps, ParsedSteps
  <2> QED BY <1>3, <2>1, <2>2, GotoTask, GoesOn
<1> QED BY <1>1, <1>2, <1>3 DEF BeginArtifact

LEMMA BuildStep ==
  ASSUME PInv, NEW w \in Workers, NEW kind \in {"index_chat", "resolve_connections"},
         BuildArtifact(w, kind)
  PROVE  PInv'
<1>1. /\ exec[w].phase = "executing" /\ document' \in BOOLEAN /\ chunks' \in BOOLEAN
      /\ UNCHANGED <<proc, document, chunks, crashes>>
  BY DEF BuildArtifact, At, PInv, TypeOK
<1>2. CASE ReturnFailure(w)
  <2>1. RowStep
    BY <1>1, <1>2, SameRow DEF ReturnFailure, Return, FinishExecution
  <2> QED BY <1>1, <1>2, <2>1, FailsInside
<1>3. CASE /\ task' = [task EXCEPT ![w].pc = "publish", ![w].fresh = TRUE]
           /\ UNCHANGED qvars
  <2>1. RowStep
    BY <1>1, <1>3, SameRow DEF qvars
  <2>2. task[w] \in Task /\ task \in [Workers -> Task]
    BY DEF PInv, TypeOK
  <2>3. [task[w] EXCEPT !.pc = "publish", !.fresh = TRUE] \in Task
    BY <2>2 DEF Task, Steps
  <2>4. task' \in [Workers -> Task]
    BY <1>3, <2>2, <2>3
  <2>5. /\ task'[w].pc = "publish" /\ task'[w].job = task[w].job
        /\ \A v \in Workers \ {w} : task'[v].pc = task[v].pc /\ task'[v].job = task[v].job
    BY <1>3, <2>2 DEF Task
  <2>6. "publish" \in Steps \ ParsedSteps
    BY DEF Steps, ParsedSteps
  <2> QED BY <1>1, <1>3, <2>1, <2>4, <2>5, <2>6, GoesOn
<1> QED BY <1>2, <1>3 DEF BuildArtifact

LEMMA PublishStep ==
  ASSUME PInv, NEW w \in Workers, NEW kind \in {"index_chat", "resolve_connections"},
         PublishArtifact(w, kind)
  PROVE  PInv'
<1>0. /\ exec[w].phase = "executing" /\ task[w].pc = "publish"
      /\ task[w].job.kind = kind /\ crashes' = crashes
      /\ document \in BOOLEAN /\ chunks \in BOOLEAN
  BY DEF PublishArtifact, At, PInv, TypeOK
<1>1. CASE ReturnStale(w)
  BY <1>0, <1>1, StopsStale DEF ReturnStale
<1>2. CASE ReturnFailure(w) /\ UNCHANGED <<proc, document, chunks>>
  <2>1. RowStep
    BY <1>2, SameRow DEF ReturnFailure, Return, FinishExecution
  <2> QED BY <1>0, <1>2, <2>1, FailsInside
<1>3. CASE Return(w, "retryable") /\ UNCHANGED <<proc, document, chunks>>
  BY <1>0, <1>3, StopsStale
<1>4. CASE /\ ~Stale(w) /\ Publish(kind) /\ Return(w, "ok")
           /\ chunks' = (chunks \/ kind = "index_chat") /\ UNCHANGED document
  <2>1. generation' = generation /\ task'[w].job = task[w].job
    BY <1>4 DEF Return, Goto, FinishExecution, PInv, TypeOK, Task
  <2>2. proc.introduction
    BY <1>0, <1>4 DEF PInv, Grounded, Stale
  <2>3. RowStep /\ Capability(kind)'
    BY <1>4, <2>1, <2>2, PublishRow
  <2>4. Capability(task[w].job.kind)'
    BY <1>0, <2>1, <2>3
  <2>5. chunks' \in BOOLEAN /\ document' \in BOOLEAN
    BY <1>0, <1>4
  <2> QED BY <1>0, <1>4, <2>3, <2>4, <2>5, Returns DEF Return, Goto, Results
<1> QED BY <1>1, <1>2, <1>3, <1>4 DEF PublishArtifact

(* A step of execute_job preserves the invariant.                          *)
LEMMA JobStepInv ==
  ASSUME PInv, NEW w \in Workers, JobStep(w)
  PROVE  PInv'
<1>1. /\ {"license", "pdf", "parsing", "persist"} \subseteq Steps \ ParsedSteps
      /\ {"fetching_license", "fetching_pdf", "parsing_pdf"} \subseteq RunningStages
  BY DEF Steps, ParsedSteps, RunningStages
<1> QED BY <1>1, ReadStep, FetchStep, PersistParsedStep, PersistStep, EnqueueStep,
           EnqueueRestStep, BeginStep, BuildStep, PublishStep DEF JobStep

-----------------------------------------------------------------------------
(* The steps of process_claimed behind execute_job.                        *)

(* A step in which a worker lets go of its job, or keeps it only to        *)
(* publish its failure.                                                    *)
LEMMA LetsGo ==
  ASSUME PInv, NEW w \in Workers, RowStep, QInv',
         \A j \in Job : Founded(j)',
         UNCHANGED <<document, chunks>>, crashes' \in 0..MaxCrashes,
         exec'[w].phase = "idle", \A v \in Workers \ {w} : exec'[v] = exec[v],
         NEW t \in Task, task' = [task EXCEPT ![w] = t],
         \/ t.pc = "loop"
         \/ t.pc \in Marks /\ t.job = task[w].job /\ task[w].pc # "loop"
  PROVE  PInv'
<1>1. /\ document' \in BOOLEAN /\ chunks' \in BOOLEAN
      /\ task \in [Workers -> Task]
  BY DEF PInv, TypeOK
<1>2. task' \in [Workers -> Task] /\ task'[w] = t
      /\ \A v \in Workers \ {w} : task'[v] = task[v]
  BY <1>1
<1>3. Linked(w)'
  BY <1>2 DEF Linked
<1>4. t.pc \notin ParsedSteps /\ t.pc # "ok"
  BY DEF ParsedSteps, Marks
<1>5. Grounded(w)'
  <2>1. CASE t.pc = "loop"
    BY <1>2, <2>1 DEF Grounded
  <2>2. CASE t.job = task[w].job /\ task[w].pc # "loop"
    BY <1>2, <1>4, <2>2 DEF Grounded, PInv, RowStep, Keeps
  <2> QED BY <2>1, <2>2
<1> QED BY <1>1, <1>2, <1>3, <1>5, WorkerSteps

(* A worker that settles is settling the job its code has run.             *)
LEMMA AtSettling ==
  ASSUME PInv, NEW w \in Workers, NEW result \in Results, Settling(w, result)
  PROVE  /\ exec[w].phase = "settling" /\ task[w].pc = result
         /\ task[w].job = exec[w].job /\ task[w].job \in Job
         /\ exec \in [Workers -> Exec] /\ task \in [Workers -> Task]
         /\ IdleTask \in Task /\ IdleTask.pc = "loop" /\ IdleExec.phase = "idle"
         /\ crashes \in 0..MaxCrashes
BY DEF Settling, PInv, TypeOK, QTypeOK, Linked, Grounded, Results, IdleTask, Task, IdleExec

LEMMA CompleteStep ==
  ASSUME PInv, NEW w \in Workers, CompleteJob(w)
  PROVE  PInv'
<1>1. /\ exec[w].phase = "settling" /\ task[w].pc = "ok"
      /\ task[w].job = exec[w].job /\ exec \in [Workers -> Exec]
      /\ IdleTask \in Task /\ IdleTask.pc = "loop" /\ IdleExec.phase = "idle"
      /\ crashes \in 0..MaxCrashes
  BY AtSettling DEF CompleteJob, Results
<1>2. Complete(w) /\ UNCHANGED <<proc, document, chunks, crashes>>
      /\ task' = [task EXCEPT ![w] = IdleTask]
  BY DEF CompleteJob
<1>3. QInv' /\ generation' = generation
  BY <1>2, QueueStep DEF QNext, WorkerStep, Settle, Complete
<1>4. RowStep
  BY <1>2, <1>3, SameRow
<1>5. /\ exec'[w].phase = "idle"
      /\ \A v \in Workers \ {w} : exec'[v] = exec[v]
  BY <1>1, <1>2 DEF Complete, Release
<1>6. ASSUME NEW j \in Job PROVE Founded(j)'
  <2>1. CASE jobs'[j] = jobs[j]
    BY <1>4, <2>1, RowStays DEF RowStep
  <2>2. CASE exec[w].job = j /\ HeldBy(w, j) /\ jobs'[j].state = "succeeded"
    <3>1. j.gen = generation => Capability(j.kind)
      BY <1>1, <2>2 DEF PInv, Grounded
    <3>2. Capability(j.kind)' = Capability(j.kind)
      BY <1>2, KindParts DEF Capability, Core
    <3>3. jobs[j].state # "absent"
      BY <2>2 DEF HeldBy
    <3> QED BY <1>4, <3>1, <3>2, <3>3, RowStays DEF RowStep
  <2> QED BY <1>2, <2>1, <2>2, CompleteEffect DEF PInv, TypeOK
<1> QED BY <1>1, <1>2, <1>3, <1>4, <1>5, <1>6, LetsGo

LEMMA DropStep ==
  ASSUME PInv, NEW w \in Workers, DropStaleWork(w)
  PROVE  PInv'
<1>1. /\ exec \in [Workers -> Exec]
      /\ IdleTask \in Task /\ IdleTask.pc = "loop" /\ IdleExec.phase = "idle"
      /\ crashes \in 0..MaxCrashes
  BY AtSettling DEF DropStaleWork, Results
<1>2. DiscardStale(w) /\ UNCHANGED <<proc, document, chunks, crashes>>
      /\ task' = [task EXCEPT ![w] = IdleTask]
  BY DEF DropStaleWork
<1>3. QInv' /\ UNCHANGED <<jobs, generation>>
  BY <1>2, QueueStep DEF QNext, WorkerStep, Settle, DiscardStale
<1>4. RowStep
  BY <1>2, <1>3, SameRow
<1>5. /\ exec'[w].phase = "idle"
      /\ \A v \in Workers \ {w} : exec'[v] = exec[v]
  BY <1>1, <1>2 DEF DiscardStale, Release
<1>6. ASSUME NEW j \in Job PROVE Founded(j)'
  BY <1>3, <1>4, RowStays DEF RowStep
<1> QED BY <1>1, <1>2, <1>3, <1>4, <1>5, <1>6, LetsGo

LEMMA RecordStep ==
  ASSUME PInv, NEW w \in Workers, RecordFailure(w)
  PROVE  PInv'
<1>1. /\ exec[w].phase = "settling" /\ task[w].pc \in {"retryable", "terminal"}
      /\ task[w].job = exec[w].job
      /\ exec \in [Workers -> Exec] /\ task \in [Workers -> Task]
      /\ IdleTask \in Task /\ IdleTask.pc = "loop" /\ IdleExec.phase = "idle"
      /\ crashes \in 0..MaxCrashes
  BY AtSettling DEF RecordFailure, Settling, Results
<1>2. PICK r \in BOOLEAN : Fail(w, r)
  BY DEF RecordFailure
<1>3. QInv' /\ generation' = generation
  BY <1>2, QueueStep DEF QNext, WorkerStep, Settle, Fail
<1>p. UNCHANGED <<proc, document, chunks, crashes>>
  BY DEF RecordFailure
<1>4. RowStep
  BY <1>3, <1>p, SameRow
<1>5. /\ exec'[w].phase = "idle"
      /\ \A v \in Workers \ {w} : exec'[v] = exec[v]
  BY <1>1, <1>2 DEF Fail, Release
<1>6. ASSUME NEW j \in Job PROVE Founded(j)'
  <2>1. \/ jobs'[j] = jobs[j]
        \/ jobs[j].state = "running" /\ jobs'[j].state \in {"queued", "failed"}
    BY <1>2, FailEffect DEF PInv, TypeOK, HeldBy
  <2> QED BY <1>4, <2>1, RowStays DEF RowStep
<1>7. PICK mark \in Marks :
        task' = IF HeldBy(w, task[w].job) THEN [task EXCEPT ![w].pc = mark]
                ELSE [task EXCEPT ![w] = IdleTask]
  BY DEF RecordFailure, Marks
<1>8. CASE HeldBy(w, task[w].job)
  <2> DEFINE t == [task[w] EXCEPT !.pc = mark]
  <2>1. t \in Task /\ t.pc = mark /\ t.job = task[w].job
    BY <1>1 DEF Task
  <2>2. task' = [task EXCEPT ![w] = t]
    BY <1>7, <1>8
  <2> HIDE DEF t
  <2> QED BY <1>1, <1>p, <1>3, <1>4, <1>5, <1>6, <2>1, <2>2, LetsGo
<1>9. CASE ~HeldBy(w, task[w].job)
  BY <1>1, <1>p, <1>3, <1>4, <1>5, <1>6, <1>7, <1>9, LetsGo
<1> QED BY <1>8, <1>9

LEMMA PublishFailureStep ==
  ASSUME PInv, NEW w \in Workers, PublishFailure(w)
  PROVE  PInv'
<1>1. /\ task[w].pc \in Marks /\ UNCHANGED <<qvars, document, chunks>>
      /\ crashes' = crashes
      /\ task' = [task EXCEPT ![w] = IdleTask]
  BY DEF PublishFailure
<1>1a. crashes' = crashes /\ crashes \in 0..MaxCrashes
  BY <1>1 DEF PInv, TypeOK
<1>2. exec[w].phase = "idle"
  BY <1>1 DEF PInv, Linked, TypeOK, QTypeOK, Exec, Marks, Steps, Results
<1>3. QInv' /\ UNCHANGED <<jobs, generation, exec>>
  BY <1>1, QueueStep DEF qvars
<1>4. PICK stage \in Stages :
        /\ stage # "ready"
        /\ proc' = IF Stale(w) THEN proc ELSE [proc EXCEPT !.stage = stage]
  BY <1>1 DEF PublishFailure, Marks, RetryStage, ArtifactStage, Stages,
              RunningStages, FailedStages
<1>5. RowStep
  BY <1>3, <1>4, SameRow, StageRow
<1>6. ASSUME NEW j \in Job PROVE Founded(j)'
  BY <1>3, <1>5, RowStays DEF RowStep
<1>7. IdleTask \in Task /\ IdleTask.pc = "loop"
  BY DEF IdleTask, Task
<1> QED BY <1>1, <1>1a, <1>2, <1>3, <1>5, <1>6, <1>7, LetsGo

-----------------------------------------------------------------------------
(* The claim loop, and what happens around it.                             *)

(* Where a worker is before it claims.                                     *)
LEMMA InLoop ==
  ASSUME PInv, NEW w \in Workers, exec[w].phase = "swept" \/ task[w].pc = "loop"
  PROVE  /\ task[w].pc = "loop" /\ task[w] \in Task
         /\ task = [task EXCEPT ![w] = task[w]]
         /\ exec \in [Workers -> Exec] /\ task \in [Workers -> Task]
         /\ crashes \in 0..MaxCrashes
BY DEF PInv, TypeOK, QTypeOK, Linked

LEMMA SweepStep ==
  ASSUME PInv, NEW w \in Workers, SweepExhausted(w)
  PROVE  PInv'
<1>1. /\ task[w].pc = "loop" /\ UNCHANGED <<document, chunks, task, crashes>>
      /\ FailExhaustedLeases(w)
  BY DEF SweepExhausted
<1>2. /\ task \in [Workers -> Task] /\ exec \in [Workers -> Exec]
      /\ crashes \in 0..MaxCrashes /\ document \in BOOLEAN /\ chunks \in BOOLEAN
  BY DEF PInv, TypeOK, QTypeOK
<1>3. QInv' /\ generation' = generation
  BY <1>1, QueueStep DEF QNext, WorkerStep, FailExhaustedLeases
<1>4. RowStep
  <2>1. CASE proc' = proc
    BY <1>3, <2>1, SameRow
  <2>2. CASE proc' = [proc EXCEPT !.stage = "failed_retryable"]
    BY <1>3, <2>2, StageRow DEF Stages, FailedStages
  <2> QED BY <2>1, <2>2 DEF SweepExhausted
<1>5. /\ exec'[w].phase = "swept"
      /\ \A v \in Workers \ {w} : exec'[v] = exec[v]
  BY <1>1, <1>2 DEF FailExhaustedLeases, Exec
<1>6. ASSUME NEW j \in Job PROVE Founded(j)'
  <2>1. CASE Exhausted(j)
    <3>1. jobs[j] \in Row /\ jobs'[j] = Settled(jobs[j], "failed")
      BY <1>1, <2>1 DEF FailExhaustedLeases, PInv, TypeOK, QTypeOK
    <3>2. jobs'[j].state = "failed" /\ jobs[j].state = "running"
      BY <2>1, <3>1, WrittenRows DEF JobState, Exhausted, LeaseExpired
    <3> QED BY <1>4, <3>2, RowStays DEF RowStep
  <2>2. CASE ~Exhausted(j)
    <3>1. jobs'[j] = jobs[j]
      BY <1>1, <2>2 DEF FailExhaustedLeases
    <3> QED BY <1>4, <3>1, RowStays DEF RowStep
  <2> QED BY <2>1, <2>2
<1>7. Linked(w)' /\ Grounded(w)'
  BY <1>1, <1>5 DEF Linked, Grounded
<1> QED BY <1>1, <1>2, <1>3, <1>4, <1>5, <1>6, <1>7, WorkerSteps

(* A claimed row is of the current generation, so that what it stands on   *)
(* is known from Founded.                                                  *)
LEMMA ClaimStep ==
  ASSUME PInv, NEW w \in Workers, NEW j \in Job, ClaimJob(w, j)
  PROVE  PInv'
<1> DEFINE t == [pc |-> FirstStep(j.kind), job |-> j, fresh |-> FALSE]
<1>1. /\ Claim(w, j) /\ task' = [task EXCEPT ![w] = t]
      /\ UNCHANGED <<proc, document, chunks, crashes>>
  BY DEF ClaimJob
<1>2. /\ t \in Task /\ t.job = j
      /\ t.pc \in Steps \ ParsedSteps
  BY DEF Task, FirstStep, Steps, ParsedSteps
<1>3. /\ task \in [Workers -> Task] /\ exec \in [Workers -> Exec]
      /\ crashes \in 0..MaxCrashes /\ document \in BOOLEAN /\ chunks \in BOOLEAN
  BY DEF PInv, TypeOK, QTypeOK
<1>4. QInv' /\ generation' = generation
  BY <1>1, QueueStep DEF QNext, WorkerStep, Claim
<1>5. RowStep
  BY <1>1, <1>4, SameRow
<1> HIDE DEF t
<1>6. /\ exec'[w].phase = "executing" /\ exec'[w].job = j
      /\ \A v \in Workers \ {w} : exec'[v] = exec[v] /\ task'[v] = task[v]
      /\ task'[w] = t /\ task' \in [Workers -> Task]
  BY <1>1, <1>2, <1>3 DEF Claim
<1>7. jobs[j].state # "absent" /\ j.gen = generation
  BY <1>1 DEF Claim, Claimable, LeaseExpired
<1>8. ASSUME NEW k \in Job PROVE Founded(k)'
  <2>1. CASE k = j
    <3>1. jobs'[j].state = "running"
      BY <1>1, ClaimEffect DEF PInv, TypeOK
    <3> QED BY <1>5, <1>7, <2>1, <3>1, RowStays DEF RowStep
  <2>2. CASE k # j
    <3>1. jobs'[k] = jobs[k]
      BY <1>1, <2>2, ClaimEffect DEF PInv, TypeOK
    <3> QED BY <1>5, <3>1, RowStays DEF RowStep
  <2> QED BY <2>1, <2>2
<1>9. Linked(w)'
  BY <1>2, <1>6 DEF Linked
<1>10. Grounded(w)'
  <2>1. j.gen <= generation /\ (j.kind # "prepare_document" => proc.introduction)
    BY <1>7 DEF PInv, Founded
  <2>2. t.pc # "ok"
    BY <1>2 DEF Steps
  <2> QED BY <1>1, <1>2, <1>4, <1>6, <2>1, <2>2 DEF Grounded
<1> QED BY <1>1, <1>3, <1>4, <1>5, <1>6, <1>8, <1>9, <1>10, WorkerSteps

LEMMA NothingStep ==
  ASSUME PInv, NEW w \in Workers, FindNothing(w)
  PROVE  PInv'
<1>1. ClaimNothing(w) /\ UNCHANGED <<proc, document, chunks, task, crashes>>
  BY DEF FindNothing, pvars
<1>2. exec[w].phase = "swept" /\ UNCHANGED <<jobs, generation>>
  BY <1>1 DEF ClaimNothing
<1>3. /\ task[w].pc = "loop" /\ task[w] \in Task
      /\ task' = [task EXCEPT ![w] = task[w]]
      /\ exec \in [Workers -> Exec] /\ crashes' \in 0..MaxCrashes
  BY <1>1, <1>2, InLoop
<1>4. QInv'
  BY <1>1, QueueStep DEF QNext, WorkerStep
<1>5. RowStep
  BY <1>1, <1>2, SameRow
<1>6. /\ exec'[w].phase = "idle"
      /\ \A v \in Workers \ {w} : exec'[v] = exec[v]
  BY <1>1, <1>3 DEF ClaimNothing, IdleExec
<1>7. ASSUME NEW j \in Job PROVE Founded(j)'
  BY <1>2, <1>5, RowStays DEF RowStep
<1> QED BY <1>1, <1>3, <1>4, <1>5, <1>6, <1>7, LetsGo

LEMMA CrashStep ==
  ASSUME PInv, NEW w \in Workers, CrashWorker(w)
  PROVE  PInv'
<1>1. /\ task' = [task EXCEPT ![w] = IdleTask]
      /\ UNCHANGED <<proc, document, chunks>>
      /\ Crash(w) \/ (task[w].pc \in Marks /\ UNCHANGED qvars)
      /\ crashes < MaxCrashes /\ crashes' = crashes + 1
  BY DEF CrashWorker
<1>2. crashes \in 0..MaxCrashes /\ exec \in [Workers -> Exec]
  BY DEF PInv, TypeOK, QTypeOK
<1>3. crashes' \in 0..MaxCrashes
  BY <1>1, <1>2, PipelineConstants
<1>4. QInv' /\ UNCHANGED <<jobs, generation>>
  BY <1>1, QueueStep DEF QNext, WorkerStep, Crash, qvars
<1>5. RowStep
  BY <1>1, <1>4, SameRow
<1>6. /\ exec'[w].phase = "idle"
      /\ \A v \in Workers \ {w} : exec'[v] = exec[v]
  <2>1. CASE Crash(w)
    BY <1>2, <2>1 DEF Crash, Release, IdleExec
  <2>2. CASE task[w].pc \in Marks /\ UNCHANGED qvars
    BY <1>2, <2>2 DEF PInv, Linked, Exec, Marks, Steps, Results, qvars
  <2> QED BY <1>1, <2>1, <2>2
<1>7. ASSUME NEW j \in Job PROVE Founded(j)'
  BY <1>4, <1>5, RowStays DEF RowStep
<1>8. IdleTask \in Task /\ IdleTask.pc = "loop"
  BY DEF IdleTask, Task
<1> QED BY <1>1, <1>3, <1>4, <1>5, <1>6, <1>7, <1>8, LetsGo

(* A step of no worker, inside a generation.                               *)
LEMMA OutsideStep ==
  ASSUME PInv, RowStep, QInv', UNCHANGED <<exec, task, document, chunks, crashes>>,
         \A j \in Job : Founded(j)'
  PROVE  PInv'
<1>1. TypeOK'
  BY DEF PInv, TypeOK, QInv, RowStep
<1>2. ASSUME NEW v \in Workers PROVE Linked(v)' /\ Grounded(v)'
  BY OthersStay DEF RowStep
<1> QED BY <1>1, <1>2 DEF PInv, RowStep

LEMMA PrepareStep ==
  ASSUME PInv, NEW retry \in BOOLEAN, PrepareRequest(retry)
  PROVE  PInv'
<1>1. /\ PrepareJobs(WantedKinds, retry)
      /\ UNCHANGED <<document, chunks, task, crashes>>
      /\ proc' = [proc EXCEPT !.stage = NextStage]
  BY DEF PrepareRequest
<1>2. UNCHANGED <<generation, exec>>
  BY <1>1 DEF PrepareJobs
<1>3. WantedKinds \in SUBSET Kinds
  BY PipelineConstants DEF WantedKinds, Core
<1>4. QInv'
  BY <1>1, <1>3, QueueStep DEF QNext, Producer
<1>5. RowStep
  <2>1. NextStage \in Stages /\ NextStage # "ready"
    BY DEF NextStage, Stages, RunningStages
  <2> QED BY <1>1, <1>2, <2>1, StageRow
<1>6. PICK S \in SUBSET Job :
        /\ \A j \in S : j.gen = generation /\ j.kind \in WantedKinds
        /\ jobs' = [j \in Job |-> IF j \in S THEN FreshRow ELSE jobs[j]]
  BY <1>1 DEF PrepareJobs
<1>7. ASSUME NEW j \in Job PROVE Founded(j)'
  <2>1. CASE j \in S
    <3>1. jobs'[j].state = "queued" /\ j.gen = generation
      BY <1>6, <2>1, WrittenRows
    <3>2. j.kind # "prepare_document" => proc.introduction
      BY <1>6, <2>1 DEF WantedKinds
    <3>3. j.gen <= generation'
      BY <1>2, <3>1 DEF PInv, TypeOK, QTypeOK, Generations
    <3> QED BY <1>2, <1>5, <3>1, <3>2, <3>3 DEF Founded, RowStep, Keeps
  <2>2. CASE j \notin S
    <3>1. jobs'[j] = jobs[j]
      BY <1>6, <2>2
    <3> QED BY <1>5, <3>1, RowStays DEF RowStep
  <2> QED BY <2>1, <2>2
<1> QED BY <1>1, <1>2, <1>4, <1>5, <1>7, OutsideStep

(* A new version leaves nothing of the current generation: neither a row   *)
(* of the queue nor a job a worker runs.                                   *)
LEMMA VersionStep ==
  ASSUME PInv, ObserveNewVersion
  PROVE  PInv'
<1>1. /\ NewArxivVersion /\ UNCHANGED <<exec, task, crashes>>
      /\ proc' = NotRequested /\ document' = FALSE /\ chunks' = FALSE
      /\ generation' = generation + 1
  BY DEF ObserveNewVersion, NewArxivVersion
<1>2. generation \in Nat
  BY DEF PInv, TypeOK, QTypeOK, Generations
<1>3. QInv'
  BY <1>1, QueueStep DEF QNext, Producer
<1>4. proc' \in Processing /\ CapabilityOrder'
  BY <1>1 DEF NotRequested, Processing, Stages, CapabilityOrder
<1>5. TypeOK'
  BY <1>1, <1>3, <1>4 DEF PInv, TypeOK, QInv
<1>6. ASSUME NEW w \in Workers PROVE Linked(w)' /\ Grounded(w)'
  <2>1. Linked(w)'
    BY <1>1 DEF PInv, Linked
  <2>2. CASE task[w].pc # "loop"
    <3>1. /\ task[w].job \in Job /\ task[w].job.gen <= generation
          /\ task[w].job.gen \in Nat
      BY <2>2, JobParts DEF PInv, Grounded
    <3>2. task[w].job.gen <= generation' /\ task[w].job.gen # generation'
      BY <1>1, <1>2, <3>1
    <3> QED BY <1>1, <2>1, <2>2, <3>1, <3>2 DEF Grounded
  <2>3. CASE task[w].pc = "loop"
    BY <1>1, <2>1, <2>3 DEF Grounded
  <2> QED BY <2>2, <2>3
<1>7. ASSUME NEW j \in Job PROVE Founded(j)'
  <2>1. jobs'[j].state # "absent" => jobs[j].state # "absent"
    BY <1>1 DEF NewArxivVersion, Live
  <2>2. CASE jobs'[j].state # "absent"
    <3>1. j.gen <= generation /\ j.gen \in Nat
      BY <2>1, <2>2, JobParts DEF PInv, Founded
    <3>2. j.gen <= generation' /\ j.gen # generation'
      BY <1>1, <1>2, <3>1
    <3> QED BY <3>2 DEF Founded
  <2>3. CASE jobs'[j].state = "absent"
    BY <2>3 DEF Founded
  <2> QED BY <2>2, <2>3
<1> QED BY <1>3, <1>4, <1>5, <1>6, <1>7 DEF PInv

LEMMA TimeStep ==
  ASSUME PInv, PassTime
  PROVE  PInv'
<1>1. Tick /\ UNCHANGED <<proc, document, chunks, task, crashes>>
  BY DEF PassTime, pvars
<1>2. QInv' /\ UNCHANGED <<generation, exec>>
  BY <1>1, QueueStep DEF QNext, Tick
<1>3. RowStep
  BY <1>1, <1>2, SameRow
<1>4. ASSUME NEW j \in Job PROVE Founded(j)'
  <2>1. jobs'[j].state = jobs[j].state
    BY <1>1, TickEffect DEF PInv, TypeOK
  <2> QED BY <1>3, <2>1, RowStays DEF RowStep
<1> QED BY <1>1, <1>2, <1>3, <1>4, OutsideStep

(* Every step of the pipeline preserves the invariant.                     *)
LEMMA PStepInv == PInv /\ [Next]_vars => PInv'
<1> SUFFICES ASSUME PInv, [Next]_vars PROVE PInv'
  OBVIOUS
<1>1. CASE UNCHANGED vars
  <2>1. UNCHANGED <<jobs, generation, exec, proc, document, chunks, task, crashes>>
    BY <1>1 DEF vars
  <2>2. RowStep
    BY <2>1, SameRow
  <2>3. QInv'
    BY <2>1, QueueStep DEF qvars
  <2>4. ASSUME NEW j \in Job PROVE Founded(j)'
    BY <2>1, <2>2, RowStays DEF RowStep
  <2> QED BY <2>1, <2>2, <2>3, <2>4, OutsideStep
<1>2. ASSUME NEW w \in Workers, SettleStep(w) PROVE PInv'
  BY <1>2, CompleteStep, DropStep, RecordStep, PublishFailureStep DEF SettleStep
<1> QED BY <1>1, <1>2, PrepareStep, VersionStep, TimeStep, SweepStep, ClaimStep,
           NothingStep, JobStepInv, CrashStep DEF Next

-----------------------------------------------------------------------------
(* What the steps of the pipeline do to the queue.                         *)

LEMMA JobUsesQueue ==
  ASSUME PInv, NEW w \in Workers, JobStep(w)
  PROVE  [QNext]_qvars
<1>1. ASSUME ReturnStale(w) \/ ReturnFailure(w) \/ \E r \in Results : Return(w, r)
      PROVE  [QNext]_qvars
  BY <1>1 DEF ReturnStale, ReturnFailure, Return, QNext, WorkerStep
<1>2. ASSUME ReadProcessing(w) PROVE [QNext]_qvars
  BY <1>1, <1>2 DEF ReadProcessing, Results
<1>3. ASSUME NEW pc \in Steps, NEW stage \in RunningStages, NEW next \in Steps,
             Fetch(w, pc, stage, next)
      PROVE  [QNext]_qvars
  BY <1>1, <1>3 DEF Fetch
<1>4. ASSUME PersistParsedDocument(w) PROVE [QNext]_qvars
  BY <1>1, <1>4 DEF PersistParsedDocument
<1>5. ASSUME PersistDocument(w) PROVE [QNext]_qvars
  BY <1>1, <1>5 DEF PersistDocument
<1>6. ASSUME EnqueueChat(w) \/ EnqueueRefs(w) PROVE [QNext]_qvars
  <2>1. task[w].pc # "loop"
    BY <1>6 DEF EnqueueChat, EnqueueRefs, At
  <2>2. task[w].job \in Job
    BY <2>1 DEF PInv, Grounded
  <2>3. ASSUME NEW kind \in {"index_chat", "resolve_connections"},
               EnqueueFollowUp(w, kind)
        PROVE  [QNext]_qvars
    <3>1. PICK j \in Job : j = FollowUp(w, kind)
      BY <2>2, JobParts, PipelineConstants DEF FollowUp, Job, Core
    <3>2. EnqueueOnce(j) \/ UNCHANGED qvars
      BY <2>3, <3>1 DEF EnqueueFollowUp, EnqueueOnce
    <3> QED BY <3>2 DEF QNext, Producer
  <2> QED BY <1>1, <1>6, <2>3 DEF EnqueueChat, EnqueueRefs
<1>7. ASSUME EnqueueRest(w) PROVE [QNext]_qvars
  BY <1>1, <1>7 DEF EnqueueRest, Results
<1>8. ASSUME NEW kind \in {"index_chat", "resolve_connections"},
             BeginArtifact(w, kind) \/ BuildArtifact(w, kind) \/ PublishArtifact(w, kind)
      PROVE  [QNext]_qvars
  BY <1>1, <1>8 DEF BeginArtifact, BuildArtifact, PublishArtifact, Results
<1>9. /\ {"license", "pdf", "parsing", "persist"} \subseteq Steps
      /\ {"fetching_license", "fetching_pdf", "parsing_pdf"} \subseteq RunningStages
  BY DEF Steps, RunningStages
<1> QED BY <1>2, <1>3, <1>4, <1>5, <1>6, <1>7, <1>8, <1>9 DEF JobStep

LEMMA EveryStepUsesQueue == PInv /\ [Next]_vars => [QNext]_qvars
<1> SUFFICES ASSUME PInv, [Next]_vars PROVE [QNext]_qvars
  OBVIOUS
<1>1. CASE UNCHANGED vars
  BY <1>1 DEF vars, qvars
<1>2. ASSUME NEW retry \in BOOLEAN, PrepareRequest(retry) PROVE [QNext]_qvars
  <2>1. WantedKinds \in SUBSET Kinds
    BY PipelineConstants DEF WantedKinds, Core
  <2>2. PrepareJobs(WantedKinds, retry)
    BY <1>2 DEF PrepareRequest
  <2> QED BY <2>1, <2>2 DEF QNext, Producer
<1>3. ASSUME ObserveNewVersion \/ PassTime PROVE [QNext]_qvars
  BY <1>3 DEF ObserveNewVersion, PassTime, QNext, Producer
<1>4. ASSUME NEW w \in Workers,
             SweepExhausted(w) \/ (\E j \in Job : ClaimJob(w, j)) \/ FindNothing(w)
      PROVE  [QNext]_qvars
  BY <1>4 DEF SweepExhausted, ClaimJob, FindNothing, QNext, WorkerStep
<1>5. ASSUME NEW w \in Workers, CompleteJob(w) \/ DropStaleWork(w) PROVE [QNext]_qvars
  BY <1>5 DEF CompleteJob, DropStaleWork, QNext, WorkerStep, Settle
<1>6. ASSUME NEW w \in Workers, RecordFailure(w) PROVE [QNext]_qvars
  <2>1. PICK r \in BOOLEAN : Fail(w, r)
    BY <1>6 DEF RecordFailure
  <2> QED BY <2>1 DEF QNext, WorkerStep, Settle
<1>7. ASSUME NEW w \in Workers, PublishFailure(w) \/ CrashWorker(w) PROVE [QNext]_qvars
  BY <1>7 DEF PublishFailure, CrashWorker, QNext, WorkerStep
<1> QED BY <1>1, <1>2, <1>3, <1>4, <1>5, <1>6, <1>7, JobUsesQueue DEF Next, SettleStep

-----------------------------------------------------------------------------
(* What the steps of the pipeline do to the processing row.                *)

(* Only a new version takes anything back.                                 *)
LEMMA JobKeeps ==
  ASSUME PInv, NEW w \in Workers, JobStep(w)
  PROVE  Keeps
<1>1. proc \in Processing
  BY DEF PInv, TypeOK
<1>2. generation' = generation
  BY DEF JobStep, ReadProcessing, Fetch, PersistParsedDocument,
     PersistDocument, EnqueueChat, EnqueueRefs, EnqueueRest, EnqueueFollowUp,
     EnqueueOnce, BeginArtifact, BuildArtifact, PublishArtifact, ReturnStale,
     ReturnFailure, Return, FinishExecution, qvars
<1>3. ASSUME ReadProcessing(w) \/ PersistDocument(w) \/ EnqueueChat(w)
             \/ EnqueueRefs(w) \/ EnqueueRest(w)
      PROVE  Keeps
  BY <1>2, <1>3 DEF ReadProcessing, PersistDocument, EnqueueChat, EnqueueRefs,
                    EnqueueRest, ReturnStale, Keeps
<1>4. ASSUME NEW stage \in RunningStages, SetStage(stage) PROVE Keeps
  BY <1>2, <1>4, SetStageRow DEF RowStep
<1>5. ASSUME NEW pc \in Steps, NEW stage \in RunningStages, NEW next \in Steps,
             Fetch(w, pc, stage, next)
      PROVE  Keeps
  BY <1>2, <1>4, <1>5 DEF Fetch, ReturnStale, Keeps
<1>6. ASSUME PersistParsedDocument(w) PROVE Keeps
  BY <1>1, <1>2, <1>6 DEF PersistParsedDocument, ReturnStale, Processing, Keeps
<1>7. ASSUME NEW kind \in {"index_chat", "resolve_connections"},
             BeginArtifact(w, kind) \/ BuildArtifact(w, kind) \/ PublishArtifact(w, kind)
      PROVE  Keeps
  <2>1. CASE UNCHANGED proc
    BY <1>2, <2>1 DEF Keeps
  <2>2. CASE SetStage(ArtifactStage(kind))
    BY <1>4, <2>2 DEF ArtifactStage, RunningStages
  <2>3. CASE Publish(kind)
    BY <1>1, <1>2, <2>3 DEF Publish, Processing, Keeps
  <2> QED BY <1>7, <2>1, <2>2, <2>3
          DEF BeginArtifact, BuildArtifact, PublishArtifact, ReturnStale
<1>8. /\ {"license", "pdf", "parsing", "persist"} \subseteq Steps
      /\ {"fetching_license", "fetching_pdf", "parsing_pdf"} \subseteq RunningStages
  BY DEF Steps, RunningStages
<1> QED BY <1>3, <1>5, <1>6, <1>7, <1>8 DEF JobStep

LEMMA EveryStepKeeps == PInv /\ [Next]_vars => Keeps \/ ObserveNewVersion
<1> SUFFICES ASSUME PInv, [Next]_vars, ~ObserveNewVersion PROVE Keeps
  OBVIOUS
<1>1. CASE UNCHANGED <<generation, proc>>
  BY <1>1 DEF Keeps
<1>2. ASSUME generation' = generation, NEW stage \in Stages,
             proc' = [proc EXCEPT !.stage = stage]
      PROVE  Keeps
  BY <1>2 DEF Keeps, PInv, TypeOK, Processing
<1>3. ASSUME NEW retry \in BOOLEAN, PrepareRequest(retry) PROVE Keeps
  <2>1. NextStage \in Stages
    BY DEF NextStage, Stages, RunningStages
  <2> QED BY <1>2, <1>3, <2>1 DEF PrepareRequest, PrepareJobs
<1>4. ASSUME NEW w \in Workers, SweepExhausted(w) PROVE Keeps
  <2>1. "failed_retryable" \in Stages
    BY DEF Stages, FailedStages
  <2> QED BY <1>1, <1>2, <1>4, <2>1 DEF SweepExhausted, FailExhaustedLeases
<1>5. ASSUME NEW w \in Workers, PublishFailure(w) PROVE Keeps
  <2>1. PICK stage \in Stages :
          proc' = IF Stale(w) THEN proc ELSE [proc EXCEPT !.stage = stage]
    BY <1>5 DEF PublishFailure, Marks, RetryStage, ArtifactStage, Stages,
                RunningStages, FailedStages
  <2> QED BY <1>1, <1>2, <1>5, <2>1 DEF PublishFailure, qvars
<1>6. ASSUME NEW w \in Workers,
             \/ (\E j \in Job : ClaimJob(w, j)) \/ FindNothing(w) \/ CrashWorker(w)
             \/ CompleteJob(w) \/ DropStaleWork(w) \/ RecordFailure(w)
      PROVE  Keeps
  BY <1>1, <1>6 DEF ClaimJob, Claim, FindNothing, ClaimNothing, pvars, CrashWorker,
     Crash, qvars, CompleteJob, Complete, DropStaleWork, DiscardStale, RecordFailure,
     Fail
<1>7. ASSUME PassTime \/ UNCHANGED vars PROVE Keeps
  BY <1>1, <1>7 DEF PassTime, Tick, pvars, vars
<1> QED BY <1>3, <1>4, <1>5, <1>6, <1>7, JobKeeps DEF Next, SettleStep

(* A worker on a superseded generation changes nothing of the current one. *)
LEMMA StaleStep ==
  ASSUME PInv, NEW w \in Workers, JobStep(w) \/ SettleStep(w), Stale(w)
  PROVE  UNCHANGED <<proc, document, chunks>>
<1>1. CASE JobStep(w)
  BY <1>1 DEF JobStep, ReadProcessing, Fetch, PersistParsedDocument,
     PersistDocument, EnqueueChat, EnqueueRefs, EnqueueRest, BeginArtifact,
     BuildArtifact, PublishArtifact, ReturnStale
<1>2. CASE SettleStep(w)
  BY <1>2 DEF SettleStep, CompleteJob, DropStaleWork, RecordFailure, PublishFailure
<1> QED BY <1>1, <1>2

(* A worker moves itself only.                                             *)
LEMMA MovesAlone ==
  ASSUME PInv, NEW w \in Workers, NEW v \in Workers \ {w},
         JobStep(v) \/ SettleStep(v) \/ (\E j \in Job : ClaimJob(v, j))
           \/ FindNothing(v) \/ CrashWorker(v)
  PROVE  task'[w].pc = task[w].pc /\ task'[w].job = task[w].job /\ exec'[w] = exec[w]
<1> DEFINE Same == task'[w].pc = task[w].pc /\ task'[w].job = task[w].job
<1>0. task \in [Workers -> Task] /\ task[w] \in Task /\ exec \in [Workers -> Exec]
  BY DEF PInv, TypeOK, QTypeOK
<1>1. ASSUME NEW pc, Goto(v, pc) PROVE Same
  BY <1>0, <1>1 DEF Goto
<1>2. ASSUME PersistParsedDocument(v) PROVE Same
  <2>1. CASE task' = [u \in Workers |->
                        [task[u] EXCEPT !.fresh = FALSE,
                                        !.pc = IF u = v THEN "document" ELSE @]]
    BY <1>0, <2>1 DEF Task
  <2> QED BY <1>1, <1>2, <2>1 DEF PersistParsedDocument, ReturnStale, ReturnFailure, Return
<1>3. ASSUME JobStep(v), ~PersistParsedDocument(v) PROVE Same
  <2>1. ASSUME NEW kind \in {"index_chat", "resolve_connections"}, BuildArtifact(v, kind)
        PROVE  Same
    BY <1>0, <1>1, <2>1 DEF BuildArtifact, ReturnFailure, Return
  <2> HIDE DEF Same
  <2> QED BY <1>1, <1>3, <2>1 DEF JobStep, ReadProcessing, Fetch, PersistDocument,
             EnqueueChat, EnqueueRefs, EnqueueRest, BeginArtifact, PublishArtifact,
             ReturnStale, ReturnFailure, Return
<1>4. ASSUME SettleStep(v) PROVE Same
  BY <1>0, <1>4 DEF SettleStep, CompleteJob, DropStaleWork, RecordFailure, PublishFailure
<1>5. ASSUME (\E j \in Job : ClaimJob(v, j)) \/ FindNothing(v) \/ CrashWorker(v)
      PROVE  Same
  BY <1>0, <1>5 DEF ClaimJob, FindNothing, pvars, CrashWorker
<1>6. Same
  BY <1>2, <1>3, <1>4, <1>5
<1>7. exec' = exec \/ \E e : exec' = [exec EXCEPT ![v] = e]
  <2>1. CASE JobStep(v)
    BY <2>1 DEF JobStep, ReadProcessing, Fetch, PersistParsedDocument,
       PersistDocument, EnqueueChat, EnqueueRefs, EnqueueRest, EnqueueFollowUp,
       EnqueueOnce, BeginArtifact, BuildArtifact, PublishArtifact, ReturnStale,
       ReturnFailure, Return, FinishExecution, qvars
  <2>2. CASE SettleStep(v)
    BY <2>2 DEF SettleStep, CompleteJob, Complete, DropStaleWork, DiscardStale,
       RecordFailure, Fail, PublishFailure, Release, qvars
  <2>3. CASE (\E j \in Job : ClaimJob(v, j)) \/ FindNothing(v) \/ CrashWorker(v)
    BY <2>3 DEF ClaimJob, Claim, FindNothing, ClaimNothing, CrashWorker, Crash, Release, qvars
  <2> QED BY <2>1, <2>2, <2>3
<1> QED BY <1>0, <1>6, <1>7

LEMMA EveryStaleStep ==
  ASSUME PInv, [Next]_vars, NEW w \in Workers, task[w].pc # "loop",
         task[w].job.gen # generation, task'[w].pc # task[w].pc
  PROVE  UNCHANGED <<proc, document, chunks>>
<1>1. \/ JobStep(w) \/ SettleStep(w) \/ (\E j \in Job : ClaimJob(w, j))
      \/ FindNothing(w) \/ CrashWorker(w)
  <2>1. task' # task
    OBVIOUS
  <2>2. ~ \E retry \in BOOLEAN : PrepareRequest(retry)
    BY <2>1 DEF PrepareRequest
  <2>3. ~ObserveNewVersion /\ ~PassTime /\ ~UNCHANGED vars
    BY <2>1 DEF ObserveNewVersion, PassTime, pvars, vars
  <2>4. ~ \E v \in Workers : SweepExhausted(v)
    BY <2>1 DEF SweepExhausted
  <2> QED BY <2>2, <2>3, <2>4, MovesAlone DEF Next
<1>2. CASE JobStep(w) \/ SettleStep(w)
  BY <1>2, StaleStep DEF Stale
<1>3. CASE CrashWorker(w) \/ FindNothing(w) \/ \E j \in Job : ClaimJob(w, j)
  BY <1>3 DEF CrashWorker, FindNothing, ClaimJob, pvars
<1> QED BY <1>1, <1>2, <1>3

-----------------------------------------------------------------------------
(* The invariant holds in every reachable state.                           *)
THEOREM PipelineInvariant == Spec => []PInv
BY PInitInv, PStepInv, PTL DEF Spec

(* The processing row and the workers' programs keep their types, and      *)
(* crashes stay within their bound.                                        *)
THEOREM PipelineTypes == Spec => []TypeOK
<1>1. PInv => TypeOK
  BY DEF PInv
<1> QED BY <1>1, PipelineInvariant, PTL

(* The capabilities of the paper_processing row are published in their     *)
(* dependency order, whatever the interleaving of replays, zombies,        *)
(* crashes and new versions.                                               *)
THEOREM PipelineCapabilityOrder == Spec => []CapabilityOrder
<1>1. PInv => CapabilityOrder
  BY DEF PInv
<1> QED BY <1>1, PipelineInvariant, PTL

(* A job that the jobs table records as succeeded has published its        *)
(* capability in the paper_processing row.                                 *)
THEOREM PipelineSucceededIsPublished == Spec => []SucceededIsPublished
<1>1. PInv => SucceededIsPublished
  <2> SUFFICES ASSUME PInv, NEW kind \in Core,
                      jobs[CurrentJob(kind)].state = "succeeded"
               PROVE  Capability(kind)
    BY DEF SucceededIsPublished
  <2>1. PICK j \in Job : j = CurrentJob(kind)
    BY PipelineConstants DEF PInv, TypeOK, QTypeOK, CurrentJob, Job
  <2>2. j.gen = generation /\ j.kind = kind
    BY <2>1 DEF CurrentJob
  <2> QED BY <2>1, <2>2 DEF PInv, Founded
<1> QED BY <1>1, PipelineInvariant, PTL

(* The pipeline writes the jobs table only by the operations of the queue. *)
THEOREM PipelineUsesQueue == Spec => UsesQueue
<1>1. Init => QInit
  BY DEF Init
<1> QED BY <1>1, EveryStepUsesQueue, PipelineInvariant, PTL DEF Spec, UsesQueue, QSpec

(* Through UsesQueue, the promises of the queue hold in the pipeline: the  *)
(* lease discipline of its workers, and the logical jobs.                  *)
THEOREM PipelineJobs == Spec => []LeaseDiscipline /\ ImplementsLogicalJobs
BY PipelineUsesQueue, QueueLeaseDiscipline, QueueImplementsLogicalJobs, PTL DEF UsesQueue

(* Capabilities are withdrawn only by the next version of the paper.       *)
THEOREM PipelineCapabilitiesOnlyGrow == Spec => CapabilitiesOnlyGrow
<1>1. PInv /\ [Next]_vars =>
        [/\ generation' \in {generation, generation + 1}
         /\ generation' = generation =>
              \A f \in {"introduction", "chat", "connections"} :
                proc[f] => proc'[f]]_vars
  <2> SUFFICES ASSUME PInv, [Next]_vars
               PROVE  /\ generation' \in {generation, generation + 1}
                      /\ generation' = generation =>
                           \A f \in {"introduction", "chat", "connections"} :
                             proc[f] => proc'[f]
    OBVIOUS
  <2>1. CASE Keeps
    <3>1. proc \in Processing /\ proc' \in Processing
      BY PStepInv DEF PInv, TypeOK
    <3> QED BY <2>1, <3>1 DEF Keeps, Processing
  <2>2. CASE ObserveNewVersion
    <3>1. generation' = generation + 1 /\ generation \in Nat
      BY <2>2 DEF ObserveNewVersion, NewArxivVersion, PInv, TypeOK, QTypeOK, Generations
    <3> QED BY <3>1
  <2> QED BY <2>1, <2>2, EveryStepKeeps
<1> QED BY <1>1, PipelineInvariant, PTL DEF Spec, CapabilitiesOnlyGrow

(* Work of a superseded generation is inert.                               *)
THEOREM PipelineStaleWorkIsInert == Spec => StaleWorkIsInert
<1>1. PInv /\ [Next]_vars =>
        [\A w \in Workers :
           task[w].pc # "loop" /\ task[w].job.gen # generation
             /\ task'[w].pc # task[w].pc =>
             UNCHANGED <<proc, document, chunks>>]_vars
  BY EveryStaleStep
<1> QED BY <1>1, PipelineInvariant, PTL DEF Spec, StaleWorkIsInert
=============================================================================
