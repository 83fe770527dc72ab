---------------------------- MODULE PaperPipeline ----------------------------
(***************************************************************************)
(* The preparation of one paper: the client's prepare request, the core    *)
(* jobs that worker processes execute (prepare_document, index_chat,       *)
(* resolve_connections), the paper_processing row they all write, and the  *)
(* arrival of newer arXiv versions.  The jobs table and the claim loop are *)
(* module JobQueue; every step here is a step of the queue or leaves it    *)
(* alone (UsesQueue).                                                      *)
(*                                                                         *)
(* A step is one database transaction or statement, together with the      *)
(* upstream call (arXiv, parser, model) that decides what comes next.      *)
(***************************************************************************)
EXTENDS JobQueue

CONSTANTS
    Failures,        \* upstream outcomes besides success that may occur
    LeasesMayLapse,  \* whether a lease can run out under a live execution
    MaxCrashes       \* bound: crashes of worker processes

Core == {"prepare_document", "index_chat", "resolve_connections"}

ASSUME PipelineConstants ==
    /\ Kinds = Core
    /\ Failures \subseteq {"retryable", "terminal"}
    /\ LeasesMayLapse \in BOOLEAN
    /\ MaxCrashes \in Nat

VARIABLES
    proc,      \* the paper_processing row (its generation is in JobQueue)
    document,  \* the normalized document of the current generation is stored
    chunks,    \* the chat corpus of the current generation is not empty
    task,      \* where each worker is in the code of the job it claimed
    crashes

pvars == <<proc, document, chunks, task, crashes>>
vars == <<jobs, generation, exec, proc, document, chunks, task, crashes>>

FailedStages == {"failed_retryable", "failed_terminal"}
RunningStages == {"queued", "fetching_license", "fetching_pdf", "parsing_pdf",
                  "introduction_ready", "indexing_chat", "resolving_references"}
Stages == {"not_requested", "ready"} \cup RunningStages \cup FailedStages

(* retryable is not kept: every statement that writes the stage sets it to *)
(* stage = 'failed_retryable'.                                             *)
Processing == [stage: Stages, introduction: BOOLEAN, chat: BOOLEAN,
               connections: BOOLEAN]

NotRequested == [stage |-> "not_requested", introduction |-> FALSE,
                 chat |-> FALSE, connections |-> FALSE]

(* A worker is in its loop, at a step of a job, has a result to settle, or *)
(* has still to publish the failure it settled.                            *)
Steps == {"read", "license", "pdf", "parsing", "persist", "document",
          "enqueue_chat", "enqueue_refs", "enqueue_rest", "stage", "build", "publish"}
Results == {"ok", "stale", "retryable", "terminal"}
Marks == {"mark_retry", "mark_retryable", "mark_terminal"}

(* fresh: the sections or references the execution has read still exist.   *)
Task == [pc: {"loop"} \cup Steps \cup Results \cup Marks,
         job: Job \cup {NoJob}, fresh: BOOLEAN]
IdleTask == [pc |-> "loop", job |-> NoJob, fresh |-> FALSE]

Init ==
    /\ QInit
    /\ proc = NotRequested
    /\ document = FALSE
    /\ chunks = FALSE
    /\ task = [w \in Workers |-> IdleTask]
    /\ crashes = 0

-----------------------------------------------------------------------------
(* Capabilities::valid_for_stage, without the enrichment capabilities.  A  *)
(* row that fails it cannot be decoded by any reader of the table.         *)
ValidForStage(p) ==
    /\ p.chat \/ p.connections => p.introduction
    /\ p.stage \in {"not_requested", "queued", "fetching_license",
                    "fetching_pdf", "parsing_pdf"} => ~p.introduction
    /\ p.stage = "introduction_ready" =>
         p.introduction /\ ~p.chat /\ ~p.connections
    /\ p.stage = "indexing_chat" => p.introduction /\ ~p.chat
    /\ p.stage = "resolving_references" => p.introduction /\ ~p.connections
    /\ p.stage = "ready" => p.introduction /\ p.chat /\ p.connections

(* The generation of the job is not the paper's any more, which every      *)
(* transaction of a job checks under a lock of the paper_processing row.   *)
NeverStale(w) == FALSE   \* mutant: the check is dropped
Stale(w) == task[w].job.gen # generation

(* set_stage: the stage is written unless the paper has failed.            *)
SetStage(stage) ==
    proc' = IF proc.stage \in FailedStages THEN proc
            ELSE [proc EXCEPT !.stage = stage]

Goto(w, pc) == task' = [task EXCEPT ![w].pc = pc]

(* execute_job returns a result; the heartbeat stops.                      *)
Return(w, result) == FinishExecution(w) /\ Goto(w, result)

(* A transaction that fails, or is not reached because the upstream call   *)
(* before it fails.                                                        *)
FailureSwallowed(w) == Return(w, "ok")   \* mutant: the error is only logged
ReturnFailure(w) ==
    \E result \in Failures : Return(w, result)

At(w, kind, pc) ==
    exec[w].phase = "executing" /\ task[w].job.kind = kind /\ task[w].pc = pc

(* A step that belongs to the current generation either does its work and  *)
(* goes on, or fails; on a superseded generation it touches nothing.       *)
ReturnStale(w) ==
    /\ Stale(w)
    /\ Return(w, "stale")
    /\ UNCHANGED <<proc, document, chunks>>

-----------------------------------------------------------------------------
(* prepare_document.                                                       *)

(* What an earlier execution has committed is not done again.              *)
NothingPrepared == FALSE   \* mutant: the work starts over
AlreadyPrepared == proc.introduction /\ document

(* The row is read, decoded and compared with the job's generation; a      *)
(* document that is already there only needs its follow-up jobs.           *)
ReadProcessing(w) ==
    /\ At(w, "prepare_document", "read")
    /\ \/ ~ValidForStage(proc) /\ Return(w, "retryable")
       \/ ValidForStage(proc) /\ Stale(w) /\ Return(w, "stale")
       \/ /\ ValidForStage(proc) /\ ~Stale(w)
          /\ Goto(w, IF AlreadyPrepared THEN "enqueue_chat" ELSE "license")
          /\ UNCHANGED qvars
    /\ UNCHANGED <<proc, document, chunks, crashes>>

(* Fetching the license, the PDF and the parse: the stage is published,    *)
(* then the policy, arXiv or the parser answers.                           *)
Fetch(w, pc, stage, next) ==
    /\ At(w, "prepare_document", pc)
    /\ \/ ReturnStale(w)
       \/ /\ ~Stale(w)
          /\ SetStage(stage)
          /\ ReturnFailure(w) \/ (Goto(w, next) /\ UNCHANGED qvars)
          /\ UNCHANGED <<document, chunks>>
    /\ UNCHANGED crashes

(* persist_parsed_document: sections and references are replaced, which    *)
(* cascades to the chunks and connections, and the introduction published. *)
PersistParsedDocument(w) ==
    /\ At(w, "prepare_document", "persist")
    /\ \/ ReturnStale(w)
       \/ /\ ~Stale(w) /\ ReturnFailure(w)
          /\ UNCHANGED <<proc, document, chunks>>
       \/ /\ ~Stale(w)
          /\ proc' = [proc EXCEPT !.stage = "introduction_ready",
                                  !.introduction = TRUE]
          /\ chunks' = FALSE
          /\ task' = [v \in Workers |->
                        [task[v] EXCEPT !.fresh = FALSE,
                                        !.pc = IF v = w THEN "document" ELSE @]]
          /\ UNCHANGED <<qvars, document>>
    /\ UNCHANGED crashes

(* documents.persist_document, a transaction of its own.                   *)
PersistDocument(w) ==
    /\ At(w, "prepare_document", "document")
    /\ \/ ReturnStale(w)
       \/ /\ ~Stale(w) /\ ReturnFailure(w)
          /\ UNCHANGED <<proc, document, chunks>>
       \/ /\ ~Stale(w)
          /\ document' = TRUE
          /\ Goto(w, "enqueue_chat")
          /\ UNCHANGED <<qvars, proc, chunks>>
    /\ UNCHANGED crashes

FollowUp(w, kind) == [gen |-> task[w].job.gen, kind |-> kind]

EnqueueBestEffort(w, kind) ==   \* mutant: the job goes on without the row
    EnqueueOnce(FollowUp(w, kind)) \/ UNCHANGED qvars

EnqueueFollowUp(w, kind) ==
    \/ EnqueueOnce(FollowUp(w, kind))
    \/ jobs[FollowUp(w, kind)].state # "absent" /\ UNCHANGED qvars

(* enqueue_downstream: each follow-up is inserted on its own, in the       *)
(* generation of the job whatever the generation of the paper has become.  *)
EnqueueChat(w) ==
    /\ At(w, "prepare_document", "enqueue_chat")
    /\ \/ EnqueueFollowUp(w, "index_chat") /\ Goto(w, "enqueue_refs")
       \/ ReturnFailure(w)
    /\ UNCHANGED <<proc, document, chunks, crashes>>

EnqueueRefs(w) ==
    /\ At(w, "prepare_document", "enqueue_refs")
    /\ \/ EnqueueFollowUp(w, "resolve_connections") /\ Goto(w, "enqueue_rest")
       \/ ReturnFailure(w)
    /\ UNCHANGED <<proc, document, chunks, crashes>>

(* The enrichment and version-comparison jobs, whose rows are not modelled. *)
EnqueueRest(w) ==
    /\ At(w, "prepare_document", "enqueue_rest")
    /\ Return(w, "ok") \/ ReturnFailure(w)
    /\ UNCHANGED <<proc, document, chunks, crashes>>

-----------------------------------------------------------------------------
(* index_chat and resolve_connections.                                     *)

ArtifactStage(kind) ==
    IF kind = "index_chat" THEN "indexing_chat" ELSE "resolving_references"

BeginArtifact(w, kind) ==
    /\ At(w, kind, "stage")
    /\ \/ ReturnStale(w)
       \/ /\ ~Stale(w)
          /\ SetStage(ArtifactStage(kind))
          /\ ReturnFailure(w) \/ (Goto(w, "build") /\ UNCHANGED qvars)
          /\ UNCHANGED <<document, chunks>>
    /\ UNCHANGED crashes

(* Sections or references are read, then the models are called.            *)
BuildArtifact(w, kind) ==
    /\ At(w, kind, "build")
    /\ \/ ReturnFailure(w)
       \/ /\ task' = [task EXCEPT ![w].pc = "publish", ![w].fresh = TRUE]
          /\ UNCHANGED qvars
    /\ UNCHANGED <<proc, document, chunks, crashes>>

(* publish_capability: the flag, and the stage it leads to.                *)
PublishLast(kind) ==   \* mutant: connections are taken to be the last
    proc' = IF kind = "index_chat"
            THEN [proc EXCEPT !.chat = TRUE, !.stage = "resolving_references"]
            ELSE [proc EXCEPT !.connections = TRUE, !.stage = "ready"]

Publish(kind) ==
    LET other == IF kind = "index_chat" THEN proc.connections ELSE proc.chat
        stage == IF other THEN "ready"
                 ELSE IF proc.stage \in FailedStages THEN proc.stage
                 ELSE IF kind = "index_chat" THEN "resolving_references"
                 ELSE "indexing_chat"
    IN  proc' = IF kind = "index_chat"
                THEN [proc EXCEPT !.chat = TRUE, !.stage = stage]
                ELSE [proc EXCEPT !.connections = TRUE, !.stage = stage]

(* replace_chunks_and_publish, replace_connections_and_publish.  Rows that *)
(* refer to sections or references deleted since they were read violate    *)
(* their foreign key; a paper without connections has no such rows.        *)
PublishArtifact(w, kind) ==
    /\ At(w, kind, "publish")
    /\ \/ ReturnStale(w)
       \/ /\ ~Stale(w)
          /\ ReturnFailure(w) \/ (~task[w].fresh /\ Return(w, "retryable"))
          /\ UNCHANGED <<proc, document, chunks>>
       \/ /\ ~Stale(w)
          /\ task[w].fresh \/ kind = "resolve_connections"
          /\ Publish(kind)
          /\ chunks' = (chunks \/ kind = "index_chat")
          /\ Return(w, "ok")
          /\ UNCHANGED document
    /\ UNCHANGED crashes

-----------------------------------------------------------------------------
(* process_claimed, after execute_job has returned.                        *)

Settling(w, result) == exec[w].phase = "settling" /\ task[w].pc = result

CompleteJob(w) ==
    /\ Settling(w, "ok")
    /\ Complete(w)
    /\ task' = [task EXCEPT ![w] = IdleTask]
    /\ UNCHANGED <<proc, document, chunks, crashes>>

DropStaleWork(w) ==
    /\ Settling(w, "stale")
    /\ DiscardStale(w)
    /\ task' = [task EXCEPT ![w] = IdleTask]
    /\ UNCHANGED <<proc, document, chunks, crashes>>

(* The queue row is settled first; only if the lease was still held is     *)
(* anything to be published to the processing row.                         *)
RecordFailure(w) ==
    LET retryable == task[w].pc = "retryable"
        mark == IF MayRetry(w, retryable) THEN "mark_retry"
                ELSE IF retryable THEN "mark_retryable" ELSE "mark_terminal"
    IN  /\ Settling(w, "retryable") \/ Settling(w, "terminal")
        /\ Fail(w, retryable)
        /\ task' = IF HeldBy(w, task[w].job)
                   THEN [task EXCEPT ![w].pc = mark]
                   ELSE [task EXCEPT ![w] = IdleTask]
        /\ UNCHANGED <<proc, document, chunks, crashes>>

(* retry_stage.                                                            *)
RetryScheduled(kind) == "retry_scheduled"   \* mutant: not in the CHECK
RetryStage(kind) ==
    IF kind = "prepare_document" THEN "queued" ELSE ArtifactStage(kind)

(* mark_retry_scheduled and mark_failure write the stage whatever it is,   *)
(* in the current generation only.                                         *)
PublishFailure(w) ==
    LET stage == CASE task[w].pc = "mark_retry" -> RetryStage(task[w].job.kind)
                   [] task[w].pc = "mark_retryable" -> "failed_retryable"
                   [] task[w].pc = "mark_terminal" -> "failed_terminal"
    IN  /\ task[w].pc \in Marks
        /\ proc' = IF Stale(w) THEN proc ELSE [proc EXCEPT !.stage = stage]
        /\ task' = [task EXCEPT ![w] = IdleTask]
        /\ UNCHANGED <<qvars, document, chunks, crashes>>

-----------------------------------------------------------------------------
(* The claim loop, and what happens around it.                             *)

FirstStep(kind) == IF kind = "prepare_document" THEN "read" ELSE "stage"

(* fail_exhausted_leases also fails the paper, in the same statement.      *)
SweepExhausted(w) ==
    /\ task[w].pc = "loop"
    /\ FailExhaustedLeases(w)
    /\ proc' = IF \E j \in Job : Exhausted(j) /\ j.gen = generation
               THEN [proc EXCEPT !.stage = "failed_retryable"] ELSE proc
    /\ UNCHANGED <<document, chunks, task, crashes>>

ClaimJob(w, j) ==
    /\ Claim(w, j)
    /\ task' = [task EXCEPT ![w] = [pc |-> FirstStep(j.kind), job |-> j,
                                    fresh |-> FALSE]]
    /\ UNCHANGED <<proc, document, chunks, crashes>>

FindNothing(w) == ClaimNothing(w) /\ UNCHANGED pvars

(* The process dies anywhere, between a failure and its publication too.   *)
CrashWorker(w) ==
    /\ crashes < MaxCrashes
    /\ crashes' = crashes + 1
    /\ Crash(w) \/ (task[w].pc \in Marks /\ UNCHANGED qvars)
    /\ task' = [task EXCEPT ![w] = IdleTask]
    /\ UNCHANGED <<proc, document, chunks>>

(* prepare_with_trigger: what a client's request puts in the queue.        *)
WantedKinds ==
    IF ~proc.introduction THEN {"prepare_document"}
    ELSE (IF proc.chat THEN {} ELSE {"index_chat"})
         \cup (IF proc.connections THEN {} ELSE {"resolve_connections"})

NextStage ==
    IF ~proc.introduction THEN "queued"
    ELSE IF ~proc.chat THEN "indexing_chat" ELSE "resolving_references"

PrepareRequest(retry) ==
    /\ ValidForStage(proc)
    /\ \/ proc.stage = "not_requested"
       \/ proc.stage = "failed_retryable" /\ retry
    /\ PrepareJobs(WantedKinds, retry)
    /\ proc' = [proc EXCEPT !.stage = NextStage]
    /\ UNCHANGED <<document, chunks, task, crashes>>

(* upsert_metadata observes a newer version; the trigger resets the row.   *)
ObserveNewVersion ==
    /\ NewArxivVersion
    /\ proc' = NotRequested
    /\ document' = FALSE
    /\ chunks' = FALSE
    /\ UNCHANGED <<task, crashes>>

(* Where leases cannot lapse, the heartbeats of an execution come in time. *)
PassTime ==
    /\ LeasesMayLapse \/ ~\E w \in Workers :
         /\ exec[w].phase \in {"executing", "settling"}
         /\ HeldBy(w, exec[w].job)
    /\ Tick
    /\ UNCHANGED pvars

-----------------------------------------------------------------------------
JobStep(w) ==
    \/ ReadProcessing(w)
    \/ Fetch(w, "license", "fetching_license", "pdf")
    \/ Fetch(w, "pdf", "fetching_pdf", "parsing")
    \/ Fetch(w, "parsing", "parsing_pdf", "persist")
    \/ PersistParsedDocument(w)
    \/ PersistDocument(w)
    \/ EnqueueChat(w) \/ EnqueueRefs(w) \/ EnqueueRest(w)
    \/ \E kind \in {"index_chat", "resolve_connections"} :
          BeginArtifact(w, kind) \/ BuildArtifact(w, kind) \/ PublishArtifact(w, kind)

SettleStep(w) ==
    CompleteJob(w) \/ DropStaleWork(w) \/ RecordFailure(w) \/ PublishFailure(w)

Next ==
    \/ \E retry \in BOOLEAN : PrepareRequest(retry)
    \/ ObserveNewVersion
    \/ PassTime
    \/ \E w \in Workers :
         \/ SweepExhausted(w)
         \/ \E j \in Job : ClaimJob(w, j)
         \/ FindNothing(w)
         \/ JobStep(w)
         \/ SettleStep(w)
         \/ CrashWorker(w)

Spec == Init /\ [][Next]_vars

CurrentJob(kind) == [gen |-> generation, kind |-> kind]

Poll(w) == SweepExhausted(w) \/ FindNothing(w)
Execute(w) == JobStep(w) \/ SettleStep(w)

(* As for the queue: time passes, workers poll and never hang in a step,   *)
(* and a row that is claimable again and again is claimed.                 *)
Fairness ==
    /\ WF_vars(PassTime)
    /\ \A w \in Workers : WF_vars(Poll(w)) /\ WF_vars(Execute(w))
    /\ \A kind \in Core : SF_vars(\E w \in Workers : ClaimJob(w, CurrentJob(kind)))

FairSpec == Spec /\ Fairness

-----------------------------------------------------------------------------
(* Type invariant of the processing row and of the workers' programs.      *)
TypeOK ==
    /\ QTypeOK
    /\ proc \in Processing
    /\ document \in BOOLEAN
    /\ chunks \in BOOLEAN
    /\ task \in [Workers -> Task]
    /\ crashes \in 0..MaxCrashes

(* Every step of the pipeline is a step of the queue or leaves the queue   *)
(* alone: the pipeline uses the jobs table only as the queue allows.       *)
UsesQueue == QSpec

(* The dependency order of the capabilities holds in every state of the    *)
(* row, through replays, crashes and new versions: nothing is published    *)
(* before the introduction, and ready means that everything is.            *)
CapabilityOrder ==
    /\ proc.chat \/ proc.connections => proc.introduction
    /\ proc.stage = "ready" =>
         proc.introduction /\ proc.chat /\ proc.connections

Capability(kind) ==
    CASE kind = "prepare_document" -> proc.introduction
      [] kind = "index_chat" -> proc.chat
      [] kind = "resolve_connections" -> proc.connections

(* A job of the current generation that the queue records as succeeded has *)
(* published its capability: complete is only reached behind the           *)
(* publication, and no later step takes the capability back.               *)
SucceededIsPublished ==
    \A kind \in Core :
      jobs[CurrentJob(kind)].state = "succeeded" => Capability(kind)

(* Once the introduction is published, the work that remains is never lost *)
(* from the jobs table: a capability that is still missing has a job that  *)
(* is queued, running or failed, or the prepare job that will enqueue it   *)
(* has not succeeded either.                                               *)
Open(j) == jobs[j].state \in {"queued", "running", "failed"}

RemainingWorkIsKept ==
    proc.introduction =>
      \A kind \in {"index_chat", "resolve_connections"} :
        ~Capability(kind) =>
          Open(CurrentJob(kind)) \/ Open(CurrentJob("prepare_document"))

(* Within a generation capabilities are only added, and a generation only  *)
(* gives way to the next.                                                  *)
CapabilitiesOnlyGrow ==
    [][/\ generation' \in {generation, generation + 1}
       /\ generation' = generation =>
            \A f \in {"introduction", "chat", "connections"} :
              proc[f] => proc'[f]]_vars

(* A reader of the status sees capabilities published one at a time, each  *)
(* behind what it builds on, and finished only when published, until a     *)
(* newer version starts over; ready is said of a complete paper only.      *)
Promise == INSTANCE Preparation WITH
    Introduction <- "prepare_document",
    Artifacts <- {"index_chat", "resolve_connections"},
    version <- generation,
    published <- {kind \in Core : Capability(kind)},
    finished <- {kind \in Core : jobs[CurrentJob(kind)].state = "succeeded"},
    ready <- proc.stage = "ready"

ImplementsPreparation == Promise!PSpec

(* A worker that still runs a job of a superseded generation changes       *)
(* nothing of what is kept for the current one.                            *)
StaleWorkIsInert ==
    [][\A w \in Workers :
         task[w].pc # "loop" /\ task[w].job.gen # generation
           /\ task'[w].pc # task[w].pc =>
           UNCHANGED <<proc, document, chunks>>]_vars

(* The chat capability never advertises an empty corpus.  Holds while no   *)
(* lease runs out under a live execution.                                  *)
ChatHasCorpus == proc.chat => chunks

(* What the code says of a row (Capabilities::valid_for_stage).            *)
StageMatchesCapabilities == ValidForStage(proc)

(* A paper shown as being processed has a job that will move it on, or a   *)
(* worker about to publish the failure of one.                             *)
RunningStageHasLiveJob ==
    proc.stage \in RunningStages =>
      \/ \E kind \in Core : Live(CurrentJob(kind))
      \/ \E w \in Workers : task[w].pc \in Marks /\ ~Stale(w)

(* A requested paper becomes ready unless a newer version replaces it, for *)
(* which nothing is requested yet, when crashes are fewer than attempts    *)
(* and nothing else fails.                                                 *)
RequestedBecomesReady ==
    proc.stage = "queued" ~> proc.stage \in {"ready", "not_requested"}
=============================================================================
