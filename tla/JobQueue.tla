------------------------------ MODULE JobQueue ------------------------------
(***************************************************************************)
(* The leased job queue of the paper pipeline (backend/crates/jobs), the   *)
(* loop of the workers that claim from it (backend/apps/worker), and the   *)
(* statements of the paper repository and of the database triggers that    *)
(* write the jobs table.  The rows are those of one paper: rows of         *)
(* different papers share nothing but the order in which they are claimed. *)
(*                                                                         *)
(* A step is one SQL statement or transaction, or one step of a worker     *)
(* between two of them.  Time is counted in ticks of the database clock.   *)
(***************************************************************************)
EXTENDS Naturals

CONSTANTS
    Workers,        \* worker processes, named by their WORKER_ID
    Kinds,          \* job kinds with their identity key
    MaxAttempts,    \* max_attempts of a kind
    MaxGeneration,  \* bound: versions of the paper that are observed
    LeaseTicks,     \* lease_duration
    BackoffTicks,   \* the cap of the retry delay
    Nobody,         \* lease_owner IS NULL
    NoJob           \* a worker that holds no claimed job

ASSUME QueueConstants ==
    /\ MaxAttempts \in [Kinds -> Nat \ {0}]
    /\ MaxGeneration \in Nat \ {0}
    /\ LeaseTicks \in Nat \ {0}
    /\ BackoffTicks \in Nat
    /\ Nobody \notin Workers

Generations == 1..MaxGeneration
Job == [gen: Generations, kind: Kinds]
JobState == {"absent", "queued", "running", "succeeded", "failed", "cancelled"}

ASSUME NoJobIsNotAJob == NoJob \notin Job

VARIABLES
    jobs,        \* the jobs table: a row for every key, "absent" when there is none
    generation,  \* paper_processing.generation
    exec         \* what each worker process is doing with the queue

qvars == <<jobs, generation, exec>>

Row == [state: JobState, attempts: Nat, owner: Workers \cup {Nobody},
        lease: 0..LeaseTicks, due: 0..BackoffTicks]
Exec == [phase: {"idle", "swept", "executing", "settling"},
         job: Job \cup {NoJob}, attempt: Nat, beating: BOOLEAN]

AbsentRow == [state |-> "absent", attempts |-> 0, owner |-> Nobody,
              lease |-> 0, due |-> 0]
IdleExec == [phase |-> "idle", job |-> NoJob, attempt |-> 0, beating |-> FALSE]

QInit ==
    /\ jobs = [j \in Job |-> AbsentRow]
    /\ generation = 1
    /\ exec = [w \in Workers |-> IdleExec]

-----------------------------------------------------------------------------
(* The rows as the statements see them.                                    *)

Live(j) == jobs[j].state \in {"queued", "running"}
LeaseExpired(j) == jobs[j].state = "running" /\ jobs[j].lease = 0
Spent(j) == jobs[j].attempts >= MaxAttempts[j.kind]

NothingExhausted(j) == FALSE   \* mutant: claim without its sweep
Exhausted(j) == LeaseExpired(j) /\ Spent(j)

(* The rows the claim statement selects from.                              *)
QueuedOnly(j) ==   \* mutant: lapsed leases are not taken over
    /\ j.gen = generation
    /\ ~Spent(j)
    /\ jobs[j].state = "queued" /\ jobs[j].due = 0

Claimable(j) ==
    /\ j.gen = generation
    /\ ~Spent(j)
    /\ \/ jobs[j].state = "queued" /\ jobs[j].due = 0
       \/ LeaseExpired(j)

(* state = 'running' AND lease_owner = $2, the fence of complete and fail. *)
HeldByAnyone(w, j) == jobs[j].state = "running"   \* mutant: no owner check
HeldBy(w, j) == jobs[j].state = "running" /\ jobs[j].owner = w

(* A row (re)entering the queue with a fresh budget.                       *)
FreshRow == [AbsentRow EXCEPT !.state = "queued"]

(* A row leaving the running state gives its lease back.                   *)
Settled(row, state) ==
    [row EXCEPT !.state = state, !.owner = Nobody, !.lease = 0]

-----------------------------------------------------------------------------
(* Producers.                                                              *)

(* enqueue_once: insert, or leave the existing row alone.  A worker that   *)
(* runs a job of an older generation enqueues follow-ups of that one.      *)
EnqueueOnce(j) ==
    /\ jobs[j].state = "absent"
    /\ j.gen <= generation
    /\ jobs' = [jobs EXCEPT ![j] = FreshRow]
    /\ UNCHANGED <<generation, exec>>

(* requeue_failed: an explicit retry revives a failed row, and no other.   *)
RequeueFailed(j) ==
    /\ jobs[j].state = "failed"
    /\ j.gen <= generation
    /\ jobs' = [jobs EXCEPT ![j] = FreshRow]
    /\ UNCHANGED <<generation, exec>>

(* The INSERT ... ON CONFLICT of a client's prepare, for the kinds it      *)
(* wants: a missing row is inserted, a failed one is revived on a retry,   *)
(* any other row is left alone.                                            *)
EntersAgain(j, retry) ==   \* mutant: a retry resets a row in any state
    jobs[j].state = "absent" \/ retry

Enters(j, retry) ==
    jobs[j].state = "absent" \/ (retry /\ jobs[j].state = "failed")

PrepareJobs(wanted, retry) ==
    LET S == {j \in Job : j.gen = generation /\ j.kind \in wanted /\ Enters(j, retry)}
    IN  /\ S # {}
        /\ jobs' = [j \in Job |-> IF j \in S THEN FreshRow ELSE jobs[j]]
        /\ UNCHANGED <<generation, exec>>

(* invalidate_new_arxiv_version: a newer arXiv version starts the next     *)
(* generation and cancels every live row in the same transaction.          *)
CancelQueuedOnly ==   \* mutant: running rows survive the new version
    /\ generation < MaxGeneration
    /\ generation' = generation + 1
    /\ jobs' = [j \in Job |-> IF jobs[j].state = "queued"
                             THEN Settled(jobs[j], "cancelled") ELSE jobs[j]]
    /\ UNCHANGED exec

NoNewGeneration ==   \* mutant: the version is replaced, the generation kept
    /\ generation < MaxGeneration
    /\ jobs' = [j \in Job |->
                  IF Live(j) THEN Settled(jobs[j], "cancelled") ELSE jobs[j]]
    /\ UNCHANGED <<generation, exec>>

NewArxivVersion ==
    /\ generation < MaxGeneration
    /\ generation' = generation + 1
    /\ jobs' = [j \in Job |->
                  IF Live(j) THEN Settled(jobs[j], "cancelled") ELSE jobs[j]]
    /\ UNCHANGED exec

-----------------------------------------------------------------------------
(* A worker claims, executes, and settles one job at a time.               *)

(* The first statement of claim: final attempts whose lease ran out fail.  *)
FailExhaustedLeases(w) ==
    /\ exec[w].phase = "idle"
    /\ exec' = [exec EXCEPT ![w].phase = "swept"]
    /\ jobs' = [j \in Job |->
                  IF Exhausted(j) THEN Settled(jobs[j], "failed") ELSE jobs[j]]
    /\ UNCHANGED generation

(* The second statement of claim.  Which of the claimable rows is taken is *)
(* left open: the order of available_at is broken by rows locked by other  *)
(* claims (SKIP LOCKED).                                                   *)
Claim(w, j) ==
    /\ exec[w].phase = "swept"
    /\ Claimable(j)
    /\ jobs' = [jobs EXCEPT ![j].state = "running",
                            ![j].attempts = @ + 1,
                            ![j].owner = w,
                            ![j].lease = LeaseTicks,
                            ![j].due = 0]
    /\ exec' = [exec EXCEPT ![w] = [phase |-> "executing", job |-> j,
                                    attempt |-> jobs[j].attempts + 1,
                                    beating |-> TRUE]]
    /\ UNCHANGED generation

ClaimNothing(w) ==
    /\ exec[w].phase = "swept"
    /\ \A j \in Job : ~Claimable(j)
    /\ exec' = [exec EXCEPT ![w] = IdleExec]
    /\ UNCHANGED <<jobs, generation>>

(* One beat of the heartbeat task.  When the lease is lost the task ends   *)
(* and the execution goes on without it.                                   *)
Heartbeat(w) ==
    LET j == exec[w].job
    IN  /\ exec[w].phase = "executing"
        /\ exec[w].beating
        /\ \/ /\ HeldBy(w, j) /\ ~LeaseExpired(j)
              /\ jobs' = [jobs EXCEPT ![j].lease = LeaseTicks]
              /\ UNCHANGED exec
           \/ /\ ~(HeldBy(w, j) /\ ~LeaseExpired(j))
              /\ exec' = [exec EXCEPT ![w].beating = FALSE]
              /\ UNCHANGED jobs
        /\ UNCHANGED generation

(* execute_job returns: the heartbeat is stopped before the result is      *)
(* recorded.                                                               *)
FinishExecution(w) ==
    /\ exec[w].phase = "executing"
    /\ exec' = [exec EXCEPT ![w].phase = "settling", ![w].beating = FALSE]
    /\ UNCHANGED <<jobs, generation>>

Release(w) == exec' = [exec EXCEPT ![w] = IdleExec]

(* complete, and the warning when the lease is lost.                       *)
Complete(w) ==
    LET j == exec[w].job
    IN  /\ exec[w].phase = "settling"
        /\ jobs' = IF HeldBy(w, j)
                   THEN [jobs EXCEPT ![j] = Settled(jobs[j], "succeeded")]
                   ELSE jobs
        /\ Release(w)
        /\ UNCHANGED generation

(* The retry decision of fail reads the attempt of the claimed job.        *)
MayRetry(w, retryable) ==
    retryable /\ exec[w].attempt < MaxAttempts[exec[w].job.kind]

(* retry_delay: the delay doubles with the attempt, counted from one, up   *)
(* to a cap; up to a fifth of it is added, and the sum is capped again.    *)
Least(a, b) == IF a < b THEN a ELSE b
BaseDelay(attempt) == Least(2 ^ Least(attempt, 9), BackoffTicks)
Jitter(attempt) == 0..(IF BaseDelay(attempt) < 10 THEN 1 ELSE BaseDelay(attempt) \div 5)

UncappedDelay(attempt) ==   \* mutant: the jitter comes on top of the cap
    {BaseDelay(attempt) + j : j \in Jitter(attempt)}
RetryDelay(attempt) ==
    {Least(BaseDelay(attempt) + j, BackoffTicks) : j \in Jitter(attempt)}

Fail(w, retryable) ==
    LET j == exec[w].job
    IN  /\ exec[w].phase = "settling"
        /\ \/ /\ HeldBy(w, j) /\ MayRetry(w, retryable)
              /\ \E d \in RetryDelay(exec[w].attempt) :
                    jobs' = [jobs EXCEPT
                               ![j] = [Settled(jobs[j], "queued") EXCEPT !.due = d]]
           \/ /\ HeldBy(w, j) /\ ~MayRetry(w, retryable)
              /\ jobs' = [jobs EXCEPT ![j] = Settled(jobs[j], "failed")]
           \/ ~HeldBy(w, j) /\ UNCHANGED jobs
        /\ Release(w)
        /\ UNCHANGED generation

(* Work of a superseded generation is dropped without touching the queue.  *)
DiscardStale(w) ==
    /\ exec[w].phase = "settling"
    /\ exec[w].job.gen # generation
    /\ Release(w)
    /\ UNCHANGED <<jobs, generation>>

(* The process dies; a supervisor restarts it under the same WORKER_ID.    *)
Crash(w) ==
    /\ exec[w].phase # "idle"
    /\ Release(w)
    /\ UNCHANGED <<jobs, generation>>

Tick ==
    /\ \E j \in Job : jobs[j].lease > 0 \/ jobs[j].due > 0
    /\ jobs' = [j \in Job |->
                  [jobs[j] EXCEPT !.lease = IF @ > 0 THEN @ - 1 ELSE 0,
                                  !.due = IF @ > 0 THEN @ - 1 ELSE 0]]
    /\ UNCHANGED <<generation, exec>>

Settle(w) ==
    Complete(w) \/ DiscardStale(w) \/ \E r \in BOOLEAN : Fail(w, r)

Producer ==
    \/ \E j \in Job : EnqueueOnce(j) \/ RequeueFailed(j)
    \/ \E wanted \in SUBSET Kinds, retry \in BOOLEAN : PrepareJobs(wanted, retry)
    \/ NewArxivVersion

WorkerStep(w) ==
    \/ FailExhaustedLeases(w)
    \/ \E j \in Job : Claim(w, j)
    \/ ClaimNothing(w)
    \/ Heartbeat(w)
    \/ FinishExecution(w)
    \/ Settle(w)
    \/ Crash(w)

QNext == Producer \/ Tick \/ \E w \in Workers : WorkerStep(w)

QSpec == QInit /\ [][QNext]_qvars

(* Workers poll forever, executions end (every upstream call has a         *)
(* timeout), the clock advances, and a row that is claimable again and     *)
(* again is claimed: claims take the oldest available_at first, and a row  *)
(* keeps its available_at until it is claimed.                             *)
QFairness ==
    /\ WF_qvars(Tick)
    /\ \A w \in Workers :
         /\ WF_qvars(FailExhaustedLeases(w))
         /\ WF_qvars(ClaimNothing(w))
         /\ WF_qvars(FinishExecution(w))
         /\ WF_qvars(Settle(w))
    /\ \A j \in Job : SF_qvars(\E w \in Workers : Claim(w, j))

QFairSpec == QSpec /\ QFairness

-----------------------------------------------------------------------------
(* Type invariant: the shape of the rows and of the workers' state.        *)
QTypeOK ==
    /\ jobs \in [Job -> Row]
    /\ generation \in Generations
    /\ exec \in [Workers -> Exec]

(* A leased row is of the generation being processed, within its budget    *)
(* and owned by a worker; the execution of its owner, if the owner has one *)
(* of this row, is the very attempt the row counts.  complete and fail     *)
(* check only the owner's name; this is why that is enough.                *)
LeaseDiscipline ==
    /\ \A j \in Job : jobs[j].state = "running" =>
         /\ j.gen = generation
         /\ jobs[j].owner \in Workers
         /\ jobs[j].attempts \in 1..MaxAttempts[j.kind]
    /\ \A w \in Workers : exec[w].phase \in {"executing", "settling"} =>
         /\ exec[w].job \in Job
         /\ exec[w].job.gen <= generation
         /\ HeldBy(w, exec[w].job) => exec[w].attempt = jobs[exec[w].job].attempts

(* A running row settles as succeeded only in a step of the worker that    *)
(* holds its lease and has executed the attempt the row counts: a worker   *)
(* that outlived its lease cannot complete the attempt of another.         *)
SettledByHolder ==
    [][\A j \in Job :
         jobs[j].state # "succeeded" /\ jobs'[j].state = "succeeded" =>
           \E w \in Workers :
             /\ exec[w].phase = "settling"
             /\ exec[w].job = j
             /\ exec[w].attempt = jobs[j].attempts
             /\ jobs[j].owner = w]_qvars

(* The queue implements the logical jobs: an outcome is final, only a      *)
(* failed job is reopened, an attempt is started within the budget and for *)
(* the current generation only, and a newer version cancels what is live.  *)
Abstract == INSTANCE LogicalJob WITH
    MaxAttempts <- [j \in Job |-> MaxAttempts[j.kind]],
    status <- [j \in Job |-> IF Live(j) THEN "pending" ELSE jobs[j].state],
    tries <- [j \in Job |-> jobs[j].attempts],
    current <- generation

ImplementsLogicalJobs == Abstract!ASpec

(* Every live row of the generation being processed settles, whatever the  *)
(* workers' crashes and lapsed leases, unless a newer version comes.       *)
EventuallySettled ==
    \A j \in Job :
      Live(j) /\ j.gen = generation ~> ~Live(j) \/ j.gen # generation
=============================================================================
