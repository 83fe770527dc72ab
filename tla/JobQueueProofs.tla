--------------------------- MODULE JobQueueProofs ---------------------------
(***************************************************************************)
(* Proofs about the job queue, for any number of workers, job kinds,       *)
(* attempts and paper versions, and any lease and backoff:                 *)
(*   - its type invariant and LeaseDiscipline, which are inductive together; *)
(*   - SettledByHolder, from that invariant;                               *)
(*   - that it implements the logical jobs of LogicalJob.                  *)
(***************************************************************************)
EXTENDS JobQueue, TLAPS

(* The inductive invariant.                                                *)
QInv == QTypeOK /\ LeaseDiscipline

(* A job names a generation and a kind, and a version number is a number.  *)
LEMMA JobParts ==
  ASSUME NEW j \in Job
  PROVE  j.gen \in Generations /\ j.gen \in Nat /\ j.kind \in Kinds
         /\ MaxAttempts[j.kind] \in Nat \ {0}
BY QueueConstants DEF Job, Generations

(* The clock values that statements write are in range.                    *)
LEMMA Ticks ==
  /\ LeaseTicks \in Nat /\ BackoffTicks \in Nat
  /\ 0 \in 0..LeaseTicks /\ LeaseTicks \in 0..LeaseTicks
  /\ 0 \in 0..BackoffTicks
BY QueueConstants

(* The doublings that retry_delay takes into account.                      *)
LEMMA Doublings ==
  ASSUME NEW n \in 0..9
  PROVE  2 ^ n \in Nat
<1>1. /\ 2^0 \in Nat /\ 2^1 \in Nat /\ 2^2 \in Nat /\ 2^3 \in Nat /\ 2^4 \in Nat
      /\ 2^5 \in Nat /\ 2^6 \in Nat /\ 2^7 \in Nat /\ 2^8 \in Nat /\ 2^9 \in Nat
  OBVIOUS
<1>2. n \in {0, 1, 2, 3, 4, 5, 6, 7, 8, 9}
  OBVIOUS
<1> QED BY <1>1, <1>2, Zenon

(* The cap holds after the jitter, on any attempt.                         *)
LEMMA DelayIsCapped ==
  ASSUME NEW attempt \in Nat
  PROVE  RetryDelay(attempt) \subseteq 0..BackoffTicks
<1>1. Least(attempt, 9) \in 0..9
  BY DEF Least
<1>2. 2 ^ Least(attempt, 9) \in Nat
  BY <1>1, Doublings
<1>3. BaseDelay(attempt) \in Nat
  BY <1>2, QueueConstants DEF BaseDelay, Least
<1>4. Jitter(attempt) \subseteq Nat
  BY <1>3 DEF Jitter
<1> QED BY <1>3, <1>4, QueueConstants DEF RetryDelay, Least

(* The rows that statements write are rows: a fresh one, and one that      *)
(* gives its lease back.                                                   *)
LEMMA WrittenRows ==
  /\ AbsentRow \in Row /\ FreshRow \in Row
  /\ FreshRow.state = "queued" /\ FreshRow.attempts = 0
  /\ \A row \in Row, s \in JobState :
       /\ Settled(row, s) \in Row
       /\ Settled(row, s).state = s
       /\ Settled(row, s).attempts = row.attempts
  /\ IdleExec \in Exec
<1> USE Ticks
<1>1. AbsentRow \in Row /\ FreshRow \in Row
  BY DEF AbsentRow, FreshRow, Row, JobState
<1>2. FreshRow.state = "queued" /\ FreshRow.attempts = 0
  BY DEF AbsentRow, FreshRow
<1>3. ASSUME NEW row \in Row, NEW s \in JobState
      PROVE  /\ Settled(row, s) \in Row
             /\ Settled(row, s).state = s
             /\ Settled(row, s).attempts = row.attempts
  BY DEF Row, Settled
<1>4. IdleExec \in Exec
  BY DEF IdleExec, Exec
<1> QED BY <1>1, <1>2, <1>3, <1>4

(* What the statements that write fields of rows change of each row.       *)
LEMMA TickEffect ==
  ASSUME QTypeOK, Tick, NEW j \in Job
  PROVE  /\ jobs'[j].state = jobs[j].state
         /\ jobs'[j].owner = jobs[j].owner
         /\ jobs'[j].attempts = jobs[j].attempts
<1>1. jobs[j] \in Row
  BY DEF QTypeOK
<1> QED BY <1>1 DEF Tick, Row

LEMMA HeartbeatEffect ==
  ASSUME QTypeOK, NEW w \in Workers, Heartbeat(w), NEW j \in Job
  PROVE  /\ jobs'[j].state = jobs[j].state
         /\ jobs'[j].owner = jobs[j].owner
         /\ jobs'[j].attempts = jobs[j].attempts
<1>1. jobs[j] \in Row
  BY DEF QTypeOK
<1> QED BY <1>1 DEF Heartbeat, QTypeOK, Row

LEMMA ClaimEffect ==
  ASSUME QTypeOK, NEW w \in Workers, NEW j \in Job, Claim(w, j)
  PROVE  /\ jobs'[j].state = "running"
         /\ jobs'[j].attempts = jobs[j].attempts + 1
         /\ jobs'[j].owner = w
         /\ \A k \in Job : k # j => jobs'[k] = jobs[k]
<1>1. jobs[j] \in Row
  BY DEF QTypeOK
<1> QED BY <1>1 DEF Claim, QTypeOK, Row

LEMMA CompleteEffect ==
  ASSUME QTypeOK, NEW w \in Workers, Complete(w), NEW j \in Job
  PROVE  \/ jobs'[j] = jobs[j]
         \/ /\ exec[w].job = j /\ HeldBy(w, j)
            /\ jobs'[j].state = "succeeded"
            /\ jobs'[j].attempts = jobs[j].attempts
<1>1. jobs[j] \in Row
  BY DEF QTypeOK
<1> QED BY <1>1, WrittenRows DEF Complete, QTypeOK, JobState

LEMMA FailEffect ==
  ASSUME QTypeOK, NEW w \in Workers, NEW r \in BOOLEAN, Fail(w, r), NEW j \in Job
  PROVE  \/ jobs'[j] = jobs[j]
         \/ /\ exec[w].job = j /\ HeldBy(w, j)
            /\ jobs'[j].state \in {"queued", "failed"}
            /\ jobs'[j].attempts = jobs[j].attempts
<1> DEFINE k == exec[w].job
<1>1. jobs[j] \in Row
  BY DEF QTypeOK
<1>2. CASE jobs' = jobs
  BY <1>2
<1>3. CASE HeldBy(w, k) /\ jobs' = [jobs EXCEPT ![k] = Settled(jobs[k], "failed")]
  BY <1>1, <1>3, WrittenRows DEF QTypeOK, JobState
<1>4. ASSUME HeldBy(w, k), NEW d \in RetryDelay(exec[w].attempt),
             jobs' = [jobs EXCEPT ![k] = [Settled(jobs[k], "queued") EXCEPT !.due = d]]
      PROVE  \/ jobs'[j] = jobs[j]
             \/ /\ k = j /\ HeldBy(w, j)
                /\ jobs'[j].state \in {"queued", "failed"}
                /\ jobs'[j].attempts = jobs[j].attempts
  <2>1. /\ [Settled(jobs[j], "queued") EXCEPT !.due = d].state = "queued"
        /\ [Settled(jobs[j], "queued") EXCEPT !.due = d].attempts = jobs[j].attempts
    BY <1>1 DEF Settled, Row
  <2> QED BY <1>4, <2>1 DEF QTypeOK
<1> QED BY <1>2, <1>3, <1>4 DEF Fail

(* The initial state satisfies the invariant.                              *)
LEMMA QInitInv == QInit => QInv
BY QueueConstants, WrittenRows
   DEF QInit, QInv, QTypeOK, LeaseDiscipline, Generations, IdleExec, AbsentRow, HeldBy

(* Every step of the queue preserves the types.                            *)
LEMMA QTypeStep == QInv /\ [QNext]_qvars => QTypeOK'
<1> SUFFICES ASSUME QInv, [QNext]_qvars PROVE QTypeOK'
  OBVIOUS
<1> USE DEF QInv, QTypeOK
<1>1. ASSUME NEW j \in Job, EnqueueOnce(j) \/ RequeueFailed(j) PROVE QTypeOK'
  BY <1>1, WrittenRows DEF EnqueueOnce, RequeueFailed
<1>2. ASSUME NEW wanted \in SUBSET Kinds, NEW retry \in BOOLEAN,
             PrepareJobs(wanted, retry)
      PROVE  QTypeOK'
  BY <1>2, WrittenRows DEF PrepareJobs
<1>3. ASSUME NewArxivVersion PROVE QTypeOK'
  BY <1>3, WrittenRows, QueueConstants DEF NewArxivVersion, Generations, JobState
<1>4. ASSUME Tick PROVE QTypeOK'
  <2>1. ASSUME NEW j \in Job
        PROVE [jobs[j] EXCEPT !.lease = IF @ > 0 THEN @ - 1 ELSE 0,
                              !.due = IF @ > 0 THEN @ - 1 ELSE 0] \in Row
    <3> DEFINE l == IF jobs[j].lease > 0 THEN jobs[j].lease - 1 ELSE 0
               d == IF jobs[j].due > 0 THEN jobs[j].due - 1 ELSE 0
    <3>1. jobs[j] \in Row
      OBVIOUS
    <3>2. jobs[j].lease \in 0..LeaseTicks /\ jobs[j].due \in 0..BackoffTicks
      BY <3>1 DEF Row
    <3>3. l \in 0..LeaseTicks /\ d \in 0..BackoffTicks
      BY <3>2, Ticks
    <3> HIDE DEF l, d
    <3>4. [jobs[j] EXCEPT !.lease = l, !.due = d] \in Row
      BY <3>1, <3>3 DEF Row
    <3> QED BY <3>4 DEF l, d
  <2> QED BY <1>4, <2>1 DEF Tick
<1>5. ASSUME NEW w \in Workers, WorkerStep(w) PROVE QTypeOK'
  <2>1. ASSUME FailExhaustedLeases(w) PROVE QTypeOK'
    BY <2>1, WrittenRows DEF FailExhaustedLeases, JobState, Exec
  <2>2. ASSUME NEW j \in Job, Claim(w, j) PROVE QTypeOK'
    <3>1. [jobs[j] EXCEPT !.state = "running", !.attempts = @ + 1, !.owner = w,
                          !.lease = LeaseTicks, !.due = 0] \in Row
      <4>1. jobs[j] \in Row /\ "running" \in JobState /\ w \in Workers \cup {Nobody}
        BY DEF JobState
      <4> DEFINE n == jobs[j].attempts + 1
      <4>2. n \in Nat
        BY <4>1 DEF Row
      <4> HIDE DEF n
      <4>3. [jobs[j] EXCEPT !.state = "running", !.attempts = n, !.owner = w,
                            !.lease = LeaseTicks, !.due = 0] \in Row
        BY <4>1, <4>2, Ticks DEF Row
      <4> QED BY <4>3 DEF n
    <3>2. jobs' \in [Job -> Row]
      BY <2>2, <3>1 DEF Claim
    <3>3. jobs[j].attempts + 1 \in Nat
      BY DEF Row
    <3>4. exec' \in [Workers -> Exec]
      BY <2>2, <3>3 DEF Claim, Exec
    <3> QED BY <2>2, <3>2, <3>4 DEF Claim
  <2>3. ASSUME ClaimNothing(w) PROVE QTypeOK'
    BY <2>3, WrittenRows DEF ClaimNothing
  <2>4. ASSUME Heartbeat(w) PROVE QTypeOK'
    <3> DEFINE j == exec[w].job
    <3>1. CASE j \in Job /\ jobs' = [jobs EXCEPT ![j].lease = LeaseTicks] /\ exec' = exec
      <4>1. [jobs[j] EXCEPT !.lease = LeaseTicks] \in Row
        BY <3>1, Ticks DEF Row
      <4> QED BY <2>4, <3>1, <4>1 DEF Heartbeat
    <3>2. CASE j \notin Job /\ jobs' = [jobs EXCEPT ![j].lease = LeaseTicks] /\ exec' = exec
      BY <2>4, <3>2 DEF Heartbeat
    <3>3. CASE exec' = [exec EXCEPT ![w].beating = FALSE] /\ jobs' = jobs
      <4>1. [exec[w] EXCEPT !.beating = FALSE] \in Exec
        BY DEF Exec
      <4> QED BY <2>4, <3>3, <4>1 DEF Heartbeat
    <3> QED BY <2>4, <3>1, <3>2, <3>3 DEF Heartbeat
  <2>5. ASSUME FinishExecution(w) PROVE QTypeOK'
    <3>1. [exec[w] EXCEPT !.phase = "settling", !.beating = FALSE] \in Exec
      BY DEF Exec
    <3> QED BY <2>5, <3>1 DEF FinishExecution
  <2>6. ASSUME Complete(w) PROVE QTypeOK'
    BY <2>6, WrittenRows DEF Complete, Release, JobState
  <2>7. ASSUME NEW r \in BOOLEAN, Fail(w, r) PROVE QTypeOK'
    <3>1. ASSUME NEW j \in Job, NEW d \in RetryDelay(exec[w].attempt)
          PROVE  [Settled(jobs[j], "queued") EXCEPT !.due = d] \in Row
      <4>1. Settled(jobs[j], "queued") \in Row
        BY WrittenRows DEF JobState
      <4>2. d \in 0..BackoffTicks
        BY DelayIsCapped DEF Exec
      <4> QED BY <4>1, <4>2 DEF Row
    <3> DEFINE j == exec[w].job
    <3>2. jobs' \in [Job -> Row]
      <4>1. CASE jobs' = jobs
        BY <4>1
      <4>2. CASE jobs' = [jobs EXCEPT ![j] = Settled(jobs[j], "failed")]
        BY <4>2, WrittenRows DEF JobState
      <4>3. ASSUME NEW d \in RetryDelay(exec[w].attempt),
                   jobs' = [jobs EXCEPT ![j] = [Settled(jobs[j], "queued") EXCEPT !.due = d]]
            PROVE  jobs' \in [Job -> Row]
        BY <3>1, <4>3
      <4> QED BY <2>7, <4>1, <4>2, <4>3 DEF Fail
    <3> QED BY <2>7, <3>2, WrittenRows DEF Fail, Release
  <2>8. ASSUME DiscardStale(w) \/ Crash(w) PROVE QTypeOK'
    BY <2>8, WrittenRows DEF DiscardStale, Crash, Release
  <2> QED BY <1>5, <2>1, <2>2, <2>3, <2>4, <2>5, <2>6, <2>7, <2>8 DEF WorkerStep, Settle
<1>6. ASSUME UNCHANGED qvars PROVE QTypeOK'
  BY <1>6 DEF qvars
<1> QED BY <1>1, <1>2, <1>3, <1>4, <1>5, <1>6 DEF QNext, Producer

-----------------------------------------------------------------------------
(* The two halves of LeaseDiscipline: what is true of a running row, and   *)
(* what is true of a worker that has claimed one.                          *)
Leased(j) ==
    jobs[j].state = "running" =>
      /\ j.gen = generation
      /\ jobs[j].owner \in Workers
      /\ jobs[j].attempts \in 1..MaxAttempts[j.kind]

Claimed(w) ==
    exec[w].phase \in {"executing", "settling"} =>
      /\ exec[w].job \in Job
      /\ exec[w].job.gen <= generation
      /\ HeldBy(w, exec[w].job) => exec[w].attempt = jobs[exec[w].job].attempts

LEMMA DisciplineParts ==
  LeaseDiscipline <=> (\A j \in Job : Leased(j)) /\ (\A w \in Workers : Claimed(w))
BY DEF LeaseDiscipline, Leased, Claimed

(* A step that leaves the workers alone, and every row either alone or not *)
(* running, preserves the discipline.                                      *)
LEMMA RowsLeaveRunning ==
  ASSUME QInv, UNCHANGED exec, generation' \in Nat, generation <= generation',
         \A j \in Job : \/ jobs'[j].state # "running"
                        \/ jobs'[j] = jobs[j] /\ generation' = generation
  PROVE  LeaseDiscipline'
<1>1. ASSUME NEW j \in Job PROVE Leased(j)'
  BY <1>1 DEF QInv, LeaseDiscipline, Leased
<1>2. ASSUME NEW w \in Workers PROVE Claimed(w)'
  <2>1. CASE exec[w].phase \in {"executing", "settling"}
    <3>1. Claimed(w)
      BY DEF QInv, LeaseDiscipline, Claimed
    <3>2. exec[w].job \in Job /\ exec[w].job.gen <= generation
      BY <2>1, <3>1 DEF Claimed
    <3>3. exec[w].job.gen <= generation'
      BY <3>2, JobParts DEF QInv, QTypeOK, Generations
    <3> QED BY <2>1, <3>1, <3>2, <3>3 DEF Claimed, HeldBy
  <2> QED BY <2>1 DEF Claimed
<1> QED BY <1>1, <1>2 DEF LeaseDiscipline, Leased, Claimed

(* A step of one worker that leaves the rows alone preserves it when the   *)
(* worker lets go, or goes on with the same job and attempt.               *)
LEMMA WorkerMovesOn ==
  ASSUME QInv, NEW w \in Workers, NEW e \in Exec,
         UNCHANGED <<jobs, generation>>, exec' = [exec EXCEPT ![w] = e],
         \/ e.phase \in {"idle", "swept"}
         \/ /\ exec[w].phase \in {"executing", "settling"}
            /\ e.job = exec[w].job /\ e.attempt = exec[w].attempt
  PROVE  LeaseDiscipline'
<1>1. ASSUME NEW v \in Workers PROVE Claimed(v)'
  <2>1. CASE v = w
    BY <2>1 DEF QInv, QTypeOK, LeaseDiscipline, Claimed, HeldBy, Exec
  <2>2. CASE v # w
    BY <2>2 DEF QInv, QTypeOK, LeaseDiscipline, Claimed, HeldBy
  <2> QED BY <2>1, <2>2
<1> QED BY <1>1 DEF QInv, LeaseDiscipline, Claimed

(* A row settles, or goes back to the queue, in a step in which a worker   *)
(* lets go of its job.                                                     *)
LEMMA RowIsSettled ==
  ASSUME QInv, NEW w \in Workers, NEW e \in Exec, e.phase \in {"idle", "swept"},
         UNCHANGED generation, exec' = [exec EXCEPT ![w] = e],
         \A j \in Job : jobs'[j].state # "running" \/ jobs'[j] = jobs[j]
  PROVE  LeaseDiscipline'
<1>1. ASSUME NEW j \in Job PROVE Leased(j)'
  BY <1>1 DEF QInv, LeaseDiscipline, Leased
<1>2. ASSUME NEW v \in Workers PROVE Claimed(v)'
  <2>1. CASE v = w
    BY <2>1 DEF QInv, QTypeOK, Claimed
  <2>2. CASE v # w
    BY <2>2 DEF QInv, QTypeOK, LeaseDiscipline, Claimed, HeldBy
  <2> QED BY <2>1, <2>2
<1> QED BY <1>1, <1>2 DEF LeaseDiscipline, Leased, Claimed

(* Every step of the queue preserves the lease discipline.                 *)
LEMMA QDisciplineStep == QInv /\ [QNext]_qvars => LeaseDiscipline'
<1> SUFFICES ASSUME QInv, [QNext]_qvars PROVE LeaseDiscipline'
  OBVIOUS
<1>g. generation \in Nat /\ generation <= generation
  BY DEF QInv, QTypeOK, Generations
<1>1. ASSUME NEW j \in Job, EnqueueOnce(j) \/ RequeueFailed(j) PROVE LeaseDiscipline'
  BY <1>1, <1>g, RowsLeaveRunning, WrittenRows DEF EnqueueOnce, RequeueFailed, QInv, QTypeOK
<1>2. ASSUME NEW wanted \in SUBSET Kinds, NEW retry \in BOOLEAN,
             PrepareJobs(wanted, retry)
      PROVE  LeaseDiscipline'
  BY <1>2, <1>g, RowsLeaveRunning, WrittenRows DEF PrepareJobs
<1>3. ASSUME NewArxivVersion PROVE LeaseDiscipline'
  <2>1. ASSUME NEW j \in Job PROVE jobs'[j].state # "running"
    BY <1>3, WrittenRows DEF NewArxivVersion, Live, QInv, QTypeOK, JobState
  <2>2. generation' \in Nat /\ generation <= generation'
    BY <1>3, <1>g DEF NewArxivVersion
  <2> QED BY <1>3, <2>1, <2>2, RowsLeaveRunning DEF NewArxivVersion
<1>4. ASSUME Tick PROVE LeaseDiscipline'
  <2>1. ASSUME NEW j \in Job
        PROVE  /\ jobs'[j].state = jobs[j].state
               /\ jobs'[j].owner = jobs[j].owner
               /\ jobs'[j].attempts = jobs[j].attempts
    BY <1>4, TickEffect DEF QInv
  <2>2. UNCHANGED <<generation, exec>>
    BY <1>4 DEF Tick
  <2>3. ASSUME NEW j \in Job PROVE Leased(j)'
    BY <2>1, <2>2 DEF QInv, LeaseDiscipline, Leased
  <2>4. ASSUME NEW w \in Workers PROVE Claimed(w)'
    BY <2>1, <2>2 DEF QInv, LeaseDiscipline, Claimed, HeldBy
  <2> QED BY <2>3, <2>4 DEF LeaseDiscipline, Leased, Claimed
<1>5. ASSUME NEW w \in Workers, WorkerStep(w) PROVE LeaseDiscipline'
  <2>e. exec[w] \in Exec
    BY DEF QInv, QTypeOK
  <2>1. ASSUME FailExhaustedLeases(w) PROVE LeaseDiscipline'
    <3> DEFINE e == [exec[w] EXCEPT !.phase = "swept"]
    <3>1. e \in Exec /\ e.phase \in {"idle", "swept"}
      BY <2>e DEF Exec
    <3>2. exec' = [exec EXCEPT ![w] = e] /\ UNCHANGED generation
      BY <2>1 DEF FailExhaustedLeases
    <3>3. ASSUME NEW j \in Job PROVE jobs'[j].state # "running" \/ jobs'[j] = jobs[j]
      BY <2>1, WrittenRows DEF FailExhaustedLeases, QInv, QTypeOK, JobState
    <3> HIDE DEF e
    <3> QED BY <3>1, <3>2, <3>3, RowIsSettled
  <2>2. ASSUME NEW j \in Job, Claim(w, j) PROVE LeaseDiscipline'
    <3>1. jobs[j].attempts \in Nat
      BY DEF QInv, QTypeOK, Row
    <3>2. /\ jobs'[j].state = "running"
          /\ jobs'[j].attempts = jobs[j].attempts + 1
          /\ jobs'[j].owner = w
          /\ \A k \in Job : k # j => jobs'[k] = jobs[k]
      BY <2>2, ClaimEffect DEF QInv
    <3>3. j.gen = generation /\ jobs[j].attempts + 1 \in 1..MaxAttempts[j.kind]
      BY <2>2, <3>1, JobParts DEF Claim, Claimable, Spent
    <3>4. ASSUME NEW k \in Job PROVE Leased(k)'
      BY <2>2, <3>2, <3>3 DEF Claim, Leased, QInv, LeaseDiscipline
    <3>5. ASSUME NEW v \in Workers PROVE Claimed(v)'
      <4>1. CASE v = w
        <5>1. /\ exec'[w].job = j
              /\ exec'[w].attempt = jobs[j].attempts + 1
          BY <2>2 DEF Claim, QInv, QTypeOK
        <5> QED BY <2>2, <3>2, <3>3, <4>1, <5>1, <1>g DEF Claim, Claimed
      <4>2. CASE v # w
        <5>1. exec'[v] = exec[v]
          BY <2>2, <4>2 DEF Claim, QInv, QTypeOK
        <5>2. CASE exec[v].job = j
          BY <2>2, <3>2, <4>2, <5>1, <5>2
             DEF Claim, Claimed, HeldBy, QInv, LeaseDiscipline
        <5>3. CASE exec[v].job # j
          BY <2>2, <3>2, <5>1, <5>3
             DEF Claim, Claimed, HeldBy, QInv, LeaseDiscipline
        <5> QED BY <5>2, <5>3
      <4> QED BY <4>1, <4>2
    <3> QED BY <3>4, <3>5 DEF LeaseDiscipline, Leased, Claimed
  <2>3. ASSUME ClaimNothing(w) \/ DiscardStale(w) \/ Crash(w) PROVE LeaseDiscipline'
    <3>1. IdleExec.phase = "idle"
      BY DEF IdleExec
    <3> QED BY <2>3, <3>1, WorkerMovesOn, WrittenRows
            DEF ClaimNothing, DiscardStale, Crash, Release
  <2>4. ASSUME Heartbeat(w) PROVE LeaseDiscipline'
    <3>1. CASE exec' = exec
      <4>1. ASSUME NEW k \in Job
            PROVE  /\ jobs'[k].state = jobs[k].state
                   /\ jobs'[k].owner = jobs[k].owner
                   /\ jobs'[k].attempts = jobs[k].attempts
        BY <2>4, HeartbeatEffect DEF QInv
      <4>2. generation' = generation
        BY <2>4 DEF Heartbeat
      <4>3. ASSUME NEW k \in Job PROVE Leased(k)'
        BY <4>1, <4>2 DEF QInv, LeaseDiscipline, Leased
      <4>4. ASSUME NEW v \in Workers PROVE Claimed(v)'
        BY <3>1, <4>1, <4>2 DEF QInv, LeaseDiscipline, Claimed, HeldBy
      <4> QED BY <4>3, <4>4 DEF LeaseDiscipline, Leased, Claimed
    <3>2. CASE exec' = [exec EXCEPT ![w].beating = FALSE] /\ jobs' = jobs
      <4> DEFINE e == [exec[w] EXCEPT !.beating = FALSE]
      <4>1. e \in Exec /\ e.job = exec[w].job /\ e.attempt = exec[w].attempt
        BY <2>e DEF Exec
      <4>2. exec' = [exec EXCEPT ![w] = e]
        BY <3>2
      <4> HIDE DEF e
      <4> QED BY <2>4, <3>2, <4>1, <4>2, WorkerMovesOn DEF Heartbeat
    <3> QED BY <2>4, <3>1, <3>2 DEF Heartbeat
  <2>5. ASSUME FinishExecution(w) PROVE LeaseDiscipline'
    <3> DEFINE e == [exec[w] EXCEPT !.phase = "settling", !.beating = FALSE]
    <3>1. e \in Exec /\ e.job = exec[w].job /\ e.attempt = exec[w].attempt
      BY <2>e DEF Exec
    <3>2. exec' = [exec EXCEPT ![w] = e]
      BY <2>5 DEF FinishExecution
    <3> HIDE DEF e
    <3> QED BY <2>5, <3>1, <3>2, WorkerMovesOn DEF FinishExecution
  <2>6. ASSUME Complete(w) \/ \E r \in BOOLEAN : Fail(w, r) PROVE LeaseDiscipline'
    <3>1. IdleExec \in Exec /\ IdleExec.phase \in {"idle", "swept"}
      BY WrittenRows DEF IdleExec
    <3>2. exec' = [exec EXCEPT ![w] = IdleExec] /\ UNCHANGED generation
      BY <2>6 DEF Complete, Fail, Release
    <3>3. ASSUME NEW j \in Job PROVE jobs'[j].state # "running" \/ jobs'[j] = jobs[j]
      BY <2>6, CompleteEffect, FailEffect DEF QInv
    <3> QED BY <3>1, <3>2, <3>3, RowIsSettled
  <2> QED BY <1>5, <2>1, <2>2, <2>3, <2>4, <2>5, <2>6 DEF WorkerStep, Settle
<1>6. ASSUME UNCHANGED qvars PROVE LeaseDiscipline'
  BY <1>6 DEF qvars, QInv, LeaseDiscipline, HeldBy
<1> QED BY <1>1, <1>2, <1>3, <1>4, <1>5, <1>6 DEF QNext, Producer

-----------------------------------------------------------------------------
(* The invariant holds in every state of the queue.                        *)
THEOREM QueueInvariant == QSpec => []QInv
<1>1. QInit => QInv
  BY QInitInv
<1>2. QInv /\ [QNext]_qvars => QInv'
  BY QTypeStep, QDisciplineStep DEF QInv
<1> QED BY <1>1, <1>2, PTL DEF QSpec

(* The rows and the workers' state keep their shape, whatever the number   *)
(* of workers, kinds and versions.                                         *)
THEOREM QueueTypes == QSpec => []QTypeOK
<1>1. QInv => QTypeOK
  BY DEF QInv
<1> QED BY <1>1, QueueInvariant, PTL

(* Only rows of the current generation are leased, within their budget,    *)
(* and a worker that the queue takes for the holder of a lease is at the   *)
(* attempt the row counts.                                                 *)
THEOREM QueueLeaseDiscipline == QSpec => []LeaseDiscipline
<1>1. QInv => LeaseDiscipline
  BY DEF QInv
<1> QED BY <1>1, QueueInvariant, PTL

(* What SettledByHolder asks of a step.                                    *)
SettledByHolderStep ==
    \A j \in Job :
      jobs[j].state # "succeeded" /\ jobs'[j].state = "succeeded" =>
        \E w \in Workers :
          /\ exec[w].phase = "settling"
          /\ exec[w].job = j
          /\ exec[w].attempt = jobs[j].attempts
          /\ jobs[j].owner = w

(* complete is the only statement that makes a row succeeded, and it does  *)
(* so for the holder of the lease.                                         *)
LEMMA SuccessStep == QInv /\ [QNext]_qvars => SettledByHolderStep
<1> SUFFICES ASSUME QInv, [QNext]_qvars, NEW j \in Job,
                    jobs[j].state # "succeeded", jobs'[j].state = "succeeded"
             PROVE  \E w \in Workers :
                      /\ exec[w].phase = "settling"
                      /\ exec[w].job = j
                      /\ exec[w].attempt = jobs[j].attempts
                      /\ jobs[j].owner = w
  BY DEF SettledByHolderStep
<1>0. jobs[j] \in Row /\ jobs \in [Job -> Row]
  BY DEF QInv, QTypeOK
<1>1. ~Producer
  BY <1>0, WrittenRows
     DEF Producer, EnqueueOnce, RequeueFailed, PrepareJobs, NewArxivVersion, JobState
<1>2. ~Tick
  BY TickEffect DEF QInv
<1>3. ASSUME NEW w \in Workers PROVE ~FailExhaustedLeases(w)
  BY <1>0, WrittenRows DEF FailExhaustedLeases, JobState
<1>4. ASSUME NEW w \in Workers, NEW k \in Job PROVE ~Claim(w, k)
  BY ClaimEffect DEF QInv
<1>5. ASSUME NEW w \in Workers PROVE ~Heartbeat(w)
  BY HeartbeatEffect DEF QInv
<1>6. ASSUME NEW w \in Workers, NEW r \in BOOLEAN PROVE ~Fail(w, r)
  BY FailEffect DEF QInv
<1>7. ASSUME NEW w \in Workers
      PROVE  ~(ClaimNothing(w) \/ FinishExecution(w) \/ DiscardStale(w) \/ Crash(w))
  BY DEF ClaimNothing, FinishExecution, DiscardStale, Crash
<1>8. PICK w \in Workers : Complete(w)
  BY <1>1, <1>2, <1>3, <1>4, <1>5, <1>6, <1>7 DEF QNext, WorkerStep, Settle, qvars
<1>9. exec[w].job = j /\ HeldBy(w, j) /\ exec[w].phase = "settling"
  BY <1>8, CompleteEffect DEF Complete, QInv
<1> QED BY <1>9 DEF HeldBy, QInv, LeaseDiscipline

(* A job is recorded as succeeded only by the worker that holds its lease  *)
(* and has executed the attempt the row counts.                            *)
THEOREM QueueSettledByHolder == QSpec => SettledByHolder
<1>1. QInv /\ [QNext]_qvars => [SettledByHolderStep]_qvars
  BY SuccessStep
<1> QED BY <1>1, QueueInvariant, PTL DEF QSpec, SettledByHolder, SettledByHolderStep

-----------------------------------------------------------------------------
(* The queue implements the logical jobs.  StatusOf is the status that the *)
(* refinement mapping gives to a row.                                      *)
StatusOf(j) == IF Live(j) THEN "pending" ELSE jobs[j].state

(* A step in which no job changes status or is attempted again, and no     *)
(* newer version comes, is a stuttering step of the logical jobs.          *)
LEMMA MapsToStutter ==
  ASSUME generation' = generation,
         \A j \in Job : /\ StatusOf(j)' = StatusOf(j)
                        /\ jobs'[j].attempts = jobs[j].attempts
  PROVE  UNCHANGED Abstract!avars
BY DEF Abstract!avars, StatusOf

(* The initial state maps to an initial state.                             *)
LEMMA MapsInit == QInit => Abstract!AInit
BY DEF QInit, Abstract!AInit, AbsentRow, Live

(* Rows that enter the queue, or enter it again, are jobs in demand.       *)
LEMMA MapsDemand ==
  ASSUME QInv, NEW S \in SUBSET Job, generation' = generation,
         \A j \in S : jobs[j].state \in {"absent", "failed"} /\ j.gen <= generation,
         \A j \in Job : jobs'[j] = IF j \in S THEN FreshRow ELSE jobs[j]
  PROVE  Abstract!Demand(S)
<1>1. \A j \in S : StatusOf(j) \in {"absent", "failed"}
  BY DEF StatusOf, Live
<1>2. \A j \in Job : /\ StatusOf(j)' = IF j \in S THEN "pending" ELSE StatusOf(j)
                     /\ jobs'[j].attempts = IF j \in S THEN 0 ELSE jobs[j].attempts
  BY WrittenRows DEF StatusOf, Live
<1> QED BY <1>1, <1>2 DEF Abstract!Demand, StatusOf

(* Running rows that fail are jobs that are given up.                      *)
LEMMA MapsGiveUp ==
  ASSUME QInv, NEW S \in SUBSET Job, generation' = generation,
         \A j \in S : jobs[j].state = "running" /\ jobs'[j].state = "failed"
                      /\ jobs'[j].attempts = jobs[j].attempts,
         \A j \in Job \ S : jobs'[j] = jobs[j]
  PROVE  Abstract!GiveUp(S)
<1>1. ASSUME NEW j \in S
      PROVE  StatusOf(j) = "pending" /\ j.gen = generation /\ jobs[j].attempts > 0
  <2>1. j.gen = generation /\ jobs[j].attempts \in 1..MaxAttempts[j.kind]
    BY <1>1 DEF QInv, LeaseDiscipline
  <2>2. StatusOf(j) = "pending"
    BY DEF StatusOf, Live
  <2> QED BY <2>1, <2>2, JobParts
<1>2. \A j \in Job : /\ StatusOf(j)' = IF j \in S THEN "failed" ELSE StatusOf(j)
                     /\ jobs'[j].attempts = jobs[j].attempts
  BY DEF StatusOf, Live
<1> QED BY <1>1, <1>2 DEF Abstract!GiveUp, StatusOf

(* Every step of the queue maps to a step of the logical jobs, or to none. *)
LEMMA MapsNext == QInv /\ [QNext]_qvars => [Abstract!ANext]_(Abstract!avars)
<1> SUFFICES ASSUME QInv, [QNext]_qvars
             PROVE  Abstract!ANext \/ UNCHANGED Abstract!avars
  OBVIOUS
<1> USE DEF QInv, QTypeOK
<1>1. ASSUME NEW j \in Job, EnqueueOnce(j) \/ RequeueFailed(j) PROVE Abstract!ANext
  <2>1. Abstract!Demand({j})
    BY <1>1, MapsDemand DEF EnqueueOnce, RequeueFailed
  <2> QED BY <2>1 DEF Abstract!ANext
<1>2. ASSUME NEW wanted \in SUBSET Kinds, NEW retry \in BOOLEAN,
             PrepareJobs(wanted, retry)
      PROVE  Abstract!ANext
  <2>0. PICK S \in SUBSET Job :
          S = {j \in Job : j.gen = generation /\ j.kind \in wanted /\ Enters(j, retry)}
    OBVIOUS
  <2>1. generation' = generation
    BY <1>2 DEF PrepareJobs
  <2>2. \A j \in S : jobs[j].state \in {"absent", "failed"} /\ j.gen <= generation
    BY <2>0 DEF Enters, Generations
  <2>3. \A j \in Job : jobs'[j] = IF j \in S THEN FreshRow ELSE jobs[j]
    BY <1>2, <2>0 DEF PrepareJobs
  <2>4. Abstract!Demand(S)
    BY <2>1, <2>2, <2>3, MapsDemand
  <2> QED BY <2>4 DEF Abstract!ANext
<1>3. ASSUME NewArxivVersion PROVE Abstract!ANext
  <2>1. ASSUME NEW j \in Job
        PROVE  /\ StatusOf(j)' = IF StatusOf(j) = "pending" THEN "cancelled" ELSE StatusOf(j)
               /\ jobs'[j].attempts = jobs[j].attempts
    BY <1>3, WrittenRows DEF NewArxivVersion, StatusOf, Live, Row, JobState
  <2>2. Abstract!Supersede
    BY <1>3, <2>1 DEF NewArxivVersion, Abstract!Supersede, StatusOf
  <2> QED BY <2>2 DEF Abstract!ANext
<1>4. ASSUME Tick PROVE UNCHANGED Abstract!avars
  BY <1>4, TickEffect, MapsToStutter DEF Tick, StatusOf, Live
<1>5. ASSUME NEW w \in Workers, WorkerStep(w)
      PROVE  Abstract!ANext \/ UNCHANGED Abstract!avars
  <2>1. ASSUME FailExhaustedLeases(w) PROVE Abstract!ANext
    <3>0. PICK S \in SUBSET Job : S = {j \in Job : Exhausted(j)}
      OBVIOUS
    <3>1. generation' = generation
      BY <2>1 DEF FailExhaustedLeases
    <3>2. \A j \in S : jobs[j].state = "running" /\ jobs'[j].state = "failed"
                       /\ jobs'[j].attempts = jobs[j].attempts
      BY <2>1, <3>0, WrittenRows DEF FailExhaustedLeases, Exhausted, LeaseExpired, JobState
    <3>3. \A j \in Job \ S : jobs'[j] = jobs[j]
      BY <2>1, <3>0 DEF FailExhaustedLeases
    <3>4. Abstract!GiveUp(S)
      BY <3>1, <3>2, <3>3, MapsGiveUp
    <3> QED BY <3>4 DEF Abstract!ANext
  <2>2. ASSUME NEW j \in Job, Claim(w, j) PROVE Abstract!ANext
    <3>1. /\ jobs'[j].state = "running"
          /\ jobs'[j].attempts = jobs[j].attempts + 1
          /\ \A k \in Job : k # j => jobs'[k] = jobs[k]
      BY <2>2, ClaimEffect
    <3>2. StatusOf(j) = "pending" /\ StatusOf(j)' = "pending"
      BY <2>2, <3>1 DEF Claim, Claimable, LeaseExpired, StatusOf, Live
    <3>3. \A k \in Job : /\ StatusOf(k)' = StatusOf(k)
                         /\ jobs'[k].attempts = IF k = j THEN jobs[j].attempts + 1
                                                 ELSE jobs[k].attempts
      BY <3>1, <3>2 DEF StatusOf, Live
    <3>4. j.gen = generation /\ jobs[j].attempts < MaxAttempts[j.kind]
      <4>1. jobs[j].attempts \in Nat
        BY DEF Row
      <4> QED BY <2>2, <4>1, JobParts DEF Claim, Claimable, Spent
    <3>5. Abstract!Start(j)
      BY <2>2, <3>2, <3>3, <3>4 DEF Abstract!Start, StatusOf, Claim
    <3> QED BY <3>5 DEF Abstract!ANext
  <2>3. ASSUME ClaimNothing(w) \/ FinishExecution(w) \/ DiscardStale(w) \/ Crash(w)
        PROVE  UNCHANGED Abstract!avars
    BY <2>3, MapsToStutter
       DEF ClaimNothing, FinishExecution, DiscardStale, Crash, StatusOf, Live
  <2>4. ASSUME Heartbeat(w) PROVE UNCHANGED Abstract!avars
    BY <2>4, HeartbeatEffect, MapsToStutter DEF Heartbeat, StatusOf, Live
  <2>5. ASSUME Complete(w) PROVE Abstract!ANext \/ UNCHANGED Abstract!avars
    <3>j. PICK j \in Job : j = exec[w].job
      BY <2>5 DEF Complete, LeaseDiscipline
    <3>0. generation' = generation
      BY <2>5 DEF Complete
    <3>1. CASE \A k \in Job : jobs'[k] = jobs[k]
      BY <3>0, <3>1, MapsToStutter DEF StatusOf, Live
    <3>2. CASE /\ HeldBy(w, j) /\ jobs'[j].state = "succeeded"
               /\ jobs'[j].attempts = jobs[j].attempts
               /\ \A k \in Job : k # j => jobs'[k] = jobs[k]
      <4>1. jobs[j].state = "running" /\ j.gen = generation
            /\ jobs[j].attempts \in 1..MaxAttempts[j.kind]
        BY <3>0, <3>2 DEF HeldBy, LeaseDiscipline
      <4>2. StatusOf(j) = "pending" /\ jobs[j].attempts > 0
        BY <3>0, <4>1, JobParts DEF StatusOf, Live
      <4>3. \A k \in Job : /\ StatusOf(k)' = IF k = j THEN "succeeded" ELSE StatusOf(k)
                           /\ jobs'[k].attempts = jobs[k].attempts
        BY <3>2 DEF StatusOf, Live
      <4>4. Abstract!Succeed(j)
        BY <3>0, <4>1, <4>2, <4>3 DEF Abstract!Succeed, StatusOf
      <4> QED BY <4>4 DEF Abstract!ANext
    <3> QED BY <2>5, <3>j, <3>1, <3>2, CompleteEffect
  <2>6. ASSUME NEW r \in BOOLEAN, Fail(w, r)
        PROVE  Abstract!ANext \/ UNCHANGED Abstract!avars
    <3>j. PICK j \in Job : j = exec[w].job
      BY <2>6 DEF Fail, LeaseDiscipline
    <3>0. generation' = generation
      BY <2>6 DEF Fail
    <3>1. \A k \in Job \ {j} : jobs'[k] = jobs[k]
      BY <2>6, <3>j, FailEffect
    <3>2. CASE jobs'[j] = jobs[j]
      BY <3>0, <3>1, <3>2, MapsToStutter DEF StatusOf, Live
    <3>3. CASE HeldBy(w, j) /\ jobs'[j].state = "queued"
               /\ jobs'[j].attempts = jobs[j].attempts
      BY <3>0, <3>1, <3>3, MapsToStutter DEF HeldBy, StatusOf, Live
    <3>4. CASE HeldBy(w, j) /\ jobs'[j].state = "failed"
               /\ jobs'[j].attempts = jobs[j].attempts
      <4>1. Abstract!GiveUp({j})
        BY <3>0, <3>1, <3>4, MapsGiveUp DEF HeldBy
      <4> QED BY <4>1 DEF Abstract!ANext
    <3> QED BY <2>6, <3>2, <3>3, <3>4, FailEffect
  <2> QED BY <1>5, <2>1, <2>2, <2>3, <2>4, <2>5, <2>6 DEF WorkerStep, Settle
<1>6. ASSUME UNCHANGED qvars PROVE UNCHANGED Abstract!avars
  BY <1>6, MapsToStutter DEF qvars, StatusOf, Live
<1> QED BY <1>1, <1>2, <1>3, <1>4, <1>5, <1>6 DEF QNext, Producer

(* The queue implements the logical jobs: whatever the interleaving of     *)
(* claims, lapses, crashes and settlements, an outcome is final unless a   *)
(* failed job is reopened, and attempts stay within the budget and the     *)
(* current generation.                                                     *)
THEOREM QueueImplementsLogicalJobs == QSpec => ImplementsLogicalJobs
BY MapsInit, MapsNext, QueueInvariant, PTL
   DEF QSpec, ImplementsLogicalJobs, Abstract!ASpec
=============================================================================
