----------------------------- MODULE LogicalJob -----------------------------
(***************************************************************************)
(* What the background job queue promises to the rest of the backend, free *)
(* of leases, workers and time.  A logical job is one row of the jobs      *)
(* table: one kind of artifact of one generation of one paper.  Module     *)
(* JobQueue implements this specification.                                 *)
(***************************************************************************)
EXTENDS Naturals

CONSTANTS
    Job,          \* logical jobs; each is a record with a field gen
    MaxAttempts   \* budget of attempts of a job, by job

VARIABLES
    status,       \* status of each logical job
    tries,        \* attempts started since the job was last (re)opened
    current       \* generation of the paper that is being processed

avars == <<status, tries, current>>

Status == {"absent", "pending", "succeeded", "failed", "cancelled"}

AInit ==
    /\ status = [j \in Job |-> "absent"]
    /\ tries = [j \in Job |-> 0]
    /\ current = 1

(* Jobs are opened, each at most once, and failed ones are opened again    *)
(* with a fresh budget; nothing else is ever opened again.  A worker that  *)
(* has not noticed a newer version of the paper may still open a job of an *)
(* older generation.                                                       *)
Demand(S) ==
    /\ \A j \in S : status[j] \in {"absent", "failed"} /\ j.gen <= current
    /\ status' = [j \in Job |-> IF j \in S THEN "pending" ELSE status[j]]
    /\ tries' = [j \in Job |-> IF j \in S THEN 0 ELSE tries[j]]
    /\ UNCHANGED current

(* Only work on the current generation starts, and never more often than   *)
(* the budget of the job allows.                                           *)
Start(j) ==
    /\ status[j] = "pending"
    /\ j.gen = current
    /\ tries[j] < MaxAttempts[j]
    /\ tries' = [tries EXCEPT ![j] = @ + 1]
    /\ UNCHANGED <<status, current>>

(* A pending job that was attempted settles once.                          *)
Succeed(j) ==
    /\ status[j] = "pending"
    /\ j.gen = current
    /\ tries[j] > 0
    /\ status' = [status EXCEPT ![j] = "succeeded"]
    /\ UNCHANGED <<tries, current>>

GiveUp(S) ==
    /\ \A j \in S : status[j] = "pending" /\ j.gen = current /\ tries[j] > 0
    /\ status' = [j \in Job |-> IF j \in S THEN "failed" ELSE status[j]]
    /\ UNCHANGED <<tries, current>>

(* A newer version of the paper cancels whatever is pending, for good.     *)
Supersede ==
    /\ current' = current + 1
    /\ status' = [j \in Job |->
                    IF status[j] = "pending" THEN "cancelled" ELSE status[j]]
    /\ UNCHANGED tries

ANext ==
    \/ \E S \in SUBSET Job : Demand(S) \/ GiveUp(S)
    \/ \E j \in Job : Start(j) \/ Succeed(j)
    \/ Supersede

ASpec == AInit /\ [][ANext]_avars
=============================================================================
