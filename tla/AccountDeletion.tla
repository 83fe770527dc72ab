-------------------------- MODULE AccountDeletion --------------------------
(***************************************************************************)
(* The deletion of one account: the transactions of                        *)
(* db/src/repository/account_deletion.rs, the requests and the workers of  *)
(* crates/account_deletion, and the operator's commands of                 *)
(* apps/deletion-worker, over three stores that fail apart: the database,  *)
(* the identity provider, and the external ledger of signed tombstones.    *)
(* Database and provider may be restored from a backup; the ledger may     *)
(* not, and is what a restored database is reconciled with.                *)
(*                                                                         *)
(* A step is one transaction or one call to the provider or the ledger.    *)
(* Only the order of completions and backups is kept of the clock; of a    *)
(* lease, who holds it while it is live; of a retention period, that it    *)
(* outlives every access token and request.                                *)
(***************************************************************************)
EXTENDS Naturals, FiniteSets

CONSTANTS
    Workers,      \* deletion worker processes
    NoWorker,     \* the owner of a row without a lease
    MaxBackups,   \* bound: backups taken
    MaxRestores   \* bound: restores

ASSUME DeletionConstants ==
    /\ NoWorker \notin Workers
    /\ MaxBackups \in Nat
    /\ MaxRestores \in Nat

VARIABLES
    user,       \* users: no row, an active one, or deletion_pending
    ledger,     \* account_deletion_ledger
    job,        \* account_deletion_jobs
    purge,      \* account_deletion_external_purges
    identity,   \* the provider has the identity
    token,      \* an access token of the identity is alive
    external,   \* the signed tombstone in the external ledger
    api,        \* the deletion request that is being served
    accepted,   \* a request has been answered with 202
    exec,       \* what each worker is doing
    phase,      \* normal, restored (isolated), or reconciling (no traffic)
    backups,    \* the backups that can be restored
    now,        \* backups taken so far
    restores    \* restores so far

dbvars == <<user, ledger, job, purge>>
clock == <<phase, backups, now, restores>>
vars == <<user, ledger, job, purge, identity, token, external, api, accepted,
          exec, phase, backups, now, restores>>

Steps == {"requested", "sessions_revoked", "identity_deleted", "app_data_deleted"}
UserStates == {"gone", "active", "deletion_pending"}
Ledger == [there: BOOLEAN, externalized: BOOLEAN, completed: Nat]
Job == [state: Steps \cup {"none", "completed", "failed_retryable", "failed_terminal"},
        retryFrom: Steps \cup {"none"}, owner: Workers \cup {NoWorker},
        coordinates: BOOLEAN, identityDeleted: BOOLEAN, dataDeleted: BOOLEAN]
Purge == {"none", "authorized", "purged"}
Backup == [user: UserStates, ledger: Ledger, job: Job, purge: Purge,
           identity: BOOLEAN, at: Nat]
Exec == [at: {"idle", "claimed", "ensured", "acted"}, step: Steps \cup {"none"},
         coordinates: BOOLEAN]

NoLedger == [there |-> FALSE, externalized |-> FALSE, completed |-> 0]
Row(state, coordinates) ==
    [state |-> state, retryFrom |-> "none", owner |-> NoWorker,
     coordinates |-> coordinates, identityDeleted |-> FALSE, dataDeleted |-> FALSE]
Idle == [at |-> "idle", step |-> "none", coordinates |-> FALSE]

Init ==
    /\ user = "gone" /\ ledger = NoLedger /\ job = Row("none", FALSE)
    /\ purge = "none"
    /\ identity = TRUE /\ token = FALSE
    /\ external = "absent"
    /\ api = "idle" /\ accepted = FALSE
    /\ exec = [w \in Workers |-> Idle]
    /\ phase = "normal" /\ backups = {} /\ now = 0 /\ restores = 0

-----------------------------------------------------------------------------
(* The account's owner.                                                    *)

IssueToken ==
    /\ phase = "normal"
    /\ identity
    /\ token' = TRUE
    /\ UNCHANGED <<dbvars, identity, external, api, accepted, exec, clock>>

TokenExpires ==
    /\ token
    /\ token' = FALSE
    /\ UNCHANGED <<dbvars, identity, external, api, accepted, exec, clock>>

(* provision_oidc_identity_guarded: a first request creates the user row,  *)
(* unless the identity has a tombstone.                                    *)
LedgerIgnored == phase = "normal" /\ token /\ user = "gone"   \* mutant
MayProvision == phase = "normal" /\ token /\ ~ledger.there /\ user = "gone"

ProvisionOidcIdentity ==
    /\ MayProvision
    /\ user' = "active"
    /\ UNCHANGED <<ledger, job, purge, identity, token, external, api, accepted,
                   exec, clock>>

(* request: the obligation is committed to the database, or found there.   *)
Request ==
    /\ phase = "normal" /\ token /\ api = "idle"
    /\ api' = "committed"
    /\ IF ledger.there
         THEN UNCHANGED <<user, ledger, job>>
         ELSE /\ user' = "deletion_pending"
              /\ ledger' = [NoLedger EXCEPT !.there = TRUE]
              /\ job' = Row("requested", TRUE)
    /\ UNCHANGED <<purge, identity, token, external, accepted, exec, clock>>

(* external_record_required: an authorized purge closes externalization.   *)
Required == ledger.there /\ purge = "none"
Published == IF external # "present" /\ Required THEN "present" ELSE external

(* ensure_external_record, and then mark_externalized and the answer.      *)
Externalize ==
    /\ api = "committed"
    /\ external' = Published
    /\ api' = "published"
    /\ UNCHANGED <<dbvars, identity, token, accepted, exec, clock>>

MarkExternalized ==
    /\ api = "published"
    /\ ledger.there
    /\ ledger' = [ledger EXCEPT !.externalized = TRUE]
    /\ accepted' = TRUE
    /\ api' = "idle"
    /\ UNCHANGED <<user, job, purge, identity, token, external, exec, clock>>

(* The request fails or is cut off: the caller gets no 202.                *)
RequestFails ==
    /\ api # "idle"
    /\ api' = "idle"
    /\ UNCHANGED <<dbvars, identity, token, external, accepted, exec, clock>>

-----------------------------------------------------------------------------
(* The workers.                                                            *)

Effective == IF job.state = "failed_retryable" THEN job.retryFrom ELSE job.state
Live == job.state \notin {"none", "completed", "failed_terminal"}
Holds(w) == job.owner = w
Goto(w, place) == exec' = [exec EXCEPT ![w].at = place]
Rest(w) == exec' = [exec EXCEPT ![w] = Idle]

(* claim, once the row is available and its lease has lapsed.              *)
Claim(w) ==
    /\ phase # "restored"
    /\ exec[w].at = "idle"
    /\ Live /\ job.owner = NoWorker
    /\ job' = [job EXCEPT !.owner = w]
    /\ exec' = [exec EXCEPT ![w] = [at |-> "claimed", step |-> Effective,
                                    coordinates |-> job.coordinates]]
    /\ UNCHANGED <<user, ledger, purge, identity, token, external, api, accepted, clock>>

(* ensure_externalized, on every claim: without coordinates a missing      *)
(* record cannot be published.                                             *)
NotEnsured == UNCHANGED external   \* mutant: the record is not published
Ensured == external' = Published

EnsureExternalized(w) ==
    /\ exec[w].at = "claimed"
    /\ Required /\ external # "present" => exec[w].coordinates
    /\ ledger.there
    /\ Ensured
    /\ ledger' = [ledger EXCEPT !.externalized = TRUE]
    /\ Goto(w, "ensured")
    /\ UNCHANGED <<user, job, purge, identity, token, api, accepted, clock>>

(* The provider's administration: an absent identity is a success.         *)
RevokeUserSessions(w) ==
    /\ exec[w].at = "ensured" /\ exec[w].step = "requested" /\ exec[w].coordinates
    /\ Goto(w, "acted")
    /\ UNCHANGED <<dbvars, identity, token, external, api, accepted, clock>>

DeleteIdentity(w) ==
    /\ exec[w].at = "ensured" /\ exec[w].step = "sessions_revoked" /\ exec[w].coordinates
    /\ identity' = FALSE
    /\ Goto(w, "acted")
    /\ UNCHANGED <<dbvars, token, external, api, accepted, clock>>

(* The row after a step: the lease is given back.                          *)
Stepped(state) ==
    [job EXCEPT !.state = state, !.retryFrom = "none", !.owner = NoWorker]

(* Every transaction of a worker insists on its lease and on the step.     *)
AtStep(w) == Holds(w) /\ Effective = exec[w].step

Advance(w) ==
    /\ exec[w].at = "acted"
    /\ AtStep(w)
    /\ \/ /\ exec[w].step = "requested"
          /\ job' = Stepped("sessions_revoked")
       \/ /\ exec[w].step = "sessions_revoked"
          /\ job' = [Stepped("identity_deleted") EXCEPT
                       !.identityDeleted = TRUE, !.coordinates = FALSE]
    /\ Rest(w)
    /\ UNCHANGED <<user, ledger, purge, identity, token, external, api, accepted, clock>>

PurgeAppData(w) ==
    /\ exec[w].at = "ensured" /\ exec[w].step = "identity_deleted"
    /\ AtStep(w)
    /\ user' = "gone"
    /\ job' = [Stepped("app_data_deleted") EXCEPT !.dataDeleted = TRUE]
    /\ Rest(w)
    /\ UNCHANGED <<ledger, purge, identity, token, external, api, accepted, clock>>

Complete(w) ==
    /\ exec[w].at = "ensured" /\ exec[w].step = "app_data_deleted"
    /\ AtStep(w)
    /\ job' = Stepped("completed")
    /\ ledger' = [ledger EXCEPT !.completed = now]
    /\ Rest(w)
    /\ UNCHANGED <<user, purge, identity, token, external, api, accepted, clock>>

(* fail: an unavailable ledger or provider and a timeout are worth a       *)
(* retry, until the attempts are spent; an invalid record and a refusal    *)
(* are not.                                                                *)
Fail(w) ==
    /\ exec[w].at # "idle"
    /\ Holds(w)
    /\ \/ job' = [Stepped("failed_retryable") EXCEPT !.retryFrom = exec[w].step]
       \/ job' = Stepped("failed_terminal")
    /\ Rest(w)
    /\ UNCHANGED <<user, ledger, purge, identity, token, external, api, accepted, clock>>

(* The lease is lost, the database fails, or the process dies.             *)
Abandon(w) ==
    /\ exec[w].at # "idle"
    /\ Rest(w)
    /\ UNCHANGED <<dbvars, identity, token, external, api, accepted, clock>>

LeaseLapses ==
    /\ job.owner # NoWorker
    /\ job' = [job EXCEPT !.owner = NoWorker]
    /\ UNCHANGED <<user, ledger, purge, identity, token, external, api, accepted,
                   exec, clock>>

-----------------------------------------------------------------------------
(* The operator.                                                           *)

(* retry_terminal: from the last checkpoint that is certain.               *)
FromCompleted == IF job.dataDeleted THEN "completed" ELSE "requested"   \* mutant
Checkpoint ==
    IF job.dataDeleted THEN "app_data_deleted"
    ELSE IF job.identityDeleted THEN "identity_deleted" ELSE "requested"

NeverRetried == FALSE   \* mutant: a terminal failure stays
Retriable == job.state = "failed_terminal"

RetryTerminal ==
    /\ phase # "restored"
    /\ Retriable
    /\ job' = [Stepped("failed_retryable") EXCEPT !.retryFrom = Checkpoint]
    /\ UNCHANGED <<user, ledger, purge, identity, token, external, api, accepted,
                   exec, clock>>

(* A backup of the database and of the provider.  The lease of a row in it *)
(* has lapsed by the time it is restored.                                  *)
TakeBackup ==
    /\ now < MaxBackups
    /\ now' = now + 1
    /\ backups' = backups \cup
         {[user |-> user, ledger |-> ledger,
           job |-> [job EXCEPT !.owner = NoWorker], purge |-> purge,
           identity |-> identity, at |-> now + 1]}
    /\ UNCHANGED <<dbvars, identity, token, external, api, accepted, exec, phase, restores>>

BackupExpires ==
    /\ \E b \in backups : backups' = backups \ {b}
    /\ UNCHANGED <<dbvars, identity, token, external, api, accepted, exec, phase,
                   now, restores>>

(* The database, the provider or both are restored, in isolation.          *)
OldDatabase ==
    \E b \in backups :
       user' = b.user /\ ledger' = b.ledger /\ job' = b.job /\ purge' = b.purge
OldProvider == \E b \in backups : identity' = b.identity

Restore ==
    /\ restores < MaxRestores
    /\ restores' = restores + 1
    /\ \/ OldDatabase /\ UNCHANGED identity
       \/ OldProvider /\ UNCHANGED dbvars
       \/ OldDatabase /\ OldProvider
    /\ phase' = "restored"
    /\ api' = "idle"
    /\ exec' = [w \in Workers |-> Idle]
    /\ UNCHANGED <<token, external, accepted, backups, now>>

(* reapply_verified_tombstone, for the record if there is one: everything  *)
(* that is not freshly requested starts over, whatever it had completed.   *)
CompletedStays ==   \* mutant: a completed job of a deleted user is left alone
    \/ job.state \notin {"requested", "completed"}
    \/ user = "active"
Requeued ==
    \/ job.state # "requested"
    \/ ~job.coordinates
    \/ user = "active"

Reapply ==
    /\ phase # "normal"
    /\ phase' = "reconciling"
    /\ IF external = "present"
         THEN /\ purge = "none"
              /\ user' = IF user = "active" THEN "deletion_pending" ELSE user
              /\ ledger' = [there |-> TRUE, externalized |-> TRUE,
                            completed |-> IF Requeued THEN 0 ELSE ledger.completed]
              /\ job' = IF Requeued THEN Row("requested", TRUE) ELSE job
         ELSE UNCHANGED <<user, ledger, job>>
    /\ UNCHANGED <<purge, identity, token, external, api, accepted, exec, backups,
                   now, restores>>

(* Traffic is let in again once the requeued operation has completed.      *)
Approve ==
    /\ phase = "reconciling"
    /\ job.state \in {"none", "completed"}
    /\ phase' = "normal"
    /\ UNCHANGED <<dbvars, identity, token, external, api, accepted, exec, backups,
                   now, restores>>

-----------------------------------------------------------------------------
(* The end of the external record.                                         *)

RetentionElapsed == ~token /\ api = "idle"

(* begin_external_ledger_purge: with evidence that no backup is older than *)
(* the latest completion.                                                  *)
NoEvidence == TRUE   \* mutant: backups are not considered
Evidence == \A b \in backups : b.at > ledger.completed

BeginExternalLedgerPurge ==
    /\ phase = "normal"
    /\ purge = "none" /\ external = "present"
    /\ ledger.there /\ ledger.externalized
    /\ job.state = "completed"
    /\ RetentionElapsed /\ Evidence
    /\ purge' = "authorized"
    /\ UNCHANGED <<user, ledger, job, identity, token, external, api, accepted,
                   exec, clock>>

(* purge-ledger unlinks whatever record an earlier authorization finds.    *)
RemoveVerified ==
    /\ purge # "none" /\ external = "present"
    /\ external' = "unlinked"
    /\ UNCHANGED <<dbvars, identity, token, api, accepted, exec, clock>>

FinishExternalLedgerPurge ==
    /\ purge = "authorized" /\ external # "present"
    /\ purge' = "purged"
    /\ UNCHANGED <<user, ledger, job, identity, token, external, api, accepted,
                   exec, clock>>

(* cleanup_retention: the operation, and later the audit of its purge.     *)
CleanupRetention ==
    /\ purge = "purged"
    /\ \/ /\ ledger.there /\ ledger.externalized /\ job.state = "completed"
          /\ ledger' = NoLedger
          /\ job' = Row("none", FALSE)
          /\ UNCHANGED purge
       \/ /\ ~ledger.there
          /\ purge' = "none"
          /\ UNCHANGED <<ledger, job>>
    /\ UNCHANGED <<user, identity, token, external, api, accepted, exec, clock>>

-----------------------------------------------------------------------------
Owner ==
    \/ IssueToken \/ TokenExpires \/ ProvisionOidcIdentity
    \/ Request \/ Externalize \/ MarkExternalized \/ RequestFails

Worker(w) ==
    \/ Claim(w) \/ EnsureExternalized(w) \/ RevokeUserSessions(w) \/ DeleteIdentity(w)
    \/ Advance(w) \/ PurgeAppData(w) \/ Complete(w) \/ Fail(w) \/ Abandon(w)

Operator ==
    \/ RetryTerminal
    \/ TakeBackup \/ BackupExpires \/ Restore
    \/ Reapply \/ Approve
    \/ BeginExternalLedgerPurge \/ RemoveVerified \/ FinishExternalLedgerPurge
    \/ CleanupRetention

Next ==
    \/ Owner
    \/ \E w \in Workers : Worker(w)
    \/ LeaseLapses
    \/ Operator

Spec == Init /\ [][Next]_vars

(* A worker dies, loses the lease that its heartbeats extend, or fails; or *)
(* the operator repeats a reapplication that has been done.                *)
Trouble ==
    \/ \E w \in Workers : Fail(w) \/ (Holds(w) /\ Abandon(w))
    \/ LeaseLapses /\ \E w \in Workers : Holds(w) /\ exec[w].at # "idle"
    \/ phase = "reconciling" /\ Reapply

(* Any number of troubles, and then an end of them: workers claim what is  *)
(* there and carry it through; the lease of one that is gone lapses; the   *)
(* operator retries terminal failures, resumes a purge and finishes a      *)
(* restore.                                                                *)
Fairness ==
    /\ <>[][~Trouble]_vars
    /\ WF_vars(\E w \in Workers : Claim(w))
    /\ \A w \in Workers :
         /\ WF_vars(\/ EnsureExternalized(w) \/ RevokeUserSessions(w) \/ DeleteIdentity(w)
                    \/ Advance(w) \/ PurgeAppData(w) \/ Complete(w))
         /\ WF_vars(Abandon(w) /\ ~Holds(w))
    /\ WF_vars(LeaseLapses /\ \A w \in Workers : Holds(w) => exec[w].at = "idle")
    /\ WF_vars(RetryTerminal)
    /\ WF_vars(phase = "restored" /\ (Reapply \/ RemoveVerified))

FairSpec == Spec /\ Fairness

-----------------------------------------------------------------------------
(* Type invariant: the rows, the images of them in backups, and the state  *)
(* of the workers.                                                         *)
TypeOK ==
    /\ user \in UserStates /\ ledger \in Ledger /\ job \in Job /\ purge \in Purge
    /\ identity \in BOOLEAN /\ token \in BOOLEAN
    /\ external \in {"absent", "present", "unlinked"}
    /\ api \in {"idle", "committed", "published"}
    /\ accepted \in BOOLEAN
    /\ exec \in [Workers -> Exec]
    /\ phase \in {"normal", "restored", "reconciling"}
    /\ backups \subseteq Backup
    /\ now \in Nat /\ restores \in Nat

Erased == user = "gone" /\ ~identity

(* A job is recorded as completed only when the user's rows and the        *)
(* identity are gone: not with checkpoints from before a restore, of a     *)
(* stale worker, or of a step that failed half-way.                        *)
CompletedIsErased == phase # "restored" /\ job.state = "completed" => Erased

(* Once a request has been answered with 202 the account is never active   *)
(* while traffic is served: not by the sign-in of a token that outlives    *)
(* it, and not from a backup older than the request.                       *)
AcceptedStaysDeleted == accepted /\ phase = "normal" => user # "active"

(* The tombstone is unlinked only when nothing that could come back needs  *)
(* it: no store and no backup of one holds the user or the identity.       *)
PurgedIsUnrecoverable ==
    external = "unlinked" =>
      Erased /\ \A b \in backups : b.user = "gone" /\ ~b.identity

(* The order of the obligations: the identity is deleted only with the     *)
(* tombstone published, the user's data only after the identity; and       *)
(* unless a restore loses the authorization of its purge, an unlinked      *)
(* tombstone is not published again by a late request or a late worker.    *)
ErasureInOrder ==
    [][phase' # "restored" =>
         /\ identity /\ ~identity' => external = "present"
         /\ user # "gone" /\ user' = "gone" => ~identity
         /\ external = "unlinked" /\ restores = 0 => external' = "unlinked"]_vars

(* An accepted deletion is carried out and stays so, whatever crashes,     *)
(* fails, is retried or restored.                                          *)
AcceptedIsErased == [](accepted => <>[]Erased)
=============================================================================
