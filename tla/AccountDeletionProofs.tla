----------------------- MODULE AccountDeletionProofs -----------------------
(***************************************************************************)
(* Proofs about AccountDeletion, for any number of workers, backups and    *)
(* restores.  The invariant says what every image of the database -- the   *)
(* live one and those in the backups -- has in itself, what a live and     *)
(* reconciled database has to do with the provider and the external        *)
(* ledger, and that the final purge starts from, and keeps, a state in     *)
(* which nothing of the account is left anywhere.                          *)
(***************************************************************************)
EXTENDS AccountDeletion, TLAPS

(* One image of the database.                                              *)
EffectiveOf(j) == IF j.state = "failed_retryable" THEN j.retryFrom ELSE j.state

Image(u, l, j) ==
    /\ l.there => u # "active"
    /\ j.state # "none" => l.there
    /\ j.dataDeleted => u = "gone" /\ j.identityDeleted
    /\ j.state \in {"none", "requested"} => ~j.identityDeleted
    /\ EffectiveOf(j) = "identity_deleted" => j.identityDeleted
    /\ EffectiveOf(j) = "app_data_deleted" => j.dataDeleted
    /\ j.state = "completed" => j.dataDeleted

Images ==
    /\ Image(user, ledger, job)
    /\ \A b \in backups : Image(b.user, b.ledger, b.job)

(* Nothing of the account is left, and nobody can bring it back.           *)
Clean ==
    /\ user = "gone" /\ ~identity /\ ~token /\ api = "idle"
    /\ \A b \in backups : b.user = "gone" /\ ~b.identity

PurgeFromClean ==
    (\/ purge # "none" \/ external = "unlinked"
     \/ \E b \in backups : b.purge # "none")
    => Clean /\ external # "absent"

(* A worker that holds the lease is at the step of the row; one that got   *)
(* past the gate has the tombstone published; one that deleted the         *)
(* identity finds it deleted.                                              *)
WorkersInStep ==
    \A w \in Workers :
      /\ phase = "restored" => exec[w].at = "idle"
      /\ exec[w].at # "idle" /\ Holds(w) => exec[w].step = Effective /\ job.state # "none"
      /\ exec[w].at \in {"ensured", "acted"} => external # "absent"
      /\ exec[w].at = "acted" /\ exec[w].step = "sessions_revoked" => ~identity

(* Without a tombstone no image records a deleted identity; a reconciled   *)
(* database records one only when it is.                                   *)
IdentityIsRecorded ==
    /\ external = "absent" =>
         ~job.identityDeleted /\ \A b \in backups : ~b.job.identityDeleted
    /\ phase # "restored" /\ job.identityDeleted => ~identity

(* What a published tombstone and a 202 rest on.                           *)
TombstoneIsKnown ==
    /\ api # "idle" => ledger.there
    /\ api = "published" \/ accepted => external # "absent"
    /\ phase # "restored" /\ external = "present" => ledger.there \/ Clean

(* The backups taken after a completion hold nothing of the account.       *)
BackupsAfterCompletion ==
    /\ \A b \in backups : b.at <= now
    /\ phase # "restored" /\ job.state = "completed" =>
         \A b \in backups : b.at > ledger.completed => b.user = "gone" /\ ~b.identity

(* The authorization of a purge outlives the row that a late request or    *)
(* worker would publish from.                                              *)
PurgeIsClosed ==
    external = "unlinked" /\ restores = 0 /\ ledger.there => purge # "none"

IInv ==
    /\ TypeOK
    /\ Images
    /\ PurgeFromClean
    /\ WorkersInStep
    /\ IdentityIsRecorded
    /\ TombstoneIsKnown
    /\ BackupsAfterCompletion
    /\ PurgeIsClosed

-----------------------------------------------------------------------------
(* Type correctness.                                                       *)

LEMMA RowType ==
    ASSUME NEW state \in Steps \cup {"none"}, NEW c \in BOOLEAN
    PROVE  Row(state, c) \in Job
  BY DEF Row, Job, Steps

LEMMA SteppedType ==
    ASSUME job \in Job,
           NEW state \in Steps \cup {"completed", "failed_retryable", "failed_terminal"}
    PROVE  Stepped(state) \in Job
  BY DEF Stepped, Job, Steps

LEMMA CheckpointType == Checkpoint \in Steps
  BY DEF Checkpoint, Steps

LEMMA RestType ==
    ASSUME NEW w \in Workers, exec \in [Workers -> Exec], Rest(w)
    PROVE  exec' \in [Workers -> Exec]
  BY DEF Rest, Idle, Exec

LEMMA GotoType ==
    ASSUME NEW w \in Workers, exec \in [Workers -> Exec],
           NEW place \in {"ensured", "acted"}, Goto(w, place)
    PROVE  exec' \in [Workers -> Exec]
  BY DEF Goto, Exec

LEMMA TypeInit == Init => TypeOK
  <1> SUFFICES ASSUME Init PROVE TypeOK
    OBVIOUS
  <1>1. job \in Job
    BY RowType DEF Init
  <1>2. exec \in [Workers -> Exec]
    BY DEF Init, Exec, Idle
  <1> QED
    BY <1>1, <1>2 DEF Init, TypeOK, UserStates, Ledger, NoLedger, Purge

LEMMA OwnerTypes == TypeOK /\ Owner => TypeOK'
  <1> SUFFICES ASSUME TypeOK, Owner PROVE TypeOK'
    OBVIOUS
  <1> USE DEF TypeOK, clock, dbvars
  <1>1. CASE IssueToken \/ TokenExpires \/ ProvisionOidcIdentity \/ Externalize \/ RequestFails
    BY <1>1 DEF IssueToken, TokenExpires, ProvisionOidcIdentity, Externalize, RequestFails,
                Published, UserStates
  <1>2. CASE Request
    <2>1. Row("requested", TRUE) \in Job
      BY RowType DEF Steps
    <2>2. [NoLedger EXCEPT !.there = TRUE] \in Ledger
      BY DEF NoLedger, Ledger
    <2> QED
      BY <1>2, <2>1, <2>2 DEF Request, UserStates
  <1>3. CASE MarkExternalized
    BY <1>3 DEF MarkExternalized, Ledger
  <1> QED
    BY <1>1, <1>2, <1>3 DEF Owner

LEMMA WorkerTypes ==
    ASSUME TypeOK, NEW w \in Workers, Worker(w)
    PROVE  TypeOK'
  <1> USE DEF TypeOK, clock, dbvars
  <1>1. CASE Claim(w)
    <2>1. Effective \in Steps \cup {"none"}
      BY <1>1 DEF Claim, Effective, Live, Job
    <2>2. [job EXCEPT !.owner = w] \in Job
      BY DEF Job
    <2>3. [at |-> "claimed", step |-> Effective, coordinates |-> job.coordinates] \in Exec
      BY <2>1 DEF Exec, Job
    <2> QED
      BY <1>1, <2>2, <2>3 DEF Claim
  <1>2. CASE EnsureExternalized(w)
    <2>1. exec' \in [Workers -> Exec]
      BY <1>2, GotoType DEF EnsureExternalized
    <2>2. ledger' \in Ledger
      BY <1>2 DEF EnsureExternalized, Ledger
    <2> QED
      BY <1>2, <2>1, <2>2 DEF EnsureExternalized, Ensured, Published
  <1>3. CASE RevokeUserSessions(w) \/ DeleteIdentity(w)
    <2>1. exec' \in [Workers -> Exec]
      BY <1>3, GotoType DEF RevokeUserSessions, DeleteIdentity
    <2> QED
      BY <1>3, <2>1 DEF RevokeUserSessions, DeleteIdentity
  <1>4. CASE Advance(w)
    <2>1. exec' \in [Workers -> Exec]
      BY <1>4, RestType DEF Advance
    <2>2. Stepped("sessions_revoked") \in Job /\ Stepped("identity_deleted") \in Job
      BY SteppedType DEF Steps
    <2>3. job' \in Job
      BY <1>4, <2>2 DEF Advance, Job
    <2> QED
      BY <1>4, <2>1, <2>3 DEF Advance
  <1>5. CASE PurgeAppData(w)
    <2>1. exec' \in [Workers -> Exec]
      BY <1>5, RestType DEF PurgeAppData
    <2>2. Stepped("app_data_deleted") \in Job
      BY SteppedType DEF Steps
    <2>3. job' \in Job
      BY <1>5, <2>2 DEF PurgeAppData, Job
    <2> QED
      BY <1>5, <2>1, <2>3 DEF PurgeAppData, UserStates
  <1>6. CASE Complete(w)
    <2>1. exec' \in [Workers -> Exec]
      BY <1>6, RestType DEF Complete
    <2>2. job' \in Job
      BY <1>6, SteppedType DEF Complete
    <2>3. ledger' \in Ledger
      BY <1>6 DEF Complete, Ledger
    <2> QED
      BY <1>6, <2>1, <2>2, <2>3 DEF Complete
  <1>7. CASE Fail(w)
    <2>1. exec' \in [Workers -> Exec]
      BY <1>7, RestType DEF Fail
    <2>2. Stepped("failed_retryable") \in Job /\ Stepped("failed_terminal") \in Job
      BY SteppedType
    <2>3. exec[w].step \in Steps \cup {"none"}
      BY DEF Exec
    <2>4. job' \in Job
      BY <1>7, <2>2, <2>3 DEF Fail, Job
    <2> QED
      BY <1>7, <2>1, <2>4 DEF Fail
  <1>8. CASE Abandon(w)
    <2>1. exec' \in [Workers -> Exec]
      BY <1>8, RestType DEF Abandon
    <2> QED
      BY <1>8, <2>1 DEF Abandon
  <1> QED
    BY <1>1, <1>2, <1>3, <1>4, <1>5, <1>6, <1>7, <1>8 DEF Worker

LEMMA OperatorTypes == TypeOK /\ (Operator \/ LeaseLapses) => TypeOK'
  <1> SUFFICES ASSUME TypeOK, Operator \/ LeaseLapses PROVE TypeOK'
    OBVIOUS
  <1> USE DEF TypeOK, clock, dbvars
  <1>1. CASE RetryTerminal
    <2>1. Stepped("failed_retryable") \in Job
      BY SteppedType
    <2>2. job' \in Job
      BY <1>1, <2>1, CheckpointType DEF RetryTerminal, Job
    <2> QED
      BY <1>1, <2>2 DEF RetryTerminal
  <1>2. CASE TakeBackup
    <2>1. [job EXCEPT !.owner = NoWorker] \in Job
      BY DEF Job
    <2>2. [user |-> user, ledger |-> ledger, job |-> [job EXCEPT !.owner = NoWorker],
           purge |-> purge, identity |-> identity, at |-> now + 1] \in Backup
      BY <2>1 DEF Backup
    <2> QED
      BY <1>2, <2>2 DEF TakeBackup
  <1>3. CASE BackupExpires
    BY <1>3 DEF BackupExpires
  <1>4. CASE Restore
    <2>1. exec' \in [Workers -> Exec]
      BY <1>4 DEF Restore, Exec, Idle
    <2>2. ASSUME OldDatabase
          PROVE  user' \in UserStates /\ ledger' \in Ledger /\ job' \in Job
                   /\ purge' \in Purge
      <3>1. PICK b \in backups : user' = b.user /\ ledger' = b.ledger /\ job' = b.job
                                  /\ purge' = b.purge
        BY <2>2 DEF OldDatabase
      <3>2. b \in Backup
        OBVIOUS
      <3> QED
        BY <3>1, <3>2 DEF Backup
    <2>3. OldProvider => identity' \in BOOLEAN
      BY DEF OldProvider, Backup
    <2> QED
      BY <1>4, <2>1, <2>2, <2>3 DEF Restore
  <1>5. CASE Reapply
    <2>1. job' \in Job
      BY <1>5, RowType DEF Reapply, Steps
    <2>2. ledger' \in Ledger
      <3> DEFINE latest == IF Requeued THEN 0 ELSE ledger.completed
      <3>1. latest \in Nat
        BY DEF Ledger
      <3>2. CASE external = "present"
        <4>1. ledger' = [there |-> TRUE, externalized |-> TRUE, completed |-> latest]
          BY <1>5, <3>2 DEF Reapply
        <4> HIDE DEF latest
        <4> QED
          BY <3>1, <4>1 DEF Ledger
      <3>3. CASE external # "present"
        BY <1>5, <3>3 DEF Reapply
      <3> QED
        BY <3>2, <3>3
    <2> QED
      BY <1>5, <2>1, <2>2 DEF Reapply, UserStates
  <1>6. CASE Approve \/ BeginExternalLedgerPurge \/ RemoveVerified \/ FinishExternalLedgerPurge
    BY <1>6 DEF Approve, BeginExternalLedgerPurge, RemoveVerified,
                FinishExternalLedgerPurge, Purge
  <1>7. CASE CleanupRetention
    <2>1. Row("none", FALSE) \in Job /\ NoLedger \in Ledger
      BY RowType DEF Ledger, NoLedger
    <2> QED
      BY <1>7, <2>1 DEF CleanupRetention, Purge
  <1>8. CASE LeaseLapses
    BY <1>8 DEF LeaseLapses, Job
  <1> QED
    BY <1>1, <1>2, <1>3, <1>4, <1>5, <1>6, <1>7, <1>8 DEF Operator

LEMMA TypeNext == TypeOK /\ [Next]_vars => TypeOK'
  <1> SUFFICES ASSUME TypeOK, [Next]_vars PROVE TypeOK'
    OBVIOUS
  <1>1. CASE Next
    BY <1>1, OwnerTypes, WorkerTypes, OperatorTypes DEF Next
  <1>2. CASE UNCHANGED vars
    BY <1>2 DEF TypeOK, vars
  <1> QED
    BY <1>1, <1>2

(* The rows, their images in the backups and what the workers are doing    *)
(* keep their types, for any number of workers, backups and restores.      *)
THEOREM DeletionTypeCorrect == Spec => []TypeOK
  BY TypeInit, TypeNext, PTL DEF Spec

-----------------------------------------------------------------------------
(* The invariant, part by part.                                            *)

LEMMA SteppedFields ==
    ASSUME job \in Job, NEW state
    PROVE  /\ Stepped(state).state = state
           /\ Stepped(state).retryFrom = "none"
           /\ Stepped(state).owner = NoWorker
           /\ Stepped(state).coordinates = job.coordinates
           /\ Stepped(state).identityDeleted = job.identityDeleted
           /\ Stepped(state).dataDeleted = job.dataDeleted
  BY DEF Stepped, Job

LEMMA InitInvariant == Init => IInv
  <1> SUFFICES ASSUME Init PROVE IInv
    OBVIOUS
  <1>1. TypeOK
    BY TypeInit
  <1>2. Images /\ PurgeFromClean /\ PurgeIsClosed
    BY DEF Init, Images, Image, EffectiveOf, Row, NoLedger, PurgeFromClean, PurgeIsClosed
  <1>3. WorkersInStep /\ IdentityIsRecorded
    BY DEF Init, WorkersInStep, IdentityIsRecorded, Idle, Row
  <1>4. TombstoneIsKnown /\ BackupsAfterCompletion
    BY DEF Init, TombstoneIsKnown, BackupsAfterCompletion, Row
  <1> QED
    BY <1>1, <1>2, <1>3, <1>4 DEF IInv

(* What the steps of a worker rely on.                                     *)
LEMMA WorkerFacts ==
    ASSUME IInv, NEW w \in Workers, exec[w].at # "idle"
    PROVE  /\ phase # "restored"
           /\ Holds(w) => exec[w].step = Effective /\ job.state # "none"
           /\ job.identityDeleted => ~identity
  BY DEF IInv, WorkersInStep, IdentityIsRecorded

LEMMA LiveImageOwner ==
    ASSUME IInv, Owner
    PROVE  Image(user', ledger', job')
  <1> USE DEF clock, dbvars
  <1>1. Image(user, ledger, job) /\ ledger \in Ledger
    BY DEF IInv, Images, TypeOK
  <1>2. CASE IssueToken \/ TokenExpires \/ Externalize \/ RequestFails
    BY <1>1, <1>2 DEF IssueToken, TokenExpires, Externalize, RequestFails
  <1>3. CASE ProvisionOidcIdentity
    BY <1>1, <1>3 DEF ProvisionOidcIdentity, MayProvision, Image, EffectiveOf
  <1>4. CASE Request
    <2>1. CASE ledger.there
      BY <1>1, <1>4, <2>1 DEF Request
    <2>2. CASE ~ledger.there
      BY <1>4, <2>2 DEF Request, Image, EffectiveOf, Row, NoLedger
    <2> QED
      BY <2>1, <2>2
  <1>5. CASE MarkExternalized
    BY <1>1, <1>5 DEF MarkExternalized, Image, EffectiveOf, Ledger
  <1> QED
    BY <1>2, <1>3, <1>4, <1>5 DEF Owner

LEMMA LiveImageWorker ==
    ASSUME IInv, NEW w \in Workers, Worker(w)
    PROVE  Image(user', ledger', job')
  <1> USE DEF clock, dbvars
  <1>1. Image(user, ledger, job) /\ ledger \in Ledger /\ job \in Job
    BY DEF IInv, Images, TypeOK
  <1>2. CASE Claim(w)
    BY <1>1, <1>2 DEF Claim, Image, EffectiveOf, Job
  <1>3. CASE EnsureExternalized(w)
    BY <1>1, <1>3 DEF EnsureExternalized, Image, EffectiveOf, Ledger
  <1>4. CASE RevokeUserSessions(w) \/ DeleteIdentity(w) \/ Abandon(w)
    BY <1>1, <1>4 DEF RevokeUserSessions, DeleteIdentity, Abandon
  <1>5. CASE Advance(w)
    <2>1. CASE exec[w].step = "requested" /\ job' = Stepped("sessions_revoked")
      <3>1. Effective = "requested"
        BY <1>5, <2>1 DEF Advance, AtStep
      <3>2. job.state # "none"
        BY <3>1 DEF Effective
      <3> QED
        BY <1>1, <1>5, <2>1, <3>2, SteppedFields DEF Advance, Image, EffectiveOf
    <2>2. CASE /\ exec[w].step = "sessions_revoked"
               /\ job' = [Stepped("identity_deleted") EXCEPT
                            !.identityDeleted = TRUE, !.coordinates = FALSE]
      <3>1. Effective = "sessions_revoked" /\ job.state # "none"
        BY <1>5, <2>2 DEF Advance, AtStep, Effective
      <3>2. Stepped("identity_deleted") \in Job
        BY <1>1, SteppedType DEF Steps
      <3>3. /\ job'.state = "identity_deleted" /\ job'.identityDeleted
            /\ job'.dataDeleted = job.dataDeleted
        BY <1>1, <2>2, <3>2, SteppedFields DEF Job
      <3> QED
        BY <1>1, <1>5, <3>1, <3>3 DEF Advance, Image, EffectiveOf
    <2> QED
      BY <1>5, <2>1, <2>2 DEF Advance
  <1>6. CASE PurgeAppData(w)
    <2>1. Effective = "identity_deleted" /\ job.state # "none" /\ job.identityDeleted
      BY <1>1, <1>6 DEF PurgeAppData, AtStep, Effective, Image, EffectiveOf
    <2>2. Stepped("app_data_deleted") \in Job
      BY <1>1, SteppedType DEF Steps
    <2>3. /\ job'.state = "app_data_deleted" /\ job'.dataDeleted
          /\ job'.identityDeleted = job.identityDeleted
      BY <1>1, <1>6, <2>2, SteppedFields DEF PurgeAppData, Job
    <2> QED
      BY <1>1, <1>6, <2>1, <2>3 DEF PurgeAppData, Image, EffectiveOf
  <1>7. CASE Complete(w)
    <2>1. job.state # "none" /\ job.dataDeleted
      BY <1>1, <1>7 DEF Complete, AtStep, Effective, Image, EffectiveOf
    <2>2. ledger'.there = ledger.there
      BY <1>1, <1>7 DEF Complete, Ledger
    <2> QED
      BY <1>1, <1>7, <2>1, <2>2, SteppedFields DEF Complete, Image, EffectiveOf
  <1>8. CASE Fail(w)
    <2>1. exec[w].step = Effective /\ job.state # "none"
      BY <1>8, WorkerFacts DEF Fail
    <2>2. CASE job' = [Stepped("failed_retryable") EXCEPT !.retryFrom = exec[w].step]
      <3>1. Stepped("failed_retryable") \in Job
        BY <1>1, SteppedType
      <3>2. /\ job'.state = "failed_retryable" /\ job'.retryFrom = Effective
            /\ job'.identityDeleted = job.identityDeleted
            /\ job'.dataDeleted = job.dataDeleted
        BY <1>1, <2>1, <2>2, <3>1, SteppedFields DEF Job
      <3> QED
        BY <1>1, <1>8, <2>1, <3>2 DEF Fail, Image, EffectiveOf, Effective
    <2>3. CASE job' = Stepped("failed_terminal")
      BY <1>1, <1>8, <2>1, <2>3, SteppedFields DEF Fail, Image, EffectiveOf
    <2> QED
      BY <1>8, <2>2, <2>3 DEF Fail
  <1> QED
    BY <1>2, <1>3, <1>4, <1>5, <1>6, <1>7, <1>8 DEF Worker

LEMMA LiveImageOperator ==
    ASSUME IInv, Operator \/ LeaseLapses
    PROVE  Image(user', ledger', job')
  <1> USE DEF clock, dbvars
  <1>1. Image(user, ledger, job) /\ ledger \in Ledger /\ job \in Job
    BY DEF IInv, Images, TypeOK
  <1>2. CASE RetryTerminal
    <2>1. Stepped("failed_retryable") \in Job
      BY <1>1, SteppedType
    <2>2. /\ job'.state = "failed_retryable" /\ job'.retryFrom = Checkpoint
          /\ job'.identityDeleted = job.identityDeleted
          /\ job'.dataDeleted = job.dataDeleted
      BY <1>1, <1>2, <2>1, SteppedFields DEF RetryTerminal, Job
    <2> QED
      BY <1>1, <1>2, <2>2 DEF RetryTerminal, Retriable, Checkpoint, Image, EffectiveOf
  <1>3. CASE \/ TakeBackup \/ BackupExpires \/ Approve \/ BeginExternalLedgerPurge
             \/ RemoveVerified \/ FinishExternalLedgerPurge
    BY <1>1, <1>3 DEF TakeBackup, BackupExpires, Approve, BeginExternalLedgerPurge,
                      RemoveVerified, FinishExternalLedgerPurge
  <1>4. CASE Restore
    BY <1>1, <1>4 DEF Restore, OldDatabase, IInv, Images
  <1>5. CASE Reapply
    <2>1. CASE external # "present"
      BY <1>1, <1>5, <2>1 DEF Reapply
    <2>2. CASE external = "present" /\ Requeued
      BY <1>1, <1>5, <2>2 DEF Reapply, Image, EffectiveOf, Row
    <2>3. CASE external = "present" /\ ~Requeued
      BY <1>1, <1>5, <2>3 DEF Reapply, Requeued, Image, EffectiveOf
    <2> QED
      BY <2>1, <2>2, <2>3
  <1>6. CASE CleanupRetention
    BY <1>1, <1>6 DEF CleanupRetention, Image, EffectiveOf, Row, NoLedger
  <1>7. CASE LeaseLapses
    BY <1>1, <1>7 DEF LeaseLapses, Image, EffectiveOf, Job
  <1> QED
    BY <1>2, <1>3, <1>4, <1>5, <1>6, <1>7 DEF Operator

(* A backup is an older one or an image of the present.                    *)
LEMMA BackupsStep ==
    ASSUME TypeOK, Next, NEW b \in backups', b \notin backups
    PROVE  /\ TakeBackup
           /\ b = [user |-> user, ledger |-> ledger,
                   job |-> [job EXCEPT !.owner = NoWorker], purge |-> purge,
                   identity |-> identity, at |-> now + 1]
  <1> USE DEF clock
  <1>1. CASE Owner
    BY <1>1 DEF Owner, IssueToken, TokenExpires, ProvisionOidcIdentity, Request, Externalize,
                MarkExternalized, RequestFails
  <1>2. ASSUME NEW w \in Workers, Worker(w) PROVE FALSE
    BY <1>2 DEF Worker, Claim, EnsureExternalized, RevokeUserSessions, DeleteIdentity,
                Advance, PurgeAppData, Complete, Fail, Abandon
  <1>3. CASE LeaseLapses
    BY <1>3 DEF LeaseLapses
  <1>4. CASE Operator
    BY <1>4 DEF Operator, RetryTerminal, TakeBackup, BackupExpires, Restore, Reapply, Approve,
                BeginExternalLedgerPurge, RemoveVerified, FinishExternalLedgerPurge,
                CleanupRetention
  <1> QED
    BY <1>1, <1>2, <1>3, <1>4 DEF Next

LEMMA ImagesNext == IInv /\ Next => Images'
  <1> SUFFICES ASSUME IInv, Next PROVE Images'
    OBVIOUS
  <1>1. Image(user', ledger', job')
    BY LiveImageOwner, LiveImageWorker, LiveImageOperator DEF Next
  <1>2. ASSUME NEW b \in backups' PROVE Image(b.user, b.ledger, b.job)
    <2>1. CASE b \in backups
      BY <2>1 DEF IInv, Images
    <2>2. CASE b \notin backups
      <3>1. b.user = user /\ b.ledger = ledger /\ b.job = [job EXCEPT !.owner = NoWorker]
        BY <2>2, BackupsStep DEF IInv
      <3> QED
        BY <3>1 DEF IInv, Images, Image, EffectiveOf, TypeOK, Job
    <2> QED
      BY <2>1, <2>2
  <1> QED
    BY <1>1, <1>2 DEF Images

(* From a clean state only clean states are reached.                       *)
LEMMA CleanStays == TypeOK /\ Clean /\ Next => Clean'
  <1> SUFFICES ASSUME TypeOK, Clean, Next PROVE Clean'
    OBVIOUS
  <1> USE DEF clock, dbvars
  <1>1. \A b \in backups' : b.user = "gone" /\ ~b.identity
    BY BackupsStep DEF Clean
  <1>2. user' = "gone" /\ ~identity' /\ ~token' /\ api' = "idle"
    <2>1. CASE Owner
      BY <2>1 DEF Clean, Owner, IssueToken, TokenExpires, ProvisionOidcIdentity, MayProvision,
                  Request, Externalize, MarkExternalized, RequestFails
    <2>2. ASSUME NEW w \in Workers, Worker(w)
          PROVE  user' = "gone" /\ ~identity' /\ ~token' /\ api' = "idle"
      BY <2>2 DEF Clean, Worker, Claim, EnsureExternalized, RevokeUserSessions,
                  DeleteIdentity, Advance, PurgeAppData, Complete, Fail, Abandon
    <2>3. CASE Restore
      BY <2>3 DEF Clean, Restore, OldDatabase, OldProvider
    <2>4. CASE Reapply
      BY <2>4 DEF Clean, Reapply
    <2>5. CASE RetryTerminal \/ TakeBackup \/ BackupExpires \/ Approve \/ LeaseLapses
      BY <2>5 DEF Clean, RetryTerminal, TakeBackup, BackupExpires, Approve, LeaseLapses
    <2>6. CASE RemoveVerified \/ FinishExternalLedgerPurge
      BY <2>6 DEF Clean, RemoveVerified, FinishExternalLedgerPurge
    <2>7. CASE CleanupRetention
      BY <2>7 DEF Clean, CleanupRetention
    <2>8. CASE BeginExternalLedgerPurge
      BY <2>8 DEF Clean, BeginExternalLedgerPurge
    <2> QED
      BY <2>1, <2>2, <2>3, <2>4, <2>5, <2>6, <2>7, <2>8 DEF Next, Operator
  <1> QED
    BY <1>1, <1>2 DEF Clean

(* What is recorded as completed in a reconciled database is true.         *)
LEMMA CompletedFacts ==
    ASSUME IInv, phase # "restored", job.state = "completed"
    PROVE  user = "gone" /\ ~identity
  BY DEF IInv, Images, Image, IdentityIsRecorded

LEMMA ExternalStep ==
    ASSUME IInv, Next
    PROVE  /\ external # "absent" => external' # "absent"
           /\ external' = "unlinked" => external = "unlinked" \/ purge # "none"
           /\ external' = "present" => external = "present" \/ (Required /\ ledger'.there)
  <1> USE DEF clock, dbvars
  <1>1. CASE Owner
    BY <1>1 DEF Owner, IssueToken, TokenExpires, ProvisionOidcIdentity, Request, Externalize,
                MarkExternalized, RequestFails, Published, Required
  <1>2. ASSUME NEW w \in Workers, Worker(w)
        PROVE  /\ external # "absent" => external' # "absent"
               /\ external' = "unlinked" => external = "unlinked" \/ purge # "none"
               /\ external' = "present" => external = "present" \/ (Required /\ ledger'.there)
    <2>1. CASE EnsureExternalized(w)
      BY <2>1 DEF EnsureExternalized, Ensured, Published, Required, IInv, TypeOK, Ledger
    <2>2. CASE external' = external
      BY <2>2
    <2> QED
      BY <1>2, <2>1, <2>2 DEF Worker, Claim, RevokeUserSessions, DeleteIdentity,
                Advance, PurgeAppData, Complete, Fail, Abandon
  <1>3. CASE LeaseLapses
    BY <1>3 DEF LeaseLapses
  <1>4. CASE Operator
    BY <1>4 DEF Operator, RetryTerminal, TakeBackup, BackupExpires, Restore, Reapply, Approve,
                BeginExternalLedgerPurge, RemoveVerified, FinishExternalLedgerPurge,
                CleanupRetention
  <1> QED
    BY <1>1, <1>2, <1>3, <1>4 DEF Next

(* The row of a purge comes from its authorization or from a backup.       *)
LEMMA PurgeStep ==
    ASSUME Next, purge' # "none"
    PROVE  \/ purge # "none"
           \/ BeginExternalLedgerPurge
           \/ \E b \in backups : b.purge # "none"
  <1> USE DEF clock, dbvars
  <1>1. CASE Owner
    BY <1>1 DEF Owner, IssueToken, TokenExpires, ProvisionOidcIdentity, Request, Externalize,
                MarkExternalized, RequestFails
  <1>2. ASSUME NEW w \in Workers, Worker(w) PROVE purge # "none"
    BY <1>2 DEF Worker, Claim, EnsureExternalized, RevokeUserSessions, DeleteIdentity,
                Advance, PurgeAppData, Complete, Fail, Abandon
  <1>3. CASE LeaseLapses
    BY <1>3 DEF LeaseLapses
  <1>4. CASE Operator
    BY <1>4 DEF Operator, RetryTerminal, TakeBackup, BackupExpires, Restore, OldDatabase,
                Reapply, Approve, BeginExternalLedgerPurge, RemoveVerified,
                FinishExternalLedgerPurge, CleanupRetention
  <1> QED
    BY <1>1, <1>2, <1>3, <1>4 DEF Next

LEMMA PurgeFromCleanNext == IInv /\ Next => PurgeFromClean'
  <1> SUFFICES ASSUME IInv, Next PROVE PurgeFromClean'
    OBVIOUS
  <1>1. CASE \/ purge # "none" \/ external = "unlinked"
             \/ \E b \in backups : b.purge # "none"
    <2>1. Clean /\ external # "absent"
      BY <1>1 DEF IInv, PurgeFromClean
    <2> QED
      BY <2>1, CleanStays, ExternalStep DEF IInv, PurgeFromClean
  <1>2. CASE BeginExternalLedgerPurge
    <2>1. user = "gone" /\ ~identity /\ ~token /\ api = "idle" /\ external = "present"
      BY <1>2, CompletedFacts DEF BeginExternalLedgerPurge, RetentionElapsed
    <2>2. \A b \in backups : b.user = "gone" /\ ~b.identity
      BY <1>2 DEF BeginExternalLedgerPurge, Evidence, IInv, BackupsAfterCompletion
    <2>3. Clean
      BY <2>1, <2>2 DEF Clean
    <2> QED
      BY <2>1, <2>3, CleanStays, ExternalStep DEF IInv, PurgeFromClean
  <1>3. CASE /\ purge = "none" /\ external # "unlinked" /\ ~BeginExternalLedgerPurge
             /\ \A b \in backups : b.purge = "none"
    <2>1. purge' = "none"
      BY <1>3, PurgeStep
    <2>2. external' # "unlinked"
      BY <1>3, ExternalStep
    <2>3. \A b \in backups' : b.purge = "none"
      BY <1>3, BackupsStep DEF IInv
    <2> QED
      BY <2>1, <2>2, <2>3 DEF PurgeFromClean
  <1> QED
    BY <1>1, <1>2, <1>3

(* A step of a worker leaves the others alone, and takes the lease of none *)
(* of them over without a new one of its own.                              *)
LEMMA OtherWorkers ==
    ASSUME IInv, NEW w \in Workers, Worker(w), NEW v \in Workers, v # w
    PROVE  exec'[v] = exec[v] /\ (job'.owner = v => job' = job)
  <1> USE DEF clock, dbvars
  <1>1. job \in Job /\ exec \in [Workers -> Exec] /\ NoWorker # v
    BY DeletionConstants DEF IInv, TypeOK
  <1>2. exec'[v] = exec[v]
    BY <1>1 DEF Worker, Claim, EnsureExternalized, RevokeUserSessions, DeleteIdentity,
                Advance, PurgeAppData, Complete, Fail, Abandon, Rest, Goto
  <1>3. CASE Claim(w)
    BY <1>1, <1>2, <1>3 DEF Claim, Job
  <1>4. CASE EnsureExternalized(w) \/ RevokeUserSessions(w) \/ DeleteIdentity(w) \/ Abandon(w)
    BY <1>2, <1>4 DEF EnsureExternalized, RevokeUserSessions, DeleteIdentity, Abandon
  <1>5. CASE Advance(w) \/ PurgeAppData(w) \/ Complete(w) \/ Fail(w)
    <2>1. \A state \in Steps \cup {"completed", "failed_retryable", "failed_terminal"} :
            Stepped(state) \in Job /\ Stepped(state).owner = NoWorker
      BY <1>1, SteppedType, SteppedFields
    <2>2. CASE Advance(w)
      <3>1. /\ Stepped("sessions_revoked") \in Job /\ Stepped("identity_deleted") \in Job
            /\ Stepped("sessions_revoked").owner = NoWorker
            /\ Stepped("identity_deleted").owner = NoWorker
        BY <2>1 DEF Steps
      <3> QED
        BY <1>1, <1>2, <2>2, <3>1 DEF Advance, Job
    <2>3. CASE PurgeAppData(w)
      <3>1. /\ Stepped("app_data_deleted") \in Job
            /\ Stepped("app_data_deleted").owner = NoWorker
        BY <2>1 DEF Steps
      <3> QED
        BY <1>1, <1>2, <2>3, <3>1 DEF PurgeAppData, Job
    <2>4. CASE Complete(w)
      BY <1>1, <1>2, <2>1, <2>4 DEF Complete
    <2>5. CASE Fail(w)
      <3>1. /\ Stepped("failed_retryable") \in Job
            /\ Stepped("failed_retryable").owner = NoWorker
            /\ Stepped("failed_terminal").owner = NoWorker
        BY <2>1
      <3> QED
        BY <1>1, <1>2, <2>5, <3>1 DEF Fail, Job
    <2> QED
      BY <1>5, <2>2, <2>3, <2>4, <2>5
  <1> QED
    BY <1>3, <1>4, <1>5 DEF Worker

LEMMA WorkersInStepWorker ==
    ASSUME IInv, NEW w \in Workers, Worker(w)
    PROVE  WorkersInStep'
  <1> USE DEF clock, dbvars
  <1>1. job \in Job /\ exec \in [Workers -> Exec]
    BY DEF IInv, TypeOK
  <1>2. phase' = phase /\ (~identity => ~identity')
    BY DEF Worker, Claim, EnsureExternalized, RevokeUserSessions, DeleteIdentity,
           Advance, PurgeAppData, Complete, Fail, Abandon
  <1>3. external # "absent" => external' # "absent"
    BY ExternalStep DEF Next
  <1> SUFFICES ASSUME NEW v \in Workers
               PROVE  /\ phase' = "restored" => exec'[v].at = "idle"
                      /\ exec'[v].at # "idle" /\ job'.owner = v =>
                           exec'[v].step = Effective' /\ job'.state # "none"
                      /\ exec'[v].at \in {"ensured", "acted"} => external' # "absent"
                      /\ exec'[v].at = "acted" /\ exec'[v].step = "sessions_revoked"
                           => ~identity'
    BY DEF WorkersInStep, Holds
  <1>4. /\ phase = "restored" => exec[v].at = "idle"
        /\ exec[v].at # "idle" /\ job.owner = v =>
             exec[v].step = Effective /\ job.state # "none"
        /\ exec[v].at \in {"ensured", "acted"} => external # "absent"
        /\ exec[v].at = "acted" /\ exec[v].step = "sessions_revoked" => ~identity
    BY DEF IInv, WorkersInStep, Holds
  <1>5. CASE v # w
    <2>1. exec'[v] = exec[v] /\ (job'.owner = v => job' = job)
      BY <1>5, OtherWorkers
    <2> QED
      BY <1>2, <1>3, <1>4, <2>1 DEF Effective
  <1>6. CASE v = w
    <2>1. CASE Claim(v)
      <3>1. /\ exec'[v].at = "claimed" /\ exec'[v].step = Effective
            /\ job'.state = job.state /\ job'.retryFrom = job.retryFrom
            /\ job.state # "none" /\ phase # "restored"
        BY <1>1, <2>1 DEF Claim, Live, Job
      <3> QED
        BY <1>2, <3>1 DEF Effective
    <2>2. CASE EnsureExternalized(v)
      <3>1. exec'[v].at = "ensured" /\ exec'[v].step = exec[v].step /\ job' = job
        BY <1>1, <2>2 DEF EnsureExternalized, Goto, Exec
      <3>2. external' # "absent"
        BY <2>2 DEF EnsureExternalized, Ensured, Published, Required, IInv, PurgeFromClean
      <3>3. exec[v].at = "claimed"
        BY <2>2 DEF EnsureExternalized
      <3> QED
        BY <1>2, <1>4, <3>1, <3>2, <3>3 DEF Effective
    <2>3. CASE RevokeUserSessions(v)
      <3>1. /\ exec'[v].at = "acted" /\ exec'[v].step = exec[v].step /\ job' = job
            /\ exec[v].at = "ensured" /\ exec[v].step = "requested"
        BY <1>1, <2>3 DEF RevokeUserSessions, Goto, Exec
      <3> QED
        BY <1>2, <1>3, <1>4, <3>1 DEF Effective
    <2>4. CASE DeleteIdentity(v)
      <3>1. /\ exec'[v].at = "acted" /\ exec'[v].step = exec[v].step /\ job' = job
            /\ exec[v].at = "ensured" /\ ~identity'
        BY <1>1, <2>4 DEF DeleteIdentity, Goto, Exec
      <3> QED
        BY <1>2, <1>3, <1>4, <3>1 DEF Effective
    <2>5. CASE Advance(v) \/ PurgeAppData(v) \/ Complete(v) \/ Fail(v) \/ Abandon(v)
      <3>1. exec'[v].at = "idle"
        BY <1>1, <2>5 DEF Advance, PurgeAppData, Complete, Fail, Abandon, Rest, Idle
      <3> QED
        BY <3>1
    <2> QED
      BY <1>6, <2>1, <2>2, <2>3, <2>4, <2>5 DEF Worker
  <1> QED
    BY <1>5, <1>6

LEMMA WorkersInStepOthers ==
    ASSUME IInv, Owner \/ LeaseLapses \/ Operator
    PROVE  WorkersInStep'
  <1> USE DEF clock, dbvars
  <1>1. job \in Job
    BY DEF IInv, TypeOK
  <1>2. external # "absent" => external' # "absent"
    BY ExternalStep DEF Next
  <1>3. CASE Restore
    BY <1>3 DEF Restore, WorkersInStep, Idle
  <1>4. CASE ~Restore
    <2>1. /\ exec' = exec /\ identity' = identity
          /\ phase' # phase => phase' # "restored"
          /\ \A v \in Workers : job'.owner = v =>
               /\ job.owner = v /\ job'.state = job.state /\ job'.retryFrom = job.retryFrom
      <3>1. CASE Owner
        BY <3>1, DeletionConstants
        DEF Owner, IssueToken, TokenExpires, ProvisionOidcIdentity, Request, Externalize,
            MarkExternalized, RequestFails, Row
      <3>2. CASE LeaseLapses
        BY <1>1, <3>2, DeletionConstants DEF LeaseLapses, Job
      <3>3. CASE RetryTerminal
        <4>1. Stepped("failed_retryable") \in Job
          BY <1>1, SteppedType
        <4>2. job'.owner = NoWorker
          BY <1>1, <3>3, <4>1, SteppedFields DEF RetryTerminal, Job
        <4> QED
          BY <3>3, <4>2, DeletionConstants DEF RetryTerminal
      <3>4. CASE Reapply
        BY <3>4, DeletionConstants DEF Reapply, Row
      <3>5. CASE CleanupRetention
        BY <3>5, DeletionConstants DEF CleanupRetention, Row
      <3>6. CASE TakeBackup \/ BackupExpires \/ Approve
        BY <3>6 DEF TakeBackup, BackupExpires, Approve
      <3>7. CASE BeginExternalLedgerPurge \/ RemoveVerified \/ FinishExternalLedgerPurge
        BY <3>7 DEF BeginExternalLedgerPurge, RemoveVerified, FinishExternalLedgerPurge
      <3> QED
        BY <1>4, <3>1, <3>2, <3>3, <3>4, <3>5, <3>6, <3>7 DEF Operator
    <2> QED
      BY <1>2, <2>1 DEF IInv, WorkersInStep, Holds, Effective
  <1> QED
    BY <1>3, <1>4

-----------------------------------------------------------------------------
(* Who changes what.                                                       *)

LEMMA IdentityStep ==
    ASSUME Next, ~identity
    PROVE  ~identity' \/ (Restore /\ phase' = "restored")
  <1> USE DEF clock, dbvars
  <1>1. CASE Owner
    BY <1>1 DEF Owner, IssueToken, TokenExpires, ProvisionOidcIdentity, Request, Externalize,
                MarkExternalized, RequestFails
  <1>2. ASSUME NEW w \in Workers, Worker(w) PROVE ~identity'
    BY <1>2 DEF Worker, Claim, EnsureExternalized, RevokeUserSessions, DeleteIdentity,
                Advance, PurgeAppData, Complete, Fail, Abandon
  <1>3. CASE LeaseLapses \/ RetryTerminal \/ TakeBackup \/ BackupExpires \/ Restore
    BY <1>3 DEF LeaseLapses, RetryTerminal, TakeBackup, BackupExpires, Restore
  <1>4. CASE Reapply \/ Approve \/ RemoveVerified \/ FinishExternalLedgerPurge
    BY <1>4 DEF Reapply, Approve, RemoveVerified, FinishExternalLedgerPurge
  <1>5. CASE BeginExternalLedgerPurge
    BY <1>5 DEF BeginExternalLedgerPurge
  <1>6. CASE CleanupRetention
    BY <1>6 DEF CleanupRetention
  <1> QED
    BY <1>1, <1>2, <1>3, <1>4, <1>5, <1>6 DEF Next, Operator

(* A restored database is used again once it has been reconciled.          *)
LEMMA PhaseStep ==
    ASSUME Next, phase = "restored", phase' # "restored"
    PROVE  Reapply
  <1> USE DEF clock, dbvars
  <1>1. CASE Owner
    BY <1>1 DEF Owner, IssueToken, TokenExpires, ProvisionOidcIdentity, Request, Externalize,
                MarkExternalized, RequestFails
  <1>2. ASSUME NEW w \in Workers, Worker(w) PROVE FALSE
    BY <1>2 DEF Worker, Claim, EnsureExternalized, RevokeUserSessions, DeleteIdentity,
                Advance, PurgeAppData, Complete, Fail, Abandon
  <1>3. CASE LeaseLapses \/ Operator
    BY <1>3 DEF Operator, LeaseLapses, RetryTerminal, TakeBackup, BackupExpires, Restore,
                Approve, BeginExternalLedgerPurge, RemoveVerified,
                FinishExternalLedgerPurge, CleanupRetention
  <1> QED
    BY <1>1, <1>2, <1>3 DEF Next

(* A restored job that has recorded anything starts over.                  *)
LEMMA ReapplyFacts ==
    ASSUME IInv, Reapply, job'.identityDeleted \/ job'.state = "completed"
    PROVE  external # "present" /\ job' = job /\ ledger' = ledger
  <1> USE DEF dbvars, clock
  <1>1. CASE external # "present"
    BY <1>1 DEF Reapply
  <1>2. CASE external = "present" /\ Requeued
    BY <1>2 DEF Reapply, Row
  <1>3. CASE external = "present" /\ ~Requeued
    BY <1>3 DEF Reapply, Requeued, IInv, Images, Image
  <1> QED
    BY <1>1, <1>2, <1>3

(* A deleted identity is recorded by the worker that deleted it.           *)
LEMMA RecordStep ==
    ASSUME IInv, Next, ~job.identityDeleted, job'.identityDeleted
    PROVE  \/ external # "absent" /\ ~identity /\ identity' = identity
           \/ Restore /\ \E b \in backups : b.job.identityDeleted
  <1> USE DEF clock, dbvars
  <1>1. job \in Job
    BY DEF IInv, TypeOK
  <1>2. \A state : Stepped(state).identityDeleted = job.identityDeleted
    BY <1>1, SteppedFields
  <1>3. CASE Owner
    BY <1>3 DEF Owner, IssueToken, TokenExpires, ProvisionOidcIdentity, Request, Externalize,
                MarkExternalized, RequestFails, Row
  <1>4. ASSUME NEW w \in Workers, Worker(w)
        PROVE  external # "absent" /\ ~identity /\ identity' = identity
    <2>1. CASE Advance(w)
      <3>1. exec[w].at = "acted" /\ exec[w].step = "sessions_revoked"
        BY <1>2, <2>1 DEF Advance
      <3> QED
        BY <2>1, <3>1 DEF Advance, IInv, WorkersInStep
    <2>2. CASE Claim(w)
      BY <1>1, <2>2 DEF Claim, Job
    <2>3. CASE PurgeAppData(w)
      <3>1. Stepped("app_data_deleted") \in Job
        BY <1>1, SteppedType DEF Steps
      <3> QED
        BY <1>2, <2>3, <3>1 DEF PurgeAppData, Job
    <2>4. CASE Fail(w)
      <3>1. Stepped("failed_retryable") \in Job
        BY <1>1, SteppedType
      <3> QED
        BY <1>2, <2>4, <3>1 DEF Fail, Job
    <2>5. CASE Complete(w)
      BY <1>2, <2>5 DEF Complete
    <2> QED
      BY <1>4, <2>1, <2>2, <2>3, <2>4, <2>5
      DEF Worker, EnsureExternalized, RevokeUserSessions, DeleteIdentity, Abandon
  <1>5. CASE RetryTerminal
    <2>1. Stepped("failed_retryable") \in Job
      BY <1>1, SteppedType
    <2> QED
      BY <1>2, <1>5, <2>1 DEF RetryTerminal, Job
  <1>6. CASE Restore
    BY <1>6 DEF Restore, OldDatabase
  <1>7. CASE Reapply
    BY <1>7, ReapplyFacts
  <1>8. CASE LeaseLapses
    BY <1>1, <1>8 DEF LeaseLapses, Job
  <1>9. CASE \/ TakeBackup \/ BackupExpires \/ Approve \/ BeginExternalLedgerPurge
             \/ RemoveVerified \/ FinishExternalLedgerPurge \/ CleanupRetention
    BY <1>9 DEF TakeBackup, BackupExpires, Approve, BeginExternalLedgerPurge,
                RemoveVerified, FinishExternalLedgerPurge, CleanupRetention, Row
  <1> QED
    BY <1>3, <1>4, <1>5, <1>6, <1>7, <1>8, <1>9 DEF Next, Operator

LEMMA IdentityIsRecordedNext == IInv /\ Next => IdentityIsRecorded'
  <1> SUFFICES ASSUME IInv, Next PROVE IdentityIsRecorded'
    OBVIOUS
  <1>1. ASSUME external' = "absent"
        PROVE  ~job'.identityDeleted /\ \A b \in backups' : ~b.job.identityDeleted
    <2>1. /\ external = "absent" /\ ~job.identityDeleted
          /\ \A b \in backups : ~b.job.identityDeleted
      BY <1>1, ExternalStep DEF IInv, IdentityIsRecorded
    <2>2. \A b \in backups' : ~b.job.identityDeleted
      BY <2>1, BackupsStep DEF IInv, TypeOK, Job
    <2> QED
      BY <2>1, <2>2, RecordStep
  <1>2. ASSUME phase' # "restored", job'.identityDeleted
        PROVE  ~identity'
    <2>1. CASE ~job.identityDeleted
      BY <1>2, <2>1, RecordStep DEF Restore
    <2>2. CASE job.identityDeleted /\ phase # "restored"
      BY <1>2, <2>2, IdentityStep DEF IInv, IdentityIsRecorded
    <2>3. CASE job.identityDeleted /\ phase = "restored"
      <3>1. Reapply
        BY <1>2, <2>3, PhaseStep
      <3>2. external # "present"
        BY <1>2, <3>1, ReapplyFacts
      <3>3. external # "absent"
        BY <2>3 DEF IInv, IdentityIsRecorded
      <3>4. Clean
        BY <3>2, <3>3 DEF IInv, TypeOK, PurgeFromClean
      <3> QED
        BY <3>4, CleanStays DEF IInv, Clean
    <2> QED
      BY <2>1, <2>2, <2>3
  <1> QED
    BY <1>1, <1>2 DEF IdentityIsRecorded

LEMMA ReapplyLedger ==
    ASSUME Reapply
    PROVE  IF external = "present" THEN ledger'.there ELSE ledger' = ledger
  <1> DEFINE latest == IF Requeued THEN 0 ELSE ledger.completed
  <1>1. CASE external = "present"
    <2>1. ledger' = [there |-> TRUE, externalized |-> TRUE, completed |-> latest]
      BY <1>1 DEF Reapply
    <2> HIDE DEF latest
    <2> QED
      BY <1>1, <2>1
  <1>2. CASE external # "present"
    BY <1>2 DEF Reapply
  <1> QED
    BY <1>1, <1>2

(* The tombstone in the database goes with a restore or the final cleanup. *)
LEMMA LedgerStep ==
    ASSUME IInv, Next
    PROVE  /\ ledger.there => ledger'.there \/ Clean \/ Restore
           /\ ledger'.there => \/ ledger.there \/ Request \/ Restore
                               \/ Reapply /\ external = "present"
  <1> USE DEF clock, dbvars
  <1>1. ledger \in Ledger
    BY DEF IInv, TypeOK
  <1>2. CASE Owner
    BY <1>1, <1>2 DEF Owner, IssueToken, TokenExpires, ProvisionOidcIdentity, Request,
                      Externalize, MarkExternalized, RequestFails, Ledger
  <1>3. ASSUME NEW w \in Workers, Worker(w)
        PROVE  ledger'.there = ledger.there
    BY <1>1, <1>3 DEF Worker, Claim, EnsureExternalized, RevokeUserSessions, DeleteIdentity,
                      Advance, PurgeAppData, Complete, Fail, Abandon, Ledger
  <1>4. CASE Restore
    BY <1>4
  <1>5. CASE Reapply
    BY <1>5, ReapplyLedger
  <1>6. CASE CleanupRetention
    BY <1>6 DEF CleanupRetention, NoLedger, IInv, PurgeFromClean
  <1>7. CASE \/ LeaseLapses \/ RetryTerminal \/ TakeBackup \/ BackupExpires \/ Approve
             \/ BeginExternalLedgerPurge \/ RemoveVerified \/ FinishExternalLedgerPurge
    BY <1>7 DEF LeaseLapses, RetryTerminal, TakeBackup, BackupExpires, Approve,
                BeginExternalLedgerPurge, RemoveVerified, FinishExternalLedgerPurge
  <1> QED
    BY <1>2, <1>3, <1>4, <1>5, <1>6, <1>7 DEF Next, Operator

(* A request proceeds from its commit to the tombstone to the answer.      *)
LEMMA RequestStep ==
    ASSUME IInv, Next
    PROVE  /\ api' # "idle" => ledger'.there
           /\ api' = "published" => api = "published" \/ external' # "absent"
           /\ accepted' => accepted \/ api = "published"
  <1> USE DEF clock, dbvars
  <1>1. ledger \in Ledger /\ (api # "idle" => ledger.there)
    BY DEF IInv, TypeOK, TombstoneIsKnown
  <1>2. CASE Request
    BY <1>1, <1>2 DEF Request, NoLedger
  <1>3. CASE Externalize
    BY <1>1, <1>3 DEF Externalize, Published, Required, IInv, PurgeFromClean
  <1>4. CASE MarkExternalized
    BY <1>1, <1>4 DEF MarkExternalized
  <1>5. CASE IssueToken \/ TokenExpires \/ ProvisionOidcIdentity \/ RequestFails
    BY <1>1, <1>5 DEF IssueToken, TokenExpires, ProvisionOidcIdentity, RequestFails
  <1>6. ASSUME NEW w \in Workers, Worker(w)
        PROVE  api' = api /\ accepted' = accepted /\ ledger'.there = ledger.there
    BY <1>1, <1>6 DEF Worker, Claim, EnsureExternalized, RevokeUserSessions, DeleteIdentity,
                      Advance, PurgeAppData, Complete, Fail, Abandon, Ledger
  <1>7. CASE Restore
    BY <1>7 DEF Restore
  <1>8. CASE Reapply
    BY <1>1, <1>8, ReapplyLedger DEF Reapply
  <1>9. CASE CleanupRetention
    BY <1>9 DEF CleanupRetention, IInv, PurgeFromClean, Clean
  <1>10. CASE \/ LeaseLapses \/ RetryTerminal \/ TakeBackup \/ BackupExpires \/ Approve
              \/ BeginExternalLedgerPurge \/ RemoveVerified \/ FinishExternalLedgerPurge
    BY <1>1, <1>10 DEF LeaseLapses, RetryTerminal, TakeBackup, BackupExpires, Approve,
                BeginExternalLedgerPurge, RemoveVerified, FinishExternalLedgerPurge
  <1> QED
    BY <1>1, <1>2, <1>3, <1>4, <1>5, <1>6, <1>7, <1>8, <1>9, <1>10 DEF Next, Owner, Operator

LEMMA TombstoneIsKnownNext == IInv /\ Next => TombstoneIsKnown'
  <1> SUFFICES ASSUME IInv, Next PROVE TombstoneIsKnown'
    OBVIOUS
  <1>1. api' # "idle" => ledger'.there
    BY RequestStep
  <1>2. api' = "published" \/ accepted' => external' # "absent"
    BY RequestStep, ExternalStep DEF IInv, TombstoneIsKnown
  <1>3. ASSUME phase' # "restored", external' = "present"
        PROVE  ledger'.there \/ Clean'
    <2>1. CASE external # "present"
      BY <1>3, <2>1, ExternalStep
    <2>2. CASE external = "present" /\ phase = "restored"
      BY <1>3, <2>2, PhaseStep DEF Reapply
    <2>3. CASE external = "present" /\ phase # "restored"
      <3>1. ledger.there \/ Clean
        BY <2>3 DEF IInv, TombstoneIsKnown
      <3> QED
        BY <1>3, <3>1, LedgerStep, CleanStays DEF IInv, Restore
    <2> QED
      BY <2>1, <2>2, <2>3
  <1> QED
    BY <1>1, <1>2, <1>3 DEF TombstoneIsKnown

(* A job is completed by a worker, just now, or was so before.             *)
LEMMA CompletedStep ==
    ASSUME IInv, Next, phase' # "restored", job'.state = "completed"
    PROVE  \/ job.state = "completed" /\ ledger'.completed = ledger.completed
           \/ ledger'.completed = now /\ backups' = backups
  <1> USE DEF clock, dbvars
  <1>1. job \in Job /\ ledger \in Ledger
    BY DEF IInv, TypeOK
  <1>2. \A state : Stepped(state).state = state
    BY <1>1, SteppedFields
  <1>3. CASE Owner
    BY <1>1, <1>3 DEF Owner, IssueToken, TokenExpires, ProvisionOidcIdentity, Request,
                Externalize, MarkExternalized, RequestFails, Row, Ledger
  <1>4. ASSUME NEW w \in Workers, Worker(w)
        PROVE  \/ job.state = "completed" /\ ledger'.completed = ledger.completed
               \/ ledger'.completed = now /\ backups' = backups
    <2>1. CASE Claim(w)
      BY <1>1, <2>1 DEF Claim, Job
    <2>2. CASE EnsureExternalized(w)
      BY <1>1, <2>2 DEF EnsureExternalized, Ledger
    <2>3. CASE RevokeUserSessions(w) \/ DeleteIdentity(w) \/ Abandon(w)
      BY <2>3 DEF RevokeUserSessions, DeleteIdentity, Abandon
    <2>4. CASE Advance(w)
      <3>1. Stepped("identity_deleted") \in Job
        BY <1>1, SteppedType DEF Steps
      <3>2. job'.state # "completed"
        <4>1. Stepped("sessions_revoked").state # "completed"
          BY <1>2
        <4>2. [Stepped("identity_deleted") EXCEPT
                 !.identityDeleted = TRUE, !.coordinates = FALSE].state # "completed"
          BY <1>2, <3>1 DEF Job
        <4> QED
          BY <2>4, <4>1, <4>2 DEF Advance
      <3> QED
        BY <3>2
    <2>5. CASE PurgeAppData(w)
      <3>1. Stepped("app_data_deleted") \in Job
        BY <1>1, SteppedType DEF Steps
      <3>2. job'.state # "completed"
        BY <1>2, <2>5, <3>1 DEF PurgeAppData, Job
      <3> QED
        BY <3>2
    <2>6. CASE Complete(w)
      BY <1>1, <2>6 DEF Complete, Ledger
    <2>7. CASE Fail(w)
      <3>1. Stepped("failed_retryable") \in Job
        BY <1>1, SteppedType
      <3>2. job'.state # "completed"
        BY <1>2, <2>7, <3>1 DEF Fail, Job
      <3> QED
        BY <3>2
    <2> QED
      BY <1>4, <2>1, <2>2, <2>3, <2>4, <2>5, <2>6, <2>7 DEF Worker
  <1>5. CASE RetryTerminal
    <2>1. Stepped("failed_retryable") \in Job
      BY <1>1, SteppedType
    <2>2. job'.state # "completed"
      BY <1>2, <1>5, <2>1 DEF RetryTerminal, Job
    <2> QED
      BY <2>2
  <1>6. CASE Restore
    BY <1>6 DEF Restore
  <1>7. CASE Reapply
    BY <1>7, ReapplyFacts
  <1>8. CASE LeaseLapses
    BY <1>1, <1>8 DEF LeaseLapses, Job
  <1>9. CASE \/ TakeBackup \/ BackupExpires \/ Approve \/ BeginExternalLedgerPurge
             \/ RemoveVerified \/ FinishExternalLedgerPurge \/ CleanupRetention
    BY <1>9 DEF TakeBackup, BackupExpires, Approve, BeginExternalLedgerPurge,
                RemoveVerified, FinishExternalLedgerPurge, CleanupRetention, Row
  <1> QED
    BY <1>3, <1>4, <1>5, <1>6, <1>7, <1>8, <1>9 DEF Next, Operator

LEMMA NowStep ==
    ASSUME IInv, Next
    PROVE  now' \in Nat /\ now' >= now
  <1> USE DEF clock, dbvars
  <1>1. now \in Nat
    BY DEF IInv, TypeOK
  <1>2. ASSUME Owner PROVE now' = now
    BY <1>2 DEF Owner, IssueToken, TokenExpires, ProvisionOidcIdentity, Request,
                Externalize, MarkExternalized, RequestFails
  <1>3. ASSUME NEW w \in Workers, Worker(w) PROVE now' = now
    BY <1>3 DEF Worker, Claim, EnsureExternalized, RevokeUserSessions, DeleteIdentity,
                Advance, PurgeAppData, Complete, Fail, Abandon
  <1>4. ASSUME LeaseLapses \/ Operator PROVE now' = now \/ now' = now + 1
    BY <1>4 DEF Operator, LeaseLapses, RetryTerminal, TakeBackup, BackupExpires,
                Restore, Reapply, Approve, BeginExternalLedgerPurge, RemoveVerified,
                FinishExternalLedgerPurge, CleanupRetention
  <1> QED
    BY <1>1, <1>2, <1>3, <1>4 DEF Next

LEMMA BackupsAfterCompletionNext == IInv /\ Next => BackupsAfterCompletion'
  <1> SUFFICES ASSUME IInv, Next PROVE BackupsAfterCompletion'
    OBVIOUS
  <1>1. /\ now \in Nat
        /\ \A b \in backups : b.at \in Nat /\ b.at <= now
    BY DEF IInv, TypeOK, Backup, BackupsAfterCompletion
  <1>2. \A b \in backups' : b.at <= now'
    <2> SUFFICES ASSUME NEW b \in backups' PROVE b.at <= now'
      OBVIOUS
    <2>1. CASE b \in backups
      BY <1>1, <2>1, NowStep
    <2>2. CASE b \notin backups
      <3>1. TakeBackup /\ b.at = now + 1
        BY <2>2, BackupsStep DEF IInv
      <3> QED
        BY <1>1, <3>1 DEF TakeBackup
    <2> QED
      BY <2>1, <2>2
  <1>3. ASSUME phase' # "restored", job'.state = "completed",
               NEW b \in backups', b.at > ledger'.completed
        PROVE  b.user = "gone" /\ ~b.identity
    <2>1. CASE ledger'.completed = now /\ backups' = backups
      BY <1>1, <1>3, <2>1
    <2>2. CASE job.state = "completed" /\ ledger'.completed = ledger.completed
      <3>1. CASE phase = "restored"
        <4>1. external # "present"
          BY <1>3, <3>1, PhaseStep, ReapplyFacts
        <4>2. external # "absent"
          BY <2>2 DEF IInv, Images, Image, IdentityIsRecorded
        <4>3. Clean
          BY <4>1, <4>2 DEF IInv, TypeOK, PurgeFromClean
        <4> QED
          BY <4>3, CleanStays DEF IInv, Clean
      <3>2. CASE phase # "restored" /\ b \in backups
        BY <1>3, <2>2, <3>2 DEF IInv, BackupsAfterCompletion
      <3>3. CASE phase # "restored" /\ b \notin backups
        <4>1. b.user = user /\ b.identity = identity
          BY <3>3, BackupsStep DEF IInv
        <4> QED
          BY <2>2, <3>3, <4>1, CompletedFacts
      <3> QED
        BY <3>1, <3>2, <3>3
    <2> QED
      BY <1>3, <2>1, <2>2, CompletedStep
  <1> QED
    BY <1>2, <1>3 DEF BackupsAfterCompletion

(* The row of a purge goes with a restore, or after the tombstone.         *)
LEMMA PurgeGone ==
    ASSUME Next, purge # "none", purge' = "none"
    PROVE  Restore \/ (~ledger.there /\ ledger' = ledger)
  <1> USE DEF clock, dbvars
  <1>1. CASE Owner
    BY <1>1 DEF Owner, IssueToken, TokenExpires, ProvisionOidcIdentity, Request, Externalize,
                MarkExternalized, RequestFails
  <1>2. ASSUME NEW w \in Workers, Worker(w) PROVE FALSE
    BY <1>2 DEF Worker, Claim, EnsureExternalized, RevokeUserSessions, DeleteIdentity,
                Advance, PurgeAppData, Complete, Fail, Abandon
  <1>3. CASE LeaseLapses \/ Operator
    BY <1>3 DEF Operator, LeaseLapses, RetryTerminal, TakeBackup, BackupExpires, Reapply,
                Approve, BeginExternalLedgerPurge, RemoveVerified,
                FinishExternalLedgerPurge, CleanupRetention
  <1> QED
    BY <1>1, <1>2, <1>3 DEF Next

LEMMA RestoresStep ==
    ASSUME IInv, Next
    PROVE  IF Restore THEN restores' # 0 ELSE restores' = restores
  <1> USE DEF clock, dbvars
  <1>1. CASE Restore
    BY <1>1 DEF Restore, IInv, TypeOK
  <1>2. ASSUME Owner PROVE restores' = restores
    BY <1>2 DEF Owner, IssueToken, TokenExpires, ProvisionOidcIdentity, Request, Externalize,
                MarkExternalized, RequestFails
  <1>3. ASSUME NEW w \in Workers, Worker(w) PROVE restores' = restores
    BY <1>3 DEF Worker, Claim, EnsureExternalized, RevokeUserSessions, DeleteIdentity,
                Advance, PurgeAppData, Complete, Fail, Abandon
  <1>4. ASSUME LeaseLapses \/ Operator, ~Restore PROVE restores' = restores
    BY <1>4 DEF Operator, LeaseLapses, RetryTerminal, TakeBackup, BackupExpires, Reapply,
                Approve, BeginExternalLedgerPurge, RemoveVerified,
                FinishExternalLedgerPurge, CleanupRetention
  <1>5. Owner \/ (\E w \in Workers : Worker(w)) \/ LeaseLapses \/ Operator
    BY DEF Next
  <1>6. CASE ~Restore
    BY <1>2, <1>3, <1>4, <1>5, <1>6
  <1> QED
    BY <1>1, <1>6

LEMMA PurgeIsClosedNext == IInv /\ Next => PurgeIsClosed'
  <1> SUFFICES ASSUME IInv, Next, external' = "unlinked", restores' = 0, ledger'.there,
                      purge' = "none"
               PROVE  FALSE
    BY DEF PurgeIsClosed
  <1>1. ~Restore /\ restores = 0
    BY RestoresStep
  <1>2. external = "unlinked" \/ purge # "none"
    BY ExternalStep
  <1>3. Clean
    BY <1>2 DEF IInv, PurgeFromClean
  <1>4. ledger.there
    <2>1. CASE Request
      BY <1>3, <2>1 DEF Request, Clean
    <2>2. CASE Reapply /\ external = "present"
      BY <2>2 DEF Reapply
    <2> QED
      BY <1>1, <2>1, <2>2, LedgerStep
  <1>5. purge # "none"
    BY <1>1, <1>2, <1>4 DEF IInv, PurgeIsClosed
  <1> QED
    BY <1>1, <1>4, <1>5, PurgeGone

-----------------------------------------------------------------------------
(* The invariant, and what it gives.                                       *)

LEMMA StepInvariant == IInv /\ [Next]_vars => IInv'
  <1> SUFFICES ASSUME IInv, [Next]_vars PROVE IInv'
    OBVIOUS
  <1>1. CASE Next
    <2>1. TypeOK'
      BY <1>1, TypeNext DEF IInv
    <2>2. WorkersInStep'
      BY <1>1, WorkersInStepWorker, WorkersInStepOthers DEF Next
    <2> QED
      BY <1>1, <2>1, <2>2, ImagesNext, PurgeFromCleanNext, IdentityIsRecordedNext,
         TombstoneIsKnownNext, BackupsAfterCompletionNext, PurgeIsClosedNext DEF IInv
  <1>2. CASE UNCHANGED vars
    <2> USE <1>2 DEF vars, IInv
    <2>1. TypeOK'
      BY DEF TypeOK
    <2>2. Images' /\ PurgeFromClean' /\ PurgeIsClosed'
      BY DEF Images, PurgeFromClean, Clean, PurgeIsClosed
    <2>3. WorkersInStep' /\ IdentityIsRecorded'
      BY DEF WorkersInStep, Holds, Effective, IdentityIsRecorded
    <2>4. TombstoneIsKnown' /\ BackupsAfterCompletion'
      BY DEF TombstoneIsKnown, Clean, BackupsAfterCompletion
    <2> QED
      BY <2>1, <2>2, <2>3, <2>4
  <1> QED
    BY <1>1, <1>2

LEMMA Invariance == Spec => []IInv
  BY InitInvariant, StepInvariant, PTL DEF Spec

(* A job that is recorded as completed in a database that is in use has    *)
(* erased the user's rows and the identity, whatever was restored, retried *)
(* or abandoned before.                                                    *)
THEOREM CompletionIsTrue == Spec => []CompletedIsErased
  <1>1. IInv => CompletedIsErased
    BY CompletedFacts DEF CompletedIsErased, Erased
  <1> QED
    BY <1>1, Invariance, PTL

(* No account is active again, while traffic is served, after a request    *)
(* for its deletion was answered with 202.                                 *)
THEOREM AcceptedIsNeverActive == Spec => []AcceptedStaysDeleted
  <1>1. IInv => AcceptedStaysDeleted
    <2> SUFFICES ASSUME IInv, accepted, phase = "normal" PROVE user # "active"
      BY DEF AcceptedStaysDeleted
    <2>1. external # "absent"
      BY DEF IInv, TombstoneIsKnown
    <2>2. external = "unlinked" => Clean
      BY DEF IInv, PurgeFromClean
    <2>3. external = "present" => ledger.there \/ Clean
      BY DEF IInv, TombstoneIsKnown
    <2> QED
      BY <2>1, <2>2, <2>3 DEF IInv, TypeOK, Clean, Images, Image
  <1> QED
    BY <1>1, Invariance, PTL

(* When the tombstone is unlinked, nothing that exists or can be restored  *)
(* holds the user or the identity.                                         *)
THEOREM PurgeIsFinal == Spec => []PurgedIsUnrecoverable
  <1>1. IInv => PurgedIsUnrecoverable
    BY DEF IInv, PurgeFromClean, Clean, PurgedIsUnrecoverable, Erased
  <1> QED
    BY <1>1, Invariance, PTL

(* The identity goes after the tombstone is published, the user's rows     *)
(* after the identity, and a tombstone that is unlinked stays so unless    *)
(* a restore loses the authorization.                                      *)
THEOREM ErasureIsOrdered == Spec => ErasureInOrder
  <1> DEFINE Ordered ==
        phase' # "restored" =>
          /\ identity /\ ~identity' => external = "present"
          /\ user # "gone" /\ user' = "gone" => ~identity
          /\ external = "unlinked" /\ restores = 0 => external' = "unlinked"
  <1>1. ASSUME IInv, Next, phase' # "restored" PROVE Ordered
    <2> USE DEF clock, dbvars
    <2>1. ASSUME identity, ~identity' PROVE external = "present"
      <3>1. \E w \in Workers : DeleteIdentity(w)
        BY <1>1, <2>1
        DEF Next, Owner, IssueToken, TokenExpires, ProvisionOidcIdentity, Request, Externalize,
            MarkExternalized, RequestFails, Worker, Claim, EnsureExternalized,
            RevokeUserSessions, Advance, PurgeAppData, Complete, Fail, Abandon, LeaseLapses,
            Operator, RetryTerminal, TakeBackup, BackupExpires, Restore, Reapply, Approve,
            BeginExternalLedgerPurge, RemoveVerified, FinishExternalLedgerPurge,
            CleanupRetention
      <3>2. external # "absent"
        BY <1>1, <3>1 DEF DeleteIdentity, IInv, WorkersInStep
      <3>3. external # "unlinked"
        BY <1>1, <2>1 DEF IInv, PurgeFromClean, Clean
      <3> QED
        BY <1>1, <3>2, <3>3 DEF IInv, TypeOK
    <2>2. ASSUME user # "gone", user' = "gone" PROVE ~identity
      <3>1. \E w \in Workers : PurgeAppData(w)
        BY <1>1, <2>2
        DEF Next, Owner, IssueToken, TokenExpires, ProvisionOidcIdentity, Request, Externalize,
            MarkExternalized, RequestFails, Worker, Claim, EnsureExternalized,
            RevokeUserSessions, DeleteIdentity, Advance, Complete, Fail, Abandon, LeaseLapses,
            Operator, RetryTerminal, TakeBackup, BackupExpires, Restore, Reapply, Approve,
            BeginExternalLedgerPurge, RemoveVerified, FinishExternalLedgerPurge,
            CleanupRetention
      <3>2. Effective = "identity_deleted"
        BY <3>1 DEF PurgeAppData, AtStep
      <3>3. job.identityDeleted
        BY <1>1, <3>2 DEF IInv, Images, Image, EffectiveOf, Effective
      <3> QED
        BY <1>1, <3>1, <3>3, WorkerFacts DEF PurgeAppData
    <2>3. ASSUME external = "unlinked", restores = 0 PROVE external' = "unlinked"
      <3>1. ~Required
        BY <1>1, <2>3 DEF Required, IInv, PurgeIsClosed
      <3>2. external' # "absent" /\ external' # "present"
        BY <1>1, <2>3, <3>1, ExternalStep
      <3>3. TypeOK'
        BY <1>1, TypeNext DEF IInv
      <3> QED
        BY <3>2, <3>3 DEF TypeOK
    <2> QED
      BY <2>1, <2>2, <2>3
  <1>2. IInv /\ [Next]_vars => [Ordered]_vars
    BY <1>1
  <1>3. ErasureInOrder <=> [][Ordered]_vars
    BY DEF ErasureInOrder
  <1> QED
    BY <1>2, <1>3, Invariance, PTL DEF Spec
=============================================================================
