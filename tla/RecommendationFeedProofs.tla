---------------------- MODULE RecommendationFeedProofs ----------------------
(***************************************************************************)
(* Proofs about RecommendationFeed, for any number of requests, workers,   *)
(* attempts and changes of the account.  A worker reads outside any lock,  *)
(* so the invariant says what its reads are worth when the fence is        *)
(* checked: each lies between the revision in the key and the present one. *)
(* Where the two agree, the read is what the key says.  Resets make the    *)
(* feedback revision start again, which is why it is compared only under   *)
(* keys of the present profile: no reset lies between.                     *)
(***************************************************************************)
EXTENDS RecommendationFeed, TLAPS

(* A key asks for revisions that there have been.                          *)
Past(k) ==
    /\ k.library <= library.revision
    /\ k.profile # NoProfile => k.profile <= profile

KeysArePast ==
    /\ \A k \in DOMAIN job : Past(k)
    /\ \A w \in Workers : exec[w].at # "idle" => exec[w].key \in DOMAIN job

(* What an attempt has read so far.                                        *)
Ordered(at, k, read) ==
    /\ at \in {"context", "built"} =>
         /\ read.profile = k.profile
         /\ k.library <= read.library /\ read.library <= library.revision
    /\ at = "context" /\ k.profile = FencedProfile => k.feedback <= feedback
    /\ at = "built" /\ k.profile = FencedProfile =>
         k.feedback <= read.feedback /\ read.feedback <= feedback

ReadsAreOrdered == \A w \in Workers : Ordered(exec[w].at, exec[w].key, exec[w].read)

Filled(k) == k \in DOMAIN batch /\ batch[k].content # NoContent

PublishedIsFilled == \A k \in DOMAIN batch : Published(k) => Filled(k)

(* A worker that is about to report completion has its batch.              *)
FinishedIsFilled ==
    \A w \in Workers :
        exec[w].at = "completed" /\ exec[w].key.profile = FencedProfile => Filled(exec[w].key)

IInv ==
    /\ TypeOK
    /\ KeysArePast
    /\ ReadsAreOrdered
    /\ PublishedIsFilled
    /\ FinishedIsFilled
    /\ ReadyIsCurrent
    /\ BuiltAsLabelled
    /\ CompletedIsPublished

-----------------------------------------------------------------------------
(* Type correctness.                                                       *)

LEMMA PutBatch ==
    ASSUME TypeOK, NEW k \in Key, NEW v \in Batch
    PROVE  /\ DOMAIN Put(batch, k, v) = DOMAIN batch \cup {k}
           /\ DOMAIN Put(batch, k, v) \subseteq Key
           /\ Put(batch, k, v) \in [DOMAIN batch \cup {k} -> Batch]
           /\ Put(batch, k, v)[k] = v
           /\ \A x \in DOMAIN batch : x # k => Put(batch, k, v)[x] = batch[x]
  BY DEF Put, TypeOK

LEMMA PutJob ==
    ASSUME TypeOK, NEW k \in Key, NEW v \in Job
    PROVE  /\ DOMAIN Put(job, k, v) = DOMAIN job \cup {k}
           /\ DOMAIN Put(job, k, v) \subseteq Key
           /\ Put(job, k, v) \in [DOMAIN job \cup {k} -> Job]
           /\ Put(job, k, v)[k] = v
           /\ \A x \in DOMAIN job : x # k => Put(job, k, v)[x] = job[x]
  BY DEF Put, TypeOK

LEMMA SupersededType ==
    ASSUME DOMAIN batch \subseteq Key, batch \in [DOMAIN batch -> Batch], NEW stale
    PROVE  /\ DOMAIN Superseded(stale) = DOMAIN batch
           /\ Superseded(stale) \in [DOMAIN batch -> Batch]
           /\ \A k \in DOMAIN batch :
                /\ Superseded(stale)[k].content = batch[k].content
                /\ Superseded(stale)[k].status \in {batch[k].status, "superseded"}
                /\ batch[k].status # "ready" => Superseded(stale)[k].status = batch[k].status
                /\ Superseded(stale)[k].status = "ready" => k \notin stale
  BY DEF Superseded, Batch

LEMMA RecordTypes ==
    /\ NoRequest \in Request
    /\ Idle \in Exec
    /\ NewJob \in Job
    /\ NothingRead \in Content
  BY FeedConstants DEF NoRequest, Request, Idle, Exec, NewJob, Job, NothingRead, Content, NoKey, Key

LEMMA TypeInit == Init => TypeOK
  <1> SUFFICES ASSUME Init PROVE TypeOK
    OBVIOUS
  <1>1. req \in [Clients -> Request] /\ exec \in [Workers -> Exec]
    BY RecordTypes DEF Init
  <1>2. DOMAIN NoRows = {}
    BY DEF NoRows
  <1> QED
    BY <1>1, <1>2 DEF Init, TypeOK

LEMMA ChangeTypes == TypeOK /\ Change => TypeOK'
  <1> SUFFICES ASSUME TypeOK, Change PROVE TypeOK'
    OBVIOUS
  <1> USE DEF TypeOK, Changed
  <1>1. CASE LibraryChange
    BY <1>1, SupersededType DEF LibraryChange
  <1>2. CASE ProfileChange
    BY <1>2, SupersededType DEF ProfileChange
  <1>3. CASE ProfileReset
    <2>1. DOMAIN NoRows = {} /\ NoRows \in [{} -> Batch]
      BY DEF NoRows
    <2> QED
      BY <1>3, <2>1 DEF ProfileReset
  <1>4. CASE Feedback
    BY <1>4, SupersededType DEF Feedback
  <1>5. CASE SearchChange
    BY <1>5 DEF SearchChange
  <1> QED
    BY <1>1, <1>2, <1>3, <1>4, <1>5 DEF Change

LEMMA ClientTypes ==
    ASSUME TypeOK, PublishedIsFilled, NEW c \in Clients, Client(c)
    PROVE  TypeOK'
  <1> USE DEF TypeOK, account
  <1>1. req[c] \in Request /\ req[c].key \in Key
    BY DEF Request
  <1>2. \A r \in Request : Goes(c, r) => req' \in [Clients -> Request]
    BY DEF Goes
  <1>3. Ends(c) => req' \in [Clients -> Request]
    BY <1>2, RecordTypes DEF Ends
  <1>4. CASE Snapshot(c)
    <2>1. [NoRequest EXCEPT !.at = "snapshot", !.library = library.revision] \in Request
      BY RecordTypes DEF Request
    <2> QED
      BY <1>2, <1>4, <2>1 DEF Snapshot
  <1>5. CASE Prepare(c)
    <2>1. PICK p \in {profile, NoProfile} :
            Goes(c, [req[c] EXCEPT
                        !.at = "prepared",
                        !.key = [library |-> req[c].library, feedback |-> feedback,
                                 profile |-> p, searches |-> searches]])
      BY <1>5 DEF Prepare
    <2>2. [library |-> req[c].library, feedback |-> feedback,
           profile |-> p, searches |-> searches] \in Key
      BY <1>1 DEF Key, Request
    <2>3. [req[c] EXCEPT
             !.at = "prepared",
             !.key = [library |-> req[c].library, feedback |-> feedback,
                      profile |-> p, searches |-> searches]] \in Request
      BY <1>1, <2>2 DEF Request
    <2> QED
      BY <1>2, <1>5, <2>1, <2>3 DEF Prepare
  <1>6. CASE ProveEmpty(c)
    <2> DEFINE k == [req[c].key EXCEPT !.library = library.revision]
    <2>1. k \in Key
      BY <1>1 DEF Key
    <2>2. [req[c] EXCEPT !.at = "found", !.key = k] \in Request
      BY <1>1, <2>1 DEF Request
    <2>3. [req[c] EXCEPT !.at = "missing"] \in Request
      BY <1>1 DEF Request
    <2>4. req' \in [Clients -> Request]
      <3> HIDE DEF k
      <3> QED
        BY <1>2, <1>3, <1>6, <2>2, <2>3, RecordTypes DEF ProveEmpty, k
    <2>5. DOMAIN batch' \subseteq Key /\ batch' \in [DOMAIN batch' -> Batch]
      <3>1. [status |-> "blocked", content |-> NoContent] \in Batch
        BY DEF Batch
      <3>2. batch' = batch \/ batch' = Put(batch, k, [status |-> "blocked", content |-> NoContent])
        BY <1>6 DEF ProveEmpty
      <3>3. CASE batch' = Put(batch, k, [status |-> "blocked", content |-> NoContent])
        <4> HIDE DEF k, TypeOK
        <4>1. DOMAIN batch' = DOMAIN batch \cup {k} /\ DOMAIN batch' \subseteq Key
          BY <2>1, <3>1, <3>3, PutBatch
        <4>2. batch' \in [DOMAIN batch \cup {k} -> Batch]
          BY <2>1, <3>1, <3>3, PutBatch
        <4> QED
          BY <4>1, <4>2
      <3> QED
        BY <3>2, <3>3
    <2> QED
      BY <1>6, <2>4, <2>5 DEF ProveEmpty
  <1>7. CASE Enqueue(c)
    <2>1. [req[c] EXCEPT !.at = "found"] \in Request
      BY <1>1 DEF Request
    <2>2. req' \in [Clients -> Request]
      BY <1>2, <1>3, <1>7, <2>1, RecordTypes DEF Enqueue
    <2>3. job' = job \/ job' = Put(job, req[c].key, NewJob)
      BY <1>7 DEF Enqueue
    <2>4. DOMAIN job' \subseteq Key /\ job' \in [DOMAIN job' -> Job]
      <3>1. CASE job' = Put(job, req[c].key, NewJob)
        <4> HIDE DEF TypeOK
        <4>1. DOMAIN job' = DOMAIN job \cup {req[c].key} /\ DOMAIN job' \subseteq Key
          BY <1>1, <3>1, PutJob, RecordTypes
        <4>2. job' \in [DOMAIN job \cup {req[c].key} -> Job]
          BY <1>1, <3>1, PutJob, RecordTypes
        <4> QED
          BY <4>1, <4>2
      <3> QED
        BY <2>3, <3>1
    <2> QED
      BY <1>7, <2>2, <2>4 DEF Enqueue
  <1>8. CASE Serve(c)
    <2> DEFINE k == req[c].key
    <2>1. CASE batch' = Superseded({k}) /\ Ends(c)
      BY <1>3, <1>8, <2>1, SupersededType DEF Serve
    <2>2. CASE batch' = batch /\ Ends(c)
      BY <1>3, <1>8, <2>2 DEF Serve
    <2>3. CASE /\ Published(k)
               /\ batch' = [batch EXCEPT ![k].status = "served"]
               /\ Goes(c, [NoRequest EXCEPT !.at = "served", !.page = batch[k].content])
      <3>1. k \in DOMAIN batch /\ batch[k].content \in Content
        BY <2>3 DEF Published, PublishedIsFilled, Filled, Batch
      <3>2. [NoRequest EXCEPT !.at = "served", !.page = batch[k].content] \in Request
        BY <3>1, RecordTypes DEF Request
      <3>3. req' \in [Clients -> Request]
        BY <1>2, <2>3, <3>2
      <3>4. DOMAIN batch' = DOMAIN batch /\ batch' \in [DOMAIN batch -> Batch]
        BY <2>3, <3>1 DEF Batch
      <3> QED
        BY <1>8, <3>3, <3>4 DEF Serve
    <2>4. \/ batch' = Superseded({k}) /\ Ends(c)
          \/ batch' = batch /\ Ends(c)
          \/ /\ Published(k)
             /\ batch' = [batch EXCEPT ![k].status = "served"]
             /\ Goes(c, [NoRequest EXCEPT !.at = "served", !.page = batch[k].content])
      BY <1>8 DEF Serve
    <2> QED
      BY <2>1, <2>2, <2>3, <2>4
  <1>9. CASE Leave(c)
    BY <1>3, <1>9 DEF Leave
  <1> QED
    BY <1>4, <1>5, <1>6, <1>7, <1>8, <1>9 DEF Client

LEMMA WorksType ==
    ASSUME TypeOK, NEW w \in Workers, NEW at, NEW k \in Key, NEW read \in Content,
           at \in {"idle", "claimed", "context", "built", "completed", "superseded", "retry"},
           Works(w, at, k, read)
    PROVE  /\ exec' \in [Workers -> Exec]
           /\ exec'[w] = [at |-> at, key |-> k, read |-> read]
           /\ \A v \in Workers : v # w => exec'[v] = exec[v]
  BY DEF Works, Exec, TypeOK

LEMMA SettledType ==
    ASSUME TypeOK, NEW k \in DOMAIN job,
           NEW state \in {"queued", "running", "completed", "superseded", "failed"}
    PROVE  Settled(k, state) \in Job
  BY DEF Settled, Job, TypeOK

(* Where a worker of a well-typed step goes.                               *)
LEMMA ExecFields ==
    ASSUME TypeOK, NEW w \in Workers
    PROVE  /\ exec[w].key \in Key
           /\ exec[w].read \in Content
           /\ exec[w].at \in
                {"idle", "claimed", "context", "built", "completed", "superseded", "retry"}
  BY DEF TypeOK, Exec

LEMMA ClaimTypes ==
    ASSUME TypeOK, NEW w \in Workers, Claim(w)
    PROVE  TypeOK'
  <1> DEFINE swept == [k \in DOMAIN job |-> IF Exhausted(k) THEN Settled(k, "failed") ELSE job[k]]
  <1>1. swept \in [DOMAIN job -> Job]
    BY SettledType DEF TypeOK
  <1>2. ASSUME NEW k \in DOMAIN job, Claimable(k),
               job' = [swept EXCEPT ![k] = [state |-> "running", owner |-> w,
                                            attempts |-> job[k].attempts + 1]],
               Works(w, "claimed", k, NothingRead)
        PROVE  TypeOK'
    <2>1. job[k].attempts + 1 \in 0..MaxAttempts
      BY <1>2, FeedConstants DEF Claimable, TypeOK, Job
    <2>2. [state |-> "running", owner |-> w, attempts |-> job[k].attempts + 1] \in Job
      BY <2>1 DEF Job
    <2>3. job' \in [DOMAIN job -> Job]
      <3> HIDE DEF swept
      <3> QED
        BY <1>1, <1>2, <2>2
    <2>4. k \in Key
      BY DEF TypeOK
    <2>5. exec' \in [Workers -> Exec]
      BY <1>2, <2>4, WorksType, RecordTypes
    <2>6. DOMAIN job' = DOMAIN job
      BY <2>3
    <2> HIDE DEF swept
    <2> QED
      BY <2>3, <2>5, <2>6 DEF Claim, TypeOK, account
  <1>3. CASE job' = swept /\ UNCHANGED exec
    <2> HIDE DEF swept
    <2> QED
      BY <1>1, <1>3 DEF Claim, TypeOK, account
  <1> QED
    BY <1>2, <1>3 DEF Claim

LEMMA AttemptTypes ==
    ASSUME TypeOK, KeysArePast, NEW w \in Workers, Attempt(w)
    PROVE  TypeOK'
  <1> DEFINE k == exec[w].key
  <1>0. /\ k \in Key /\ exec[w].read \in Content
        /\ exec[w].at \in
             {"idle", "claimed", "context", "built", "completed", "superseded", "retry"}
    BY ExecFields
  <1>1. CASE ReadContext(w)
    <2>1. PICK p \in {profile, NoProfile} :
            \/ Works(w, "context", k,
                     [exec[w].read EXCEPT !.profile = p, !.library = library.revision])
            \/ Stale(w)
      BY <1>1 DEF ReadContext
    <2>2. [exec[w].read EXCEPT !.profile = p, !.library = library.revision] \in Content
      BY <1>0 DEF Content, TypeOK
    <2>3. exec' \in [Workers -> Exec]
      BY <1>0, <2>1, <2>2, WorksType DEF Stale
    <2> QED
      BY <1>1, <2>3 DEF ReadContext, TypeOK, account
  <1>2. CASE ReadHistory(w)
    <2>1. [exec[w].read EXCEPT !.feedback = feedback] \in Content
      BY <1>0 DEF Content, TypeOK
    <2>2. exec' \in [Workers -> Exec]
      BY <1>0, <1>2, <2>1, WorksType DEF ReadHistory
    <2> QED
      BY <1>2, <2>2 DEF ReadHistory, TypeOK, account
  <1>3. CASE PersistReady(w)
    <2>1. \E at \in {"completed", "superseded", "retry"} : Works(w, at, k, exec[w].read)
      BY <1>3 DEF PersistReady, Stale, Outcome
    <2>2. exec' \in [Workers -> Exec]
      BY <1>0, <2>1, WorksType
    <2>3. [status |-> "superseded", content |-> NoContent] \in Batch
      BY DEF Batch
    <2>4. [status |-> "ready", content |-> exec[w].read] \in Batch
      BY <1>0 DEF Batch
    <2>5. \/ batch' = batch
          \/ batch' = Put(batch, k, [status |-> "superseded", content |-> NoContent])
          \/ batch' = Put(batch, k, [status |-> "ready", content |-> exec[w].read])
      BY <1>3 DEF PersistReady
    <2>6. DOMAIN batch' \subseteq Key /\ batch' \in [DOMAIN batch' -> Batch]
      <3>1. ASSUME NEW v \in Batch, batch' = Put(batch, k, v)
            PROVE  DOMAIN batch' \subseteq Key /\ batch' \in [DOMAIN batch' -> Batch]
        <4>1. DOMAIN batch' = DOMAIN batch \cup {k} /\ DOMAIN batch' \subseteq Key
          BY <1>0, <3>1, PutBatch
        <4>2. batch' \in [DOMAIN batch \cup {k} -> Batch]
          BY <1>0, <3>1, PutBatch
        <4> QED
          BY <4>1, <4>2
      <3> QED
        BY <2>3, <2>4, <2>5, <3>1 DEF TypeOK
    <2> QED
      BY <1>3, <2>2, <2>6 DEF PersistReady, TypeOK, account
  <1>4. CASE AttemptFails(w)
    BY <1>0, <1>4, WorksType DEF AttemptFails, TypeOK, account
  <1>5. CASE Settle(w)
    <2>1. k \in DOMAIN job
      BY <1>5 DEF Settle, KeysArePast
    <2>2. PICK state \in {"queued", "completed", "superseded", "failed"} :
            job' = IF Holds(w, k) THEN [job EXCEPT ![k] = Settled(k, state)] ELSE job
      BY <1>5 DEF Settle
    <2>3. DOMAIN job' = DOMAIN job /\ job' \in [DOMAIN job -> Job]
      BY <2>1, <2>2, SettledType DEF TypeOK
    <2>4. exec' \in [Workers -> Exec]
      BY <1>5, RecordTypes DEF Settle, TypeOK
    <2> QED
      BY <1>5, <2>3, <2>4 DEF Settle, TypeOK, account
  <1>6. CASE Crash(w)
    BY <1>6, RecordTypes DEF Crash, TypeOK, account
  <1> QED
    BY <1>1, <1>2, <1>3, <1>4, <1>5, <1>6 DEF Attempt

LEMMA LapseTypes ==
    ASSUME TypeOK, NEW k \in DOMAIN job, LeaseLapses(k)
    PROVE  TypeOK'
  <1>1. [job[k] EXCEPT !.owner = NoWorker] \in Job
    BY DEF TypeOK, Job
  <1>2. DOMAIN job' = DOMAIN job /\ job' \in [DOMAIN job -> Job]
    BY <1>1 DEF LeaseLapses, TypeOK
  <1> QED
    BY <1>2 DEF LeaseLapses, TypeOK, account

LEMMA TypeStep == TypeOK /\ KeysArePast /\ PublishedIsFilled /\ [Next]_vars => TypeOK'
  <1> SUFFICES ASSUME TypeOK, KeysArePast, PublishedIsFilled, [Next]_vars PROVE TypeOK'
    OBVIOUS
  <1>1. CASE UNCHANGED vars
    BY <1>1 DEF vars, TypeOK
  <1> QED
    BY <1>1, ChangeTypes, ClientTypes, ClaimTypes, AttemptTypes, LapseTypes DEF Next

-----------------------------------------------------------------------------
(* What any step may do to the account, to a batch, to a job, to a worker. *)

LEMMA AccountMoves ==
    ASSUME TypeOK, [Next]_vars
    PROVE  /\ library.revision <= library'.revision
           /\ profile <= profile'
           /\ profile' = profile => feedback <= feedback'
           /\ library' # library => library'.revision = library.revision + 1
  <1> USE DEF TypeOK
  <1>1. CASE Change
    BY <1>1 DEF Change, LibraryChange, ProfileChange, ProfileReset, Feedback, SearchChange, Changed
  <1>2. CASE UNCHANGED account
    BY <1>2 DEF account
  <1>3. ASSUME NEW c \in Clients, Client(c) PROVE UNCHANGED account
    BY <1>3 DEF Client, Snapshot, Prepare, ProveEmpty, Enqueue, Serve, Leave
  <1>4. ASSUME NEW w \in Workers, Claim(w) \/ Attempt(w) PROVE UNCHANGED account
    BY <1>4 DEF Claim, Attempt, ReadContext, ReadHistory, PersistReady, AttemptFails, Settle, Crash
  <1>5. ASSUME NEW k \in DOMAIN job, LeaseLapses(k) PROVE UNCHANGED account
    BY <1>5 DEF LeaseLapses
  <1> QED
    BY <1>1, <1>2, <1>3, <1>4, <1>5 DEF Next, vars, account

(* A key of the next moment's profile is one of this moment's, unless it   *)
(* asks for what there has not been: no change of the profile, and so no   *)
(* reset of the feedback, lies between.                                    *)
LEMMA SameProfile ==
    ASSUME TypeOK, TypeOK', [Next]_vars, NEW k \in Key, Past(k), k.profile = FencedProfile'
    PROVE  profile' = profile /\ k.profile = FencedProfile
  <1>1. profile <= profile'
    BY AccountMoves
  <1>2. profile \in Nat /\ profile' \in Nat
    BY DEF TypeOK
  <1>3. CASE profile' = 0
    BY <1>1, <1>2, <1>3 DEF FencedProfile
  <1>4. CASE profile' # 0
    <2>1. k.profile = profile' /\ k.profile # NoProfile
      BY <1>2, <1>4, FeedConstants DEF FencedProfile
    <2>2. profile' <= profile
      BY <2>1 DEF Past
    <2>3. profile' = profile
      BY <1>1, <1>2, <2>2
    <2> QED
      BY <2>1, <2>3, <1>4 DEF FencedProfile
  <1> QED
    BY <1>3, <1>4

(* The fence holds where an attempt publishes.                             *)
Publishes(k, w) ==
    /\ exec[w].at = "built" /\ exec[w].key = k
    /\ QueueEmptyAt(k.library) /\ SameContext(k)
    /\ batch'[k] = [status |-> "ready", content |-> exec[w].read]
    /\ UNCHANGED <<account, job>>

Header(k) == batch'[k].content = NoContent /\ batch'[k].status \in {"blocked", "superseded"}

Kept(k) ==
    /\ k \in DOMAIN batch'
    /\ batch'[k].content = batch[k].content
    /\ batch[k].status \in {"served", "superseded"} => batch'[k].status = batch[k].status
    /\ batch'[k].status = "ready" => batch[k].status = "ready"
    /\ batch'[k].status = "served" => batch[k].status \in {"ready", "served"}

LEMMA SupersededKeeps ==
    ASSUME TypeOK, NEW stale, batch' = Superseded(stale)
    PROVE  DOMAIN batch' = DOMAIN batch /\ \A k \in DOMAIN batch : Kept(k)
  BY SupersededType DEF TypeOK, Kept

LEMMA BatchAdded ==
    ASSUME TypeOK, NEW k \in Key, k \notin DOMAIN batch, NEW v \in Batch,
           batch' = Put(batch, k, v)
    PROVE  /\ DOMAIN batch' = DOMAIN batch \cup {k}
           /\ batch'[k] = v
           /\ \A x \in DOMAIN batch : Kept(x)
  <1>1. DOMAIN batch' = DOMAIN batch \cup {k} /\ batch'[k] = v
    BY PutBatch
  <1>2. \A x \in DOMAIN batch : x # k /\ batch'[x] = batch[x]
    BY PutBatch
  <1>3. ASSUME NEW x \in DOMAIN batch PROVE Kept(x)
    BY <1>1, <1>2 DEF Kept
  <1> QED
    BY <1>1, <1>3

LEMMA BatchMoves ==
    ASSUME TypeOK, [Next]_vars
    PROVE  \/ ProfileReset
           \/ /\ \A k \in DOMAIN batch : Kept(k)
              /\ \A k \in DOMAIN batch' :
                   \/ k \in DOMAIN batch
                   \/ Header(k)
                   \/ \E w \in Workers : Publishes(k, w)
  <1>1. ASSUME UNCHANGED batch
        PROVE  DOMAIN batch' = DOMAIN batch /\ \A k \in DOMAIN batch : Kept(k)
    BY <1>1 DEF Kept
  <1>2. CASE Change /\ ~ProfileReset
    <2>1. UNCHANGED batch \/ \E stale \in SUBSET Key : batch' = Superseded(stale)
      <3>1. CASE LibraryChange
        BY <3>1 DEF LibraryChange, TypeOK
      <3>2. CASE ProfileChange
        BY <3>2 DEF ProfileChange, TypeOK
      <3>3. CASE Feedback
        BY <3>3 DEF Feedback, TypeOK
      <3>4. CASE SearchChange
        BY <3>4 DEF SearchChange
      <3> QED
        BY <1>2, <3>1, <3>2, <3>3, <3>4 DEF Change
    <2> QED
      BY <1>1, <2>1, SupersededKeeps
  <1>3. ASSUME NEW c \in Clients, Client(c)
        PROVE  /\ \A k \in DOMAIN batch : Kept(k)
               /\ \A k \in DOMAIN batch' : k \in DOMAIN batch \/ Header(k)
    <2>1. CASE ProveEmpty(c)
      <3> DEFINE k == [req[c].key EXCEPT !.library = library.revision]
      <3>1. k \in Key
        BY DEF TypeOK, Key, Request
      <3>2. [status |-> "blocked", content |-> NoContent] \in Batch
        BY DEF Batch
      <3>3. \/ UNCHANGED batch
            \/ k \notin DOMAIN batch
               /\ batch' = Put(batch, k, [status |-> "blocked", content |-> NoContent])
        BY <2>1 DEF ProveEmpty
      <3> HIDE DEF k
      <3>4. CASE k \notin DOMAIN batch
                 /\ batch' = Put(batch, k, [status |-> "blocked", content |-> NoContent])
        <4>1. /\ DOMAIN batch' = DOMAIN batch \cup {k}
              /\ batch'[k] = [status |-> "blocked", content |-> NoContent]
              /\ \A x \in DOMAIN batch : Kept(x)
          BY <3>1, <3>2, <3>4, BatchAdded
        <4>2. Header(k)
          BY <4>1 DEF Header
        <4> QED
          BY <4>1, <4>2
      <3> QED
        BY <1>1, <3>3, <3>4
    <2>2. CASE Serve(c)
      <3> DEFINE k == req[c].key
      <3>1. \/ UNCHANGED batch
            \/ batch' = Superseded({k})
            \/ Published(k) /\ batch' = [batch EXCEPT ![k].status = "served"]
        BY <2>2 DEF Serve
      <3>2. CASE Published(k) /\ batch' = [batch EXCEPT ![k].status = "served"]
        BY <3>2 DEF Published, Kept, TypeOK, Batch
      <3> QED
        BY <1>1, <3>1, <3>2, SupersededKeeps
    <2>3. CASE Snapshot(c) \/ Prepare(c) \/ Enqueue(c) \/ Leave(c)
      BY <1>1, <2>3 DEF Snapshot, Prepare, Enqueue, Leave
    <2> QED
      BY <1>3, <2>1, <2>2, <2>3 DEF Client
  <1>4. ASSUME NEW w \in Workers, PersistReady(w)
        PROVE  /\ \A k \in DOMAIN batch : Kept(k)
               /\ \A k \in DOMAIN batch' : k \in DOMAIN batch \/ Header(k) \/ Publishes(k, w)
    <2> DEFINE k == exec[w].key
               current == QueueEmptyAt(k.library) /\ SameContext(k)
    <2>1. k \in Key /\ exec[w].read \in Content /\ exec[w].at = "built"
      BY <1>4, ExecFields DEF PersistReady
    <2>2. /\ [status |-> "superseded", content |-> NoContent] \in Batch
          /\ [status |-> "ready", content |-> exec[w].read] \in Batch
      BY <2>1 DEF Batch
    <2>3. \/ UNCHANGED batch
          \/ k \notin DOMAIN batch
             /\ batch' = Put(batch, k, [status |-> "superseded", content |-> NoContent])
          \/ k \notin DOMAIN batch /\ current
             /\ batch' = Put(batch, k, [status |-> "ready", content |-> exec[w].read])
      BY <1>4 DEF PersistReady, Existing
    <2>4. CASE k \notin DOMAIN batch
               /\ batch' = Put(batch, k, [status |-> "superseded", content |-> NoContent])
      <3> HIDE DEF k, current
      <3>1. /\ DOMAIN batch' = DOMAIN batch \cup {k}
            /\ batch'[k] = [status |-> "superseded", content |-> NoContent]
            /\ \A x \in DOMAIN batch : Kept(x)
        BY <2>1, <2>2, <2>4, BatchAdded
      <3>2. Header(k)
        BY <3>1 DEF Header
      <3> QED
        BY <3>1, <3>2
    <2>5. CASE k \notin DOMAIN batch /\ current
               /\ batch' = Put(batch, k, [status |-> "ready", content |-> exec[w].read])
      <3>1. Publishes(k, w)
        BY <1>4, <2>1, <2>2, <2>5, PutBatch DEF Publishes, PersistReady
      <3> HIDE DEF k, current
      <3> QED
        BY <2>1, <2>2, <2>5, <3>1, BatchAdded
    <2> QED
      BY <1>1, <2>3, <2>4, <2>5
  <1>5. ASSUME NEW w \in Workers, Claim(w) \/ Attempt(w), ~PersistReady(w) PROVE UNCHANGED batch
    BY <1>5 DEF Claim, Attempt, ReadContext, ReadHistory, AttemptFails, Settle, Crash
  <1>6. ASSUME NEW k \in DOMAIN job, LeaseLapses(k) PROVE UNCHANGED batch
    BY <1>6 DEF LeaseLapses
  <1>7. UNCHANGED vars => UNCHANGED batch
    BY DEF vars
  <1> QED
    BY <1>1, <1>2, <1>3, <1>4, <1>5, <1>6, <1>7 DEF Next

(* A job that appears asks for the present account; one is completed only  *)
(* by a worker that found or published its batch.                          *)
LEMMA JobMoves ==
    ASSUME TypeOK, KeysArePast, [Next]_vars
    PROVE  /\ DOMAIN job \subseteq DOMAIN job'
           /\ \A k \in DOMAIN job' : k \in DOMAIN job \/ (Past(k) /\ UNCHANGED account)
           /\ \A k \in DOMAIN job' : job'[k].state = "completed" =>
                \/ k \in DOMAIN job /\ job[k].state = "completed"
                \/ \E w \in Workers :
                     exec[w].at = "completed" /\ exec[w].key = k /\ UNCHANGED <<account, batch>>
  <1>1. CASE UNCHANGED job
    BY <1>1
  <1>2. ASSUME NEW c \in Clients, Enqueue(c)
        PROVE  /\ DOMAIN job \subseteq DOMAIN job'
               /\ \A k \in DOMAIN job' : k \in DOMAIN job \/ (Past(k) /\ UNCHANGED account)
               /\ \A k \in DOMAIN job' : job'[k].state = "completed" =>
                    k \in DOMAIN job /\ job[k].state = "completed"
    <2> DEFINE k == req[c].key
    <2>1. k \in Key
      BY DEF TypeOK, Request
    <2>2. \/ UNCHANGED job
          \/ /\ QueueEmptyAt(k.library) /\ SameContext(k) /\ k \notin DOMAIN job
             /\ job' = Put(job, k, NewJob)
      BY <1>2 DEF Enqueue
    <2>3. CASE /\ QueueEmptyAt(k.library) /\ SameContext(k) /\ k \notin DOMAIN job
               /\ job' = Put(job, k, NewJob)
      <3>1. Past(k)
        BY <2>1, <2>3, FeedConstants DEF QueueEmptyAt, SameContext, FencedProfile, Past, TypeOK, Key
      <3>2. UNCHANGED account
        BY <1>2 DEF Enqueue
      <3>3. NewJob.state = "queued"
        BY DEF NewJob
      <3> HIDE DEF k
      <3> QED
        <4>1. /\ DOMAIN job' = DOMAIN job \cup {k}
              /\ job'[k] = NewJob
              /\ \A x \in DOMAIN job : x # k /\ job'[x] = job[x]
          BY <2>1, <2>3, PutJob, RecordTypes
        <4> QED
          BY <3>1, <3>2, <3>3, <4>1
    <2> QED
      BY <2>2, <2>3
  <1>3. ASSUME NEW w \in Workers, Claim(w)
        PROVE  /\ DOMAIN job' = DOMAIN job
               /\ \A k \in DOMAIN job : job'[k].state = "completed" => job[k].state = "completed"
    <2> DEFINE swept ==
          [k \in DOMAIN job |-> IF Exhausted(k) THEN Settled(k, "failed") ELSE job[k]]
    <2>1. /\ DOMAIN swept = DOMAIN job
          /\ \A k \in DOMAIN job : swept[k].state = "completed" => job[k].state = "completed"
      BY DEF Settled, TypeOK, Job
    <2>2. \/ job' = swept
          \/ \E k \in DOMAIN job :
               job' = [swept EXCEPT ![k] = [state |-> "running", owner |-> w,
                                            attempts |-> job[k].attempts + 1]]
      BY <1>3 DEF Claim
    <2> HIDE DEF swept
    <2> QED
      BY <2>1, <2>2
  <1>4. ASSUME NEW w \in Workers, Settle(w)
        PROVE  /\ DOMAIN job' = DOMAIN job
               /\ \A k \in DOMAIN job : job'[k].state = "completed" =>
                    \/ job[k].state = "completed"
                    \/ exec[w].at = "completed" /\ exec[w].key = k /\ UNCHANGED <<account, batch>>
    <2>1. exec[w].key \in DOMAIN job
      BY <1>4 DEF Settle, KeysArePast
    <2>2. PICK state :
            /\ state = "completed" => exec[w].at = "completed"
            /\ \/ UNCHANGED job
               \/ job' = [job EXCEPT ![exec[w].key] = Settled(exec[w].key, state)]
      <3> DEFINE state == IF exec[w].at # "retry" THEN exec[w].at
                          ELSE IF job[exec[w].key].attempts >= MaxAttempts THEN "failed" ELSE "queued"
      <3>1. state = "completed" => exec[w].at = "completed"
        OBVIOUS
      <3>2. \/ UNCHANGED job
            \/ job' = [job EXCEPT ![exec[w].key] = Settled(exec[w].key, state)]
        BY <1>4 DEF Settle
      <3> QED
        BY <3>1, <3>2
    <2>3. UNCHANGED <<account, batch>>
      BY <1>4 DEF Settle
    <2>4. Settled(exec[w].key, state).state = state
      BY <2>1 DEF Settled, TypeOK, Job
    <2> QED
      BY <2>1, <2>2, <2>3, <2>4 DEF TypeOK
  <1>5. ASSUME NEW k \in DOMAIN job, LeaseLapses(k)
        PROVE  /\ DOMAIN job' = DOMAIN job
               /\ \A x \in DOMAIN job : job'[x].state = "completed" => job[x].state = "completed"
    BY <1>5 DEF LeaseLapses, TypeOK, Job
  <1>6. \/ UNCHANGED job
        \/ \E c \in Clients : Enqueue(c)
        \/ \E w \in Workers : Claim(w) \/ Settle(w)
        \/ \E k \in DOMAIN job : LeaseLapses(k)
    BY DEF Next, vars, Change, LibraryChange, ProfileChange, ProfileReset, Feedback, SearchChange,
           Client, Snapshot, Prepare, ProveEmpty, Serve, Leave,
           Attempt, ReadContext, ReadHistory, PersistReady, AttemptFails, Crash
  <1> QED
    BY <1>1, <1>2, <1>3, <1>4, <1>5, <1>6

LEMMA WorkerMoves ==
    ASSUME TypeOK, [Next]_vars, NEW w \in Workers
    PROVE  \/ exec'[w] = exec[w]
           \/ exec'[w] = Idle
           \/ \E k \in DOMAIN job : exec'[w] = [at |-> "claimed", key |-> k, read |-> NothingRead]
           \/ ReadContext(w) \/ ReadHistory(w) \/ PersistReady(w) \/ AttemptFails(w)
  <1>1. CASE UNCHANGED exec
    BY <1>1
  <1>2. ASSUME NEW v \in Workers, Claim(v)
        PROVE  \/ exec'[w] = exec[w]
               \/ \E k \in DOMAIN job : exec'[w] = [at |-> "claimed", key |-> k, read |-> NothingRead]
    BY <1>2 DEF Claim, Works, TypeOK
  <1>3. ASSUME NEW v \in Workers, Settle(v) \/ Crash(v)
        PROVE  exec'[w] = exec[w] \/ exec'[w] = Idle
    BY <1>3 DEF Settle, Crash, TypeOK
  <1>4. ASSUME NEW v \in Workers, v # w,
               ReadContext(v) \/ ReadHistory(v) \/ PersistReady(v) \/ AttemptFails(v)
        PROVE  exec'[w] = exec[w]
    <2>1. PICK at, k, read : Works(v, at, k, read)
      BY <1>4 DEF ReadContext, ReadHistory, PersistReady, AttemptFails, Stale
    <2> QED
      BY <1>4, <2>1 DEF Works, TypeOK
  <1>5. \/ UNCHANGED exec
        \/ \E v \in Workers :
             \/ Claim(v) \/ Settle(v) \/ Crash(v)
             \/ ReadContext(v) \/ ReadHistory(v) \/ PersistReady(v) \/ AttemptFails(v)
    BY DEF Next, vars, Change, LibraryChange, ProfileChange, ProfileReset, Feedback, SearchChange,
           Client, Snapshot, Prepare, ProveEmpty, Enqueue, Serve, Leave, Attempt, LeaseLapses
  <1> QED
    BY <1>1, <1>2, <1>3, <1>4, <1>5

-----------------------------------------------------------------------------
(* The parts of the invariant.                                             *)

LEMMA PastStays ==
    ASSUME TypeOK, TypeOK', [Next]_vars, NEW k \in Key, Past(k)
    PROVE  Past(k)'
  <1>1. library.revision <= library'.revision /\ profile <= profile'
    BY AccountMoves
  <1>2. /\ library.revision \in Nat /\ library'.revision \in Nat
        /\ profile \in Nat /\ profile' \in Nat
        /\ k.library \in Nat /\ k.profile \in Nat \cup {NoProfile}
    BY DEF TypeOK, Key
  <1> QED
    BY <1>1, <1>2 DEF Past

LEMMA KeysStep ==
    ASSUME TypeOK, TypeOK', KeysArePast, [Next]_vars
    PROVE  KeysArePast'
  <1>1. ASSUME NEW k \in DOMAIN job' PROVE Past(k)'
    <2>1. k \in Key
      BY DEF TypeOK
    <2>2. Past(k)
      BY JobMoves DEF KeysArePast
    <2> QED
      BY <2>1, <2>2, PastStays
  <1>2. ASSUME NEW w \in Workers, exec'[w].at # "idle"
        PROVE  exec'[w].key \in DOMAIN job'
    <2>1. DOMAIN job \subseteq DOMAIN job'
      BY JobMoves
    <2>2. CASE exec'[w] = exec[w]
      BY <1>2, <2>1, <2>2 DEF KeysArePast
    <2>3. exec'[w] # Idle
      BY <1>2 DEF Idle
    <2>4. CASE \E k \in DOMAIN job : exec'[w] = [at |-> "claimed", key |-> k, read |-> NothingRead]
      BY <2>1, <2>4
    <2>5. CASE ReadContext(w) \/ ReadHistory(w) \/ PersistReady(w) \/ AttemptFails(w)
      <3>1. exec[w].at # "idle" /\ \E at, read : Works(w, at, exec[w].key, read)
        BY <2>5 DEF ReadContext, ReadHistory, PersistReady, AttemptFails, Stale
      <3>2. exec'[w].key = exec[w].key
        BY <3>1 DEF Works, TypeOK
      <3> QED
        BY <2>1, <3>1, <3>2 DEF KeysArePast
    <2> QED
      BY <2>2, <2>3, <2>4, <2>5, WorkerMoves
  <1> QED
    BY <1>1, <1>2 DEF KeysArePast

LEMMA ReadsStep ==
    ASSUME TypeOK, TypeOK', KeysArePast, ReadsAreOrdered, [Next]_vars
    PROVE  ReadsAreOrdered'
  <1> SUFFICES ASSUME NEW w \in Workers
               PROVE  Ordered(exec[w].at, exec[w].key, exec[w].read)'
    BY DEF ReadsAreOrdered
  <1> DEFINE k == exec[w].key  r == exec[w].read
  <1>0. k \in Key /\ r \in Content /\ Ordered(exec[w].at, k, r)
    BY ExecFields DEF ReadsAreOrdered
  <1>1. /\ library.revision \in Nat /\ library'.revision \in Nat
        /\ feedback \in Nat /\ feedback' \in Nat
        /\ k.library \in Nat /\ k.feedback \in Nat
        /\ r.library \in Nat /\ r.feedback \in Nat
    BY <1>0 DEF TypeOK, Key, Content
  <1>2. exec[w].at # "idle" => Past(k)
    BY DEF KeysArePast
  <1>3. CASE exec'[w] = exec[w]
    <2>1. library.revision <= library'.revision
      BY AccountMoves
    <2>2. exec[w].at # "idle" /\ k.profile = FencedProfile' =>
            k.profile = FencedProfile /\ feedback <= feedback'
      BY <1>0, <1>2, SameProfile, AccountMoves
    <2>3. exec[w].at \in {"context", "built"} => exec[w].at # "idle"
      OBVIOUS
    <2> QED
      BY <1>0, <1>1, <1>3, <2>1, <2>2, <2>3 DEF Ordered
  <1>4. CASE exec'[w] = Idle \/ exec'[w].at = "claimed"
    BY <1>4 DEF Idle, Ordered
  <1>5. CASE ReadContext(w)
    <2>1. PICK p \in {profile, NoProfile} :
            IF p = k.profile /\ searches = k.searches /\ feedback = k.feedback
            THEN Works(w, "context", k,
                       [r EXCEPT !.profile = p, !.library = library.revision])
            ELSE Stale(w)
      BY <1>5 DEF ReadContext
    <2>2. exec[w].at = "claimed" /\ UNCHANGED account
      BY <1>5 DEF ReadContext
    <2>3. CASE Works(w, "context", k, [r EXCEPT !.profile = p, !.library = library.revision])
               /\ p = k.profile /\ feedback = k.feedback
      <3>1. exec'[w] = [at |-> "context", key |-> k,
                        read |-> [r EXCEPT !.profile = p, !.library = library.revision]]
        BY <2>3 DEF Works, TypeOK
      <3>2. /\ exec'[w].read.profile = k.profile
            /\ exec'[w].read.library = library.revision
        <4>1. /\ [r EXCEPT !.profile = p, !.library = library.revision].profile = p
              /\ [r EXCEPT !.profile = p, !.library = library.revision].library = library.revision
          BY <1>0 DEF Content
        <4>2. exec'[w].read = [r EXCEPT !.profile = p, !.library = library.revision]
          BY <3>1
        <4> HIDE DEF k, r
        <4> QED
          BY <2>3, <4>1, <4>2
      <3>3. k.library <= library.revision
        BY <1>2, <2>2 DEF Past
      <3> QED
        BY <1>1, <2>2, <2>3, <3>1, <3>2, <3>3 DEF Ordered, account
    <2>4. CASE Stale(w)
      BY <2>4 DEF Stale, Works, TypeOK, Ordered
    <2> QED
      BY <2>1, <2>3, <2>4
  <1>6. CASE ReadHistory(w)
    <2>1. exec'[w] = [at |-> "built", key |-> k, read |-> [r EXCEPT !.feedback = feedback]]
      BY <1>6 DEF ReadHistory, Works, TypeOK
    <2>2. /\ exec'[w].read.profile = r.profile
          /\ exec'[w].read.library = r.library
          /\ exec'[w].read.feedback = feedback
      BY <1>0, <2>1 DEF Content
    <2>3. UNCHANGED account /\ exec[w].at = "context"
      BY <1>6 DEF ReadHistory
    <2>4. FencedProfile' = FencedProfile
      BY <2>3 DEF FencedProfile, account
    <2> QED
      BY <1>0, <1>1, <2>1, <2>2, <2>3, <2>4 DEF Ordered, account
  <1>7. CASE PersistReady(w) \/ AttemptFails(w)
    <2>1. \E at \in {"completed", "superseded", "retry"} : Works(w, at, k, r)
      BY <1>7 DEF PersistReady, AttemptFails, Stale, Outcome
    <2>2. exec'[w].at \in {"completed", "superseded", "retry"}
      BY <2>1 DEF Works, TypeOK
    <2> QED
      BY <2>2 DEF Ordered
  <1>8. (\E x \in DOMAIN job : exec'[w] = [at |-> "claimed", key |-> x, read |-> NothingRead])
          => exec'[w].at = "claimed"
    OBVIOUS
  <1> HIDE DEF k, r
  <1> QED
    BY <1>3, <1>4, <1>5, <1>6, <1>7, <1>8, WorkerMoves

LEMMA PublishedStep ==
    ASSUME TypeOK, TypeOK', PublishedIsFilled, [Next]_vars
    PROVE  PublishedIsFilled'
  <1> SUFFICES ASSUME NEW k \in DOMAIN batch', batch'[k].status \in {"ready", "served"}
               PROVE  batch'[k].content # NoContent
    BY DEF PublishedIsFilled, Published, Filled
  <1>1. ~ProfileReset
    BY DEF ProfileReset, NoRows
  <1>2. CASE k \in DOMAIN batch /\ Kept(k)
    BY <1>2 DEF Kept, PublishedIsFilled, Published, Filled
  <1>3. ~Header(k)
    BY DEF Header
  <1>4. ASSUME NEW w \in Workers, Publishes(k, w)
        PROVE  batch'[k].content # NoContent
    BY <1>4, ExecFields, FeedConstants DEF Publishes
  <1> QED
    BY <1>1, <1>2, <1>3, <1>4, BatchMoves

(* A batch that is filled stays so as long as its key can be asked for.    *)
LEMMA FilledStays ==
    ASSUME TypeOK, TypeOK', [Next]_vars, NEW k \in Key, Past(k), Filled(k),
           k.profile = FencedProfile'
    PROVE  Filled(k)'
  <1>1. profile' = profile
    BY SameProfile
  <1>2. ~ProfileReset
    BY <1>1 DEF ProfileReset, TypeOK
  <1> QED
    BY <1>2, BatchMoves DEF Filled, Kept

LEMMA FinishedStep ==
    ASSUME TypeOK, TypeOK', KeysArePast, PublishedIsFilled, FinishedIsFilled, [Next]_vars
    PROVE  FinishedIsFilled'
  <1> SUFFICES ASSUME NEW w \in Workers, exec'[w].at = "completed",
                      exec'[w].key.profile = FencedProfile'
               PROVE  Filled(exec[w].key)'
    BY DEF FinishedIsFilled
  <1> DEFINE k == exec[w].key
  <1>1. k \in Key
    BY ExecFields
  <1>2. exec[w].at # "idle" => Past(k)
    BY DEF KeysArePast
  <1>3. CASE exec'[w] = exec[w]
    <2>1. k.profile = FencedProfile /\ Past(k)
      BY <1>1, <1>2, <1>3, SameProfile
    <2>2. Filled(k)
      BY <1>3, <2>1 DEF FinishedIsFilled
    <2> QED
      BY <1>1, <1>3, <2>1, <2>2, FilledStays
  <1>4. CASE PersistReady(w)
    <2> DEFINE current == QueueEmptyAt(k.library) /\ SameContext(k)
    <2>1. exec'[w].key = k
      BY <1>4 DEF PersistReady, Works, Stale, TypeOK
    <2>2. \/ Published(k) /\ UNCHANGED batch
          \/ /\ k \notin DOMAIN batch
             /\ batch' = Put(batch, k, [status |-> "ready", content |-> exec[w].read])
      <3>1. \A at : Works(w, at, k, exec[w].read) => at = "completed"
        BY DEF Works, TypeOK
      <3> QED
        BY <1>4, <3>1 DEF PersistReady, Stale, Outcome, Existing
    <2>3. CASE Published(k) /\ UNCHANGED batch
      BY <2>1, <2>3 DEF PublishedIsFilled, Published, Filled
    <2>4. CASE /\ k \notin DOMAIN batch
               /\ batch' = Put(batch, k, [status |-> "ready", content |-> exec[w].read])
      <3>1. exec[w].read \in Content /\ exec[w].read # NoContent
        BY ExecFields, FeedConstants
      <3>2. [status |-> "ready", content |-> exec[w].read] \in Batch
        BY <3>1 DEF Batch
      <3>3. k \in DOMAIN batch' /\ batch'[k].content = exec[w].read
        <4> DEFINE v == [status |-> "ready", content |-> exec[w].read]
        <4>1. v \in Batch /\ k \notin DOMAIN batch /\ batch' = Put(batch, k, v)
          BY <2>4, <3>2
        <4>2. v.content = exec[w].read
          OBVIOUS
        <4> HIDE DEF k, v
        <4>3. DOMAIN batch' = DOMAIN batch \cup {k} /\ batch'[k] = v
          BY <1>1, <4>1, BatchAdded
        <4> QED
          BY <4>2, <4>3
      <3> QED
        BY <2>1, <3>1, <3>3 DEF Filled
    <2> QED
      BY <2>2, <2>3, <2>4
  <1>5. CASE ReadContext(w) \/ ReadHistory(w) \/ AttemptFails(w)
    <2>1. \E at \in {"context", "built", "superseded", "retry"} : \E read : Works(w, at, k, read)
      BY <1>5 DEF ReadContext, ReadHistory, AttemptFails, Stale
    <2> QED
      BY <2>1 DEF Works, TypeOK
  <1>6. exec'[w] # Idle
    BY DEF Idle
  <1>7. ASSUME NEW x \in DOMAIN job,
               exec'[w] = [at |-> "claimed", key |-> x, read |-> NothingRead]
        PROVE  FALSE
    <2>1. exec'[w].at = "claimed"
      BY <1>7
    <2> QED
      BY <2>1
  <1> HIDE DEF k
  <1> QED
    BY <1>3, <1>4, <1>5, <1>6, <1>7, WorkerMoves

LEMMA ReadyStep ==
    ASSUME TypeOK, TypeOK', ReadyIsCurrent, [Next]_vars
    PROVE  ReadyIsCurrent'
  <1> SUFFICES ASSUME NEW k \in DOMAIN batch', batch'[k].status = "ready"
               PROVE  /\ library' = [revision |-> k.library, active |-> FALSE]
                      /\ k.feedback = feedback'
                      /\ k.profile = FencedProfile'
    BY DEF ReadyIsCurrent
  <1>1. ~ProfileReset
    BY DEF ProfileReset, NoRows
  <1>2. CASE k \in DOMAIN batch /\ Kept(k)
    <2>1. /\ library = [revision |-> k.library, active |-> FALSE]
          /\ k.feedback = feedback
          /\ k.profile = FencedProfile
      BY <1>2 DEF ReadyIsCurrent, Kept
    <2>2. UNCHANGED <<library, feedback, profile>>
      <3>1. ~LibraryChange
        <4>1. ASSUME LibraryChange PROVE k.library = library'.revision
          BY <1>2, <4>1, SupersededType DEF LibraryChange, TypeOK
        <4>2. ASSUME LibraryChange PROVE library'.revision = library.revision + 1
          BY <4>2 DEF LibraryChange
        <4>3. library.revision = k.library /\ library.revision \in Nat
          BY <2>1 DEF TypeOK
        <4> QED
          BY <4>1, <4>2, <4>3
      <3>2. ~ProfileChange
        <4>1. ASSUME ProfileChange PROVE k.profile = profile' /\ profile' = profile + 1
          BY <1>2, <4>1, SupersededType DEF ProfileChange, TypeOK
        <4> QED
          BY <2>1, <4>1, FeedConstants DEF FencedProfile, TypeOK
      <3>3. ~Feedback
        <4>1. ASSUME Feedback PROVE k.feedback = feedback' /\ feedback' = feedback + 1
          BY <1>2, <4>1, SupersededType DEF Feedback, TypeOK
        <4> QED
          BY <2>1, <4>1 DEF TypeOK
      <3>4. CASE SearchChange
        BY <3>4 DEF SearchChange
      <3>5. UNCHANGED account \/ Change
        BY DEF Next, vars, account, Client, Snapshot, Prepare, ProveEmpty, Enqueue, Serve, Leave,
               Claim, Attempt, ReadContext, ReadHistory, PersistReady, AttemptFails, Settle, Crash,
               LeaseLapses
      <3> QED
        BY <1>1, <3>1, <3>2, <3>3, <3>4, <3>5 DEF Change, account
    <2> QED
      BY <2>1, <2>2 DEF FencedProfile
  <1>3. ~Header(k)
    BY DEF Header
  <1>4. ASSUME NEW w \in Workers, Publishes(k, w)
        PROVE  /\ library' = [revision |-> k.library, active |-> FALSE]
               /\ k.feedback = feedback'
               /\ k.profile = FencedProfile'
    BY <1>4 DEF Publishes, QueueEmptyAt, SameContext, FencedProfile, account, TypeOK
  <1> QED
    BY <1>1, <1>2, <1>3, <1>4, BatchMoves

LEMMA LabelStep ==
    ASSUME TypeOK, TypeOK', ReadsAreOrdered, BuiltAsLabelled, [Next]_vars
    PROVE  BuiltAsLabelled'
  <1> SUFFICES ASSUME NEW k \in DOMAIN batch', batch'[k].content # NoContent
               PROVE  batch'[k].content = [library |-> k.library, feedback |-> k.feedback,
                                           profile |-> k.profile]
    BY DEF BuiltAsLabelled
  <1>1. ~ProfileReset
    BY DEF ProfileReset, NoRows
  <1>2. CASE k \in DOMAIN batch /\ Kept(k)
    BY <1>2 DEF Kept, BuiltAsLabelled
  <1>3. ~Header(k)
    BY DEF Header
  <1>4. ASSUME NEW w \in Workers, Publishes(k, w)
        PROVE  batch'[k].content = [library |-> k.library, feedback |-> k.feedback,
                                    profile |-> k.profile]
    <2> DEFINE r == exec[w].read
    <2>1. k \in Key /\ r \in Content
      BY <1>4, ExecFields DEF Publishes
    <2>2. /\ r.profile = k.profile
          /\ k.library <= r.library /\ r.library <= library.revision
          /\ k.profile = FencedProfile => k.feedback <= r.feedback /\ r.feedback <= feedback
      BY <1>4 DEF Publishes, ReadsAreOrdered, Ordered
    <2>3. library.revision = k.library /\ k.feedback = feedback /\ k.profile = FencedProfile
      BY <1>4 DEF Publishes, QueueEmptyAt, SameContext
    <2>4. r.library = k.library /\ r.feedback = k.feedback
      BY <2>1, <2>2, <2>3 DEF Key, Content
    <2>5. r = [library |-> k.library, feedback |-> k.feedback, profile |-> k.profile]
      BY <2>1, <2>2, <2>4 DEF Content
    <2> QED
      BY <1>4, <2>5 DEF Publishes
  <1> QED
    BY <1>1, <1>2, <1>3, <1>4, BatchMoves

LEMMA CompletedStep ==
    ASSUME TypeOK, TypeOK', KeysArePast, FinishedIsFilled, CompletedIsPublished, [Next]_vars
    PROVE  CompletedIsPublished'
  <1> SUFFICES ASSUME NEW k \in DOMAIN job', job'[k].state = "completed",
                      k.profile = FencedProfile'
               PROVE  Filled(k)'
    BY DEF CompletedIsPublished, Filled
  <1>1. k \in Key
    BY DEF TypeOK
  <1>2. Past(k)
    BY JobMoves DEF KeysArePast
  <1>3. k.profile = FencedProfile
    BY <1>1, <1>2, SameProfile
  <1>4. CASE k \in DOMAIN job /\ job[k].state = "completed"
    <2>1. Filled(k)
      BY <1>3, <1>4 DEF CompletedIsPublished, Filled
    <2> QED
      BY <1>1, <1>2, <2>1, FilledStays
  <1>5. ASSUME NEW w \in Workers, exec[w].at = "completed", exec[w].key = k,
               UNCHANGED <<account, batch>>
        PROVE  Filled(k)'
    BY <1>3, <1>5 DEF FinishedIsFilled, Filled
  <1> QED
    BY <1>4, <1>5, JobMoves

-----------------------------------------------------------------------------
(* The invariant and what follows from it.                                 *)

LEMMA InvInit == Init => IInv
  <1> SUFFICES ASSUME Init PROVE IInv
    OBVIOUS
  <1>1. TypeOK
    BY TypeInit
  <1>2. DOMAIN batch = {} /\ DOMAIN job = {}
    BY DEF Init, NoRows
  <1>3. \A w \in Workers : exec[w].at = "idle"
    BY DEF Init, Idle
  <1> QED
    BY <1>1, <1>2, <1>3
    DEF IInv, KeysArePast, ReadsAreOrdered, Ordered, PublishedIsFilled, FinishedIsFilled,
        ReadyIsCurrent, BuiltAsLabelled, CompletedIsPublished

LEMMA InvNext == IInv /\ [Next]_vars => IInv'
  <1> SUFFICES ASSUME IInv, [Next]_vars PROVE IInv'
    OBVIOUS
  <1>1. TypeOK'
    BY TypeStep DEF IInv
  <1> QED
    BY <1>1, KeysStep, ReadsStep, PublishedStep, FinishedStep, ReadyStep, LabelStep, CompletedStep
    DEF IInv

(* The inductive invariant holds, for any number of requests and workers.  *)
THEOREM FeedInvariant == Spec => []IInv
  <1> QED
    BY InvInit, InvNext, PTL DEF Spec

(* Every state of the program has the types of TypeOK: in particular no    *)
(* job is attempted more often than it may be.                             *)
THEOREM FeedTypeCorrect == Spec => []TypeOK
  <1>1. IInv => TypeOK
    BY DEF IInv
  <1> QED
    BY <1>1, FeedInvariant, PTL

(* What waits to be served is of the present library, feedback and         *)
(* profile, and there is nothing to be read.                               *)
THEOREM ReadyBatchesAreCurrent == Spec => []ReadyIsCurrent
  <1>1. IInv => ReadyIsCurrent
    BY DEF IInv
  <1> QED
    BY <1>1, FeedInvariant, PTL

(* A batch was built from the revisions in its key.                        *)
THEOREM BatchesAreAsLabelled == Spec => []BuiltAsLabelled
  <1>1. IInv => BuiltAsLabelled
    BY DEF IInv
  <1> QED
    BY <1>1, FeedInvariant, PTL

(* A completed job that can be asked for has its batch.                    *)
THEOREM CompletedJobsHaveBatches == Spec => []CompletedIsPublished
  <1>1. IInv => CompletedIsPublished
    BY DEF IInv
  <1> QED
    BY <1>1, FeedInvariant, PTL

(* The page of a step that serves one.                                     *)
CurrentPages ==
    \A c \in Clients : req'[c].at = "served" /\ req[c].at # "served" =>
        /\ library = [revision |-> req'[c].page.library, active |-> FALSE]
        /\ req'[c].page.feedback = feedback
        /\ req'[c].page.profile = FencedProfile

LEMMA ServedStep == IInv /\ [Next]_vars => CurrentPages
  <1> SUFFICES ASSUME IInv, [Next]_vars, NEW c \in Clients,
                      req'[c].at = "served", req[c].at # "served"
               PROVE  /\ library = [revision |-> req'[c].page.library, active |-> FALSE]
                      /\ req'[c].page.feedback = feedback
                      /\ req'[c].page.profile = FencedProfile
    BY DEF CurrentPages
  <1> DEFINE k == req[c].key
  <1>1. TypeOK
    BY DEF IInv
  <1>2. Serve(c) /\ req'[c].at = "served"
    <2>1. PICK d \in Clients : Client(d)
      BY DEF Next, vars, Change, LibraryChange, ProfileChange, ProfileReset, Feedback, SearchChange,
             Claim, Attempt, ReadContext, ReadHistory, PersistReady, AttemptFails, Settle, Crash,
             LeaseLapses
    <2>2. \E r : Goes(d, r)
      BY <2>1 DEF Client, Snapshot, Prepare, ProveEmpty, Enqueue, Serve, Leave, Ends
    <2>3. d = c
      BY <1>1, <2>2 DEF Goes, TypeOK
    <2>4. ASSUME Snapshot(c) \/ Prepare(c) \/ ProveEmpty(c) \/ Enqueue(c) \/ Leave(c)
          PROVE  FALSE
      <3>1. \A r : Goes(c, r) => req'[c] = r
        BY <1>1 DEF Goes, TypeOK
      <3>2. ~Ends(c)
        BY <3>1 DEF Ends, NoRequest
      <3>3. req[c] \in Request
        BY <1>1 DEF TypeOK
      <3>4. ~Snapshot(c)
        BY <3>1 DEF Snapshot, NoRequest
      <3>5. ~Prepare(c)
        BY <3>1, <3>3 DEF Prepare, Request
      <3>6. ~Goes(c, NoRequest)
        BY <3>2 DEF Ends
      <3>7. ~ProveEmpty(c)
        BY <3>1, <3>2, <3>3, <3>6 DEF ProveEmpty, Request
      <3>8. ~Enqueue(c)
        BY <3>1, <3>2, <3>3, <3>6 DEF Enqueue, Request
      <3>9. ~Leave(c)
        BY <3>2 DEF Leave
      <3> QED
        BY <2>4, <3>4, <3>5, <3>7, <3>8, <3>9
    <2> QED
      BY <2>1, <2>3, <2>4 DEF Client
  <1>3. /\ QueueEmptyAt(req[c].library)
        /\ Published(k) /\ k.library = req[c].library /\ SameContext(k)
        /\ Goes(c, [NoRequest EXCEPT !.at = "served", !.page = batch[k].content])
    BY <1>1, <1>2 DEF Serve, Ends, Goes, NoRequest, TypeOK
  <1>4. req'[c].page = batch[k].content
    BY <1>1, <1>3 DEF Goes, NoRequest, TypeOK
  <1>5. batch[k].content = [library |-> k.library, feedback |-> k.feedback, profile |-> k.profile]
    BY <1>3 DEF IInv, PublishedIsFilled, Published, Filled, BuiltAsLabelled
  <1> QED
    BY <1>1, <1>3, <1>4, <1>5 DEF QueueEmptyAt, SameContext, TypeOK

(* No page goes out that was built from anything but the present account.  *)
THEOREM ServedPagesAreCurrent == Spec => PagesAreCurrent
  <1>1. IInv /\ [Next]_vars => [CurrentPages]_vars
    BY ServedStep
  <1> QED
    BY <1>1, FeedInvariant, PTL DEF Spec, PagesAreCurrent, CurrentPages

(* What a batch consists of, and that it is over, is settled for good.     *)
THEOREM SettledBatchesStay == Spec => BatchesAreImmutable
  <1>1. IInv /\ [Next]_vars =>
          [\A k \in DOMAIN batch \cap DOMAIN batch' :
             /\ batch'[k].content = batch[k].content
             /\ batch[k].status \in {"served", "superseded"} =>
                  batch'[k].status = batch[k].status]_vars
    <2> SUFFICES ASSUME IInv, [Next]_vars, NEW k \in DOMAIN batch \cap DOMAIN batch'
                 PROVE  /\ batch'[k].content = batch[k].content
                        /\ batch[k].status \in {"served", "superseded"} =>
                             batch'[k].status = batch[k].status
      OBVIOUS
    <2>1. TypeOK
      BY DEF IInv
    <2>2. ~ProfileReset
      BY DEF ProfileReset, NoRows
    <2> QED
      BY <2>1, <2>2, BatchMoves DEF Kept
  <1> QED
    BY <1>1, FeedInvariant, PTL DEF Spec, BatchesAreImmutable
=============================================================================
