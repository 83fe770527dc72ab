------------------------- MODULE RecommendationFeed -------------------------
(***************************************************************************)
(* The recommendation feed of one account: pages asked for through the     *)
(* reading feed (db/src/repository/reading_feed.rs and                     *)
(* apps/api/src/recommendation_source.rs), batches generated by workers of *)
(* a queue of their own (db/src/repository/recommendation_jobs.rs), and    *)
(* the fences that bind a batch to what it was built from                  *)
(* (db/src/repository/recommendations.rs).                                 *)
(*                                                                         *)
(* One query of one day and one page of candidates. What a batch is built  *)
(* from is the union of what the modes read: saved searches belong to      *)
(* Following, the history of dismissals to For You. The                    *)
(* transactions below lock the account's row, its library revision and its *)
(* feedback revision, so each is one step; reads outside them are steps of *)
(* their own, unless they are of unrelated rows. A batch and the job that  *)
(* builds it are one per key: what the fingerprint and the index make of   *)
(* the revisions they were asked for.                                      *)
(***************************************************************************)
EXTENDS Naturals

CONSTANTS
    Clients,       \* requests of the account that may be served at a time
    Workers,       \* generation workers, one per API process
    NoWorker,      \* the owner of a job without a lease
    NoProfile,     \* the profile revision of an account without a profile row
    NoContent,     \* the candidates of a batch that is only a header
    MaxAttempts,   \* attempts of a generation job
    MaxChanges     \* bound: changes of the account

VARIABLES
    library,    \* the library's revision, and whether papers are to be read
    feedback,   \* the feedback revision
    profile,    \* the profile revision; 0 when there is no profile row
    searches,   \* the saved searches, as their digest tells them apart
    changes,    \* changes so far
    batch,      \* recommendation_batches: the rows, by key
    job,        \* recommendation_generation_jobs: the rows, by key
    req,        \* what each client's request has come to
    exec        \* what each worker is doing

account == <<library, feedback, profile, searches, changes>>
vars == <<library, feedback, profile, searches, changes, batch, job, req, exec>>

\* The revisions a batch is asked for by, and what it was really built from.
Key == [library: Nat, feedback: Nat, profile: Nat \cup {NoProfile}, searches: Nat]
Content == [library: Nat, feedback: Nat, profile: Nat \cup {NoProfile}]

ASSUME FeedConstants ==
    /\ NoWorker \notin Workers
    /\ NoProfile \notin Nat
    /\ NoContent \notin Content
    /\ MaxAttempts \in Nat \ {0}
    /\ MaxChanges \in Nat

NoKey == [library |-> 0, feedback |-> 0, profile |-> NoProfile, searches |-> 0]
NothingRead == [library |-> 0, feedback |-> 0, profile |-> NoProfile]

Batch == [status: {"blocked", "ready", "served", "superseded"},
          content: Content \cup {NoContent}]
Job == [state: {"queued", "running", "completed", "superseded", "failed"},
        attempts: 0..MaxAttempts, owner: Workers \cup {NoWorker}]
Request == [at: {"idle", "snapshot", "prepared", "missing", "found", "served"},
            library: Nat, key: Key, page: Content]
Exec == [at: {"idle", "claimed", "context", "built", "completed", "superseded", "retry"},
         key: Key, read: Content]

NoRequest == [at |-> "idle", library |-> 0, key |-> NoKey, page |-> NothingRead]
Idle == [at |-> "idle", key |-> NoKey, read |-> NothingRead]

Put(f, k, v) == [x \in DOMAIN f \cup {k} |-> IF x = k THEN v ELSE f[x]]
NoRows == [k \in {} |-> {}]

(***************************************************************************)
(* The fences                                                              *)
(***************************************************************************)
\* The fences read the profile's row, and there may be none.
FencedProfile == IF profile = 0 THEN NoProfile ELSE profile

\* mutants
FeedbackUnfenced(k) == k.profile = FencedProfile /\ k.searches = searches
ProfileUnfenced(k) == k.feedback = feedback /\ k.searches = searches

SameContext(k) ==
    /\ k.feedback = feedback
    /\ k.profile = FencedProfile
    /\ k.searches = searches

QueueEmptyAt(revision) == library.revision = revision /\ ~library.active

Superseded(stale) ==
    [k \in DOMAIN batch |->
        IF k \in stale /\ batch[k].status = "ready"
        THEN [batch[k] EXCEPT !.status = "superseded"] ELSE batch[k]]

Published(k) == k \in DOMAIN batch /\ batch[k].status \in {"ready", "served"}

(***************************************************************************)
(* The account changes                                                     *)
(***************************************************************************)
Changed == changes < MaxChanges /\ changes' = changes + 1

\* mutant
LibraryChangeKeepsBatches ==
    /\ Changed
    /\ \E active \in BOOLEAN:
         library' = [revision |-> library.revision + 1, active |-> active]
    /\ UNCHANGED <<feedback, profile, searches, batch, job, req, exec>>

LibraryChange ==
    /\ Changed
    /\ \E active \in BOOLEAN:
         library' = [revision |-> library.revision + 1, active |-> active]
    /\ batch' = Superseded({k \in DOMAIN batch: k.library # library'.revision})
    /\ UNCHANGED <<feedback, profile, searches, job, req, exec>>

ProfileChange ==
    /\ Changed
    /\ profile' = profile + 1
    /\ batch' = Superseded({k \in DOMAIN batch: k.profile # profile'})
    /\ UNCHANGED <<library, feedback, searches, job, req, exec>>

\* mutant
ResetKeepsRevision ==
    /\ Changed
    /\ feedback' = 0
    /\ batch' = NoRows
    /\ UNCHANGED <<library, profile, searches, job, req, exec>>

\* Reset all: the feedback and its revision go, and the batches; not the jobs.
ProfileReset ==
    /\ Changed
    /\ profile' = profile + 1
    /\ feedback' = 0
    /\ batch' = NoRows
    /\ UNCHANGED <<library, searches, job, req, exec>>

\* Feedback on some batch of the account; if it is positive and the account
\* has a profile with personalization, the profile changes with it.
Feedback ==
    /\ Changed
    /\ feedback' = feedback + 1
    /\ profile' \in IF profile = 0 THEN {0} ELSE {profile, profile + 1}
    /\ batch' = Superseded({k \in DOMAIN batch:
                    \/ k.feedback # feedback'
                    \/ profile' # profile /\ k.profile # profile'})
    /\ UNCHANGED <<library, searches, job, req, exec>>

\* A search is saved or deleted: nothing is superseded.
SearchChange ==
    /\ Changed
    /\ searches' \in {0, changes'} \ {searches}
    /\ UNCHANGED <<library, feedback, profile, batch, job, req, exec>>

(***************************************************************************)
(* A request for a page                                                    *)
(***************************************************************************)
Goes(c, r) == req' = [req EXCEPT ![c] = r]
Ends(c) == Goes(c, NoRequest)

\* The snapshot decides between the queue and recommendations, and authorizes
\* the candidates of this library revision.
Snapshot(c) ==
    /\ req[c].at = "idle"
    /\ ~library.active
    /\ Goes(c, [NoRequest EXCEPT !.at = "snapshot", !.library = library.revision])
    /\ UNCHANGED <<account, batch, job, exec>>

\* The revisions as they are read outside any lock. An account without a
\* profile row reads revision 0; a profile that cannot be read counts as none.
Prepare(c) ==
    /\ req[c].at = "snapshot"
    /\ \E p \in {profile, NoProfile}:
         Goes(c, [req[c] EXCEPT
                    !.at = "prepared",
                    !.key = [library |-> req[c].library, feedback |-> feedback,
                             profile |-> p, searches |-> searches]])
    /\ UNCHANGED <<account, batch, job, exec>>

\* The batch is looked up under the library's present revision, the request's
\* own revision is compared only when there is none.
ProveEmpty(c) ==
    LET k == [req[c].key EXCEPT !.library = library.revision] IN
    /\ req[c].at = "prepared"
    /\ UNCHANGED <<account, job, exec>>
    /\ \/ /\ ~SameContext(k)
          /\ Ends(c)
          /\ UNCHANGED batch
       \/ /\ SameContext(k)
          /\ k \in DOMAIN batch
          /\ Goes(c, IF Published(k)
                     THEN [req[c] EXCEPT !.at = "found", !.key = k] ELSE NoRequest)
          /\ UNCHANGED batch
       \/ /\ SameContext(k)
          /\ k \notin DOMAIN batch
          /\ ~library.active
          /\ Goes(c, IF library.revision = req[c].library
                     THEN [req[c] EXCEPT !.at = "missing"] ELSE NoRequest)
          /\ UNCHANGED batch
       \/ /\ SameContext(k)
          /\ k \notin DOMAIN batch
          /\ library.active
          /\ Ends(c)
          /\ batch' = Put(batch, k, [status |-> "blocked", content |-> NoContent])

NewJob == [state |-> "queued", attempts |-> 0, owner |-> NoWorker]

\* A job is recorded, or what has become of it decides.
Enqueue(c) ==
    LET k == req[c].key IN
    /\ req[c].at = "missing"
    /\ UNCHANGED <<account, batch, exec>>
    /\ \/ /\ ~(QueueEmptyAt(k.library) /\ SameContext(k))
          /\ Ends(c)
          /\ UNCHANGED job
       \/ /\ QueueEmptyAt(k.library) /\ SameContext(k)
          /\ k \notin DOMAIN job
          /\ job' = Put(job, k, NewJob)
          /\ Ends(c)
       \/ /\ QueueEmptyAt(k.library) /\ SameContext(k)
          /\ k \in DOMAIN job
          /\ Goes(c, IF job[k].state = "completed"
                     THEN [req[c] EXCEPT !.at = "found"] ELSE NoRequest)
          /\ UNCHANGED job

\* Both mismatches supersede the batch, the request's as well as the batch's.
Serve(c) ==
    LET k == req[c].key IN
    /\ req[c].at = "found"
    /\ UNCHANGED <<account, job, exec>>
    /\ \/ /\ \/ ~QueueEmptyAt(req[c].library)
             \/ Published(k) /\ ~(k.library = req[c].library /\ SameContext(k))
          /\ batch' = Superseded({k})
          /\ Ends(c)
       \/ /\ QueueEmptyAt(req[c].library)
          /\ ~Published(k)
          /\ Ends(c)
          /\ UNCHANGED batch
       \/ /\ QueueEmptyAt(req[c].library)
          /\ Published(k) /\ k.library = req[c].library /\ SameContext(k)
          /\ batch' = [batch EXCEPT ![k].status = "served"]
          /\ Goes(c, [NoRequest EXCEPT !.at = "served", !.page = batch[k].content])

\* The answer goes out, or the request fails in the middle.
Leave(c) ==
    /\ req[c].at # "idle"
    /\ Ends(c)
    /\ UNCHANGED <<account, batch, job, exec>>

(***************************************************************************)
(* A generation worker                                                     *)
(***************************************************************************)
Works(w, at, k, read) == exec' = [exec EXCEPT ![w] = [at |-> at, key |-> k, read |-> read]]
Stale(w) == Works(w, "superseded", exec[w].key, exec[w].read)

\* Of a lease it is only kept who holds it while it is live.
Lapsed(k) == job[k].state = "running" /\ job[k].owner = NoWorker
\* mutant
ClaimableForever(k) == job[k].state = "queued" \/ Lapsed(k)

Claimable(k) == job[k].attempts < MaxAttempts /\ (job[k].state = "queued" \/ Lapsed(k))
Exhausted(k) == job[k].attempts >= MaxAttempts /\ Lapsed(k)

Settled(k, state) ==
    [job[k] EXCEPT !.state = state, !.owner = NoWorker]

\* The jobs whose last attempt was lost are failed, then a due one is taken.
Claim(w) ==
    LET swept == [k \in DOMAIN job |-> IF Exhausted(k) THEN Settled(k, "failed") ELSE job[k]] IN
    /\ exec[w].at = "idle"
    /\ UNCHANGED <<account, batch, req>>
    /\ \/ \E k \in DOMAIN job:
             /\ Claimable(k)
             /\ job' = [swept EXCEPT ![k] = [state |-> "running", owner |-> w,
                                             attempts |-> job[k].attempts + 1]]
             /\ Works(w, "claimed", k, NothingRead)
       \/ /\ \A k \in DOMAIN job: ~Claimable(k)
          /\ \E k \in DOMAIN job: Exhausted(k)
          /\ job' = swept
          /\ UNCHANGED exec

\* The profile with the reviewed papers it is ranked with, the saved searches
\* and the feedback revision; a profile that cannot be read counts as none.
ReadContext(w) ==
    LET k == exec[w].key IN
    /\ exec[w].at = "claimed"
    /\ \E p \in {profile, NoProfile}:
         IF p = k.profile /\ searches = k.searches /\ feedback = k.feedback
         THEN Works(w, "context", k,
                    [exec[w].read EXCEPT !.profile = p, !.library = library.revision])
         ELSE Stale(w)
    /\ UNCHANGED <<account, batch, job, req>>

\* What was dismissed is read after its revision, and the batch is built.
ReadHistory(w) ==
    /\ exec[w].at = "context"
    /\ Works(w, "built", exec[w].key, [exec[w].read EXCEPT !.feedback = feedback])
    /\ UNCHANGED <<account, batch, job, req>>

\* mutant
ReadyExisting(k) == k \in DOMAIN batch /\ batch[k].status = "ready"

\* The lookup is by key, whatever the batch's status.
Existing(k) == k \in DOMAIN batch

Outcome(k) ==
    CASE Published(k) -> "completed"
      [] batch[k].status = "superseded" -> "superseded"
      [] OTHER -> "retry"

\* A batch whose fence fails is recorded as superseded. That fails in its turn
\* where there is a row already, and so does the attempt.
PersistReady(w) ==
    LET k == exec[w].key
        current == QueueEmptyAt(k.library) /\ SameContext(k) IN
    /\ exec[w].at = "built"
    /\ UNCHANGED <<account, job, req>>
    /\ \/ /\ ~current /\ k \notin DOMAIN batch
          /\ batch' = Put(batch, k, [status |-> "superseded", content |-> NoContent])
          /\ Stale(w)
       \/ /\ ~current /\ k \in DOMAIN batch
          /\ Works(w, "retry", k, exec[w].read)
          /\ UNCHANGED batch
       \/ /\ current /\ Existing(k)
          /\ Works(w, Outcome(k), k, exec[w].read)
          /\ UNCHANGED batch
       \/ /\ current /\ ~Existing(k)
          /\ batch' = Put(batch, k, [status |-> "ready", content |-> exec[w].read])
          /\ Works(w, "completed", k, exec[w].read)

\* Any read or write of an attempt may fail.
AttemptFails(w) ==
    /\ exec[w].at \in {"claimed", "context", "built"}
    /\ Works(w, "retry", exec[w].key, exec[w].read)
    /\ UNCHANGED <<account, batch, job, req>>

Holds(w, k) == job[k].state = "running" /\ job[k].owner = w

\* The row moves only under the lease of its worker.
Settle(w) ==
    LET k == exec[w].key
        state == IF exec[w].at # "retry" THEN exec[w].at
                 ELSE IF job[k].attempts >= MaxAttempts THEN "failed" ELSE "queued" IN
    /\ exec[w].at \in {"completed", "superseded", "retry"}
    /\ job' = IF Holds(w, k) THEN [job EXCEPT ![k] = Settled(k, state)] ELSE job
    /\ exec' = [exec EXCEPT ![w] = Idle]
    /\ UNCHANGED <<account, batch, req>>

\* The process ends; what it held stays held until the lease runs out.
Crash(w) ==
    /\ exec[w].at # "idle"
    /\ exec' = [exec EXCEPT ![w] = Idle]
    /\ UNCHANGED <<account, batch, job, req>>

\* Nothing renews a lease: it runs out, under a live worker too.
LeaseLapses(k) ==
    /\ k \in DOMAIN job
    /\ job[k].owner # NoWorker
    /\ job' = [job EXCEPT ![k].owner = NoWorker]
    /\ UNCHANGED <<account, batch, req, exec>>

(***************************************************************************)
(* The specification                                                       *)
(***************************************************************************)
Init ==
    /\ library = [revision |-> 0, active |-> FALSE]
    /\ feedback = 0
    /\ profile \in {0, 1}
    /\ searches = 0
    /\ changes = 0
    /\ batch = NoRows
    /\ job = NoRows
    /\ req = [c \in Clients |-> NoRequest]
    /\ exec = [w \in Workers |-> Idle]

Change == LibraryChange \/ ProfileChange \/ ProfileReset \/ Feedback \/ SearchChange
Client(c) == Snapshot(c) \/ Prepare(c) \/ ProveEmpty(c) \/ Enqueue(c) \/ Serve(c) \/ Leave(c)
Attempt(w) ==
    ReadContext(w) \/ ReadHistory(w) \/ PersistReady(w)
        \/ AttemptFails(w) \/ Settle(w) \/ Crash(w)

Next ==
    \/ Change
    \/ \E c \in Clients: Client(c)
    \/ \E w \in Workers: Claim(w) \/ Attempt(w)
    \/ \E k \in DOMAIN job: LeaseLapses(k)

Spec == Init /\ [][Next]_vars

(***************************************************************************)
(* Properties                                                              *)
(***************************************************************************)
\* Types of the account's revisions, of the rows and of what is in flight.
TypeOK ==
    /\ library \in [revision: Nat, active: BOOLEAN]
    /\ feedback \in Nat /\ profile \in Nat /\ searches \in Nat /\ changes \in Nat
    /\ DOMAIN batch \subseteq Key /\ batch \in [DOMAIN batch -> Batch]
    /\ DOMAIN job \subseteq Key /\ job \in [DOMAIN job -> Job]
    /\ req \in [Clients -> Request]
    /\ exec \in [Workers -> Exec]

\* A batch that waits to be served is of the present library, with nothing to
\* read in it, of the present feedback and of the present profile: whoever
\* changes one of them supersedes what was ready (library.rs:1006,
\* recommendations.rs:364, research_profiles.rs:707), however the change and
\* the generation interleave.
ReadyIsCurrent ==
    \A k \in DOMAIN batch: batch[k].status = "ready" =>
        /\ library = [revision |-> k.library, active |-> FALSE]
        /\ k.feedback = feedback
        /\ k.profile = FencedProfile

\* A batch was built from the very revisions it is found by, although the
\* worker reads them one by one, under a lease it may have lost.
BuiltAsLabelled ==
    \A k \in DOMAIN batch: batch[k].content # NoContent =>
        batch[k].content = [library |-> k.library, feedback |-> k.feedback,
                            profile |-> k.profile]

\* No page goes out, to whichever request, that was ranked from another
\* library, feedback or profile than the account has at that moment, or while
\* there is something to read (recommendations.rs:486-513).
PagesAreCurrent ==
    [][\A c \in Clients: req'[c].at = "served" /\ req[c].at # "served" =>
         /\ library = [revision |-> req'[c].page.library, active |-> FALSE]
         /\ req'[c].page.feedback = feedback
         /\ req'[c].page.profile = FencedProfile]_vars

\* A batch that is superseded or served stays so, and what a batch consists of
\* never changes, whatever attempt is repeated (docs/reading-feed.md:262).
BatchesAreImmutable ==
    [][\A k \in DOMAIN batch \cap DOMAIN batch':
         /\ batch'[k].content = batch[k].content
         /\ batch[k].status \in {"served", "superseded"} =>
              batch'[k].status = batch[k].status]_vars

\* A completed job has a batch, as long as the account can ask for its key: a
\* repeated request is answered from the job's row (recommendation_source.rs:961)
\* and nothing would generate the batch again.
CompletedIsPublished ==
    \A k \in DOMAIN job:
        job[k].state = "completed" /\ k.profile = FencedProfile =>
            k \in DOMAIN batch /\ batch[k].content # NoContent
=============================================================================
