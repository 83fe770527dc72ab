----------------------- MODULE DiscoveryNotifications -----------------------
(***************************************************************************)
(* The discovery notifications of one account                              *)
(* (db/src/repository/engagement.rs, engagement/src/service.rs): the       *)
(* matches of its subscriptions and the digests made of them are held back *)
(* while there is something to read, are published when a recheck proves   *)
(* the queue empty, and are hidden again by the next change of the library.*)
(*                                                                         *)
(* A step is one transaction under the account's lock, or a step of a      *)
(* worker between two of them. Time is counted in days. Whether the        *)
(* delivery window is open (channel, pause, quiet hours), and what         *)
(* reminders and version alerts have used of the day's budget, is left     *)
(* open each time it is read. Of rows that are ordered by age any may be   *)
(* taken first. A row of notifications is found by its dedupe key: the     *)
(* paper and the subscription revision of a match, the day and the library *)
(* revision of a digest. A subscription whose frequency is off is one that *)
(* finds nothing.                                                          *)
(***************************************************************************)
EXTENDS Naturals, FiniteSets

CONSTANTS
    Papers,        \* papers that subscriptions may match
    Subs,          \* ids of subscriptions
    Preferences,   \* what the account's preferences may be set to
    Workers,       \* notification workers, one per API process
    None,          \* a column that is null
    Lifetime,      \* days before a notification expires, and is deleted
    MaxChanges,    \* bound: changes of the library, subscriptions, preferences
    MaxDay         \* bound: days

VARIABLES
    library,   \* the library's revision, and whether papers are to be read
    prefs,     \* notification_preferences: mode, cadence and daily budget
    sub,       \* subscriptions, with the papers their watermark has passed
    changes,   \* changes so far
    day,       \* the date
    note,      \* notifications of the discovery scope: the rows, by dedupe key
    work,      \* notification_work_items that are queued or leased
    exec       \* what each worker is doing

account == <<library, prefs, sub, changes>>
vars == <<library, prefs, sub, changes, day, note, work, exec>>

Modes == [mode: {"match", "digest", "off"}, daily: BOOLEAN, budget: Nat]

ASSUME NotificationConstants ==
    /\ Preferences \subseteq Modes
    /\ None \notin Subs \cup Workers \cup Nat
    /\ IsFiniteSet(Papers)
    /\ Lifetime \in Nat \ {0}
    /\ MaxChanges \in Nat /\ MaxDay \in Nat

Match == [kind: {"match"}, about: Papers, batch: Nat]
Digest == [kind: {"digest"}, about: Nat, batch: Nat]
Note == [state: {"unknown", "nonempty", "eligible", "expired"},
         at: Nat \cup {None},      \* eligibility_library_revision
         on: Nat \cup {None},      \* eligible_at
         sub: Subs \cup {None},    \* the subscription of a match
         items: SUBSET Match,      \* the papers of a digest, with the matches they came from
         read: BOOLEAN, dismissed: BOOLEAN, born: Nat]

\* The kind of a work item and its subscription. Its window_key, by which a
\* repeated INSERT is dropped, is left out: a kind of work may be asked for
\* again at any time, but is not queued twice at once.
Item == [kind: {"evaluate"}, of: Subs]
            \cup [kind: {"recheck", "digest", "expire"}, of: {None}]
Authority == [revision: Nat, active: BOOLEAN]
Exec == [at: {"idle", "claimed", "evaluated", "decided", "digest"},
         job: Item \cup {None}, now: Nat, decision: Authority]

Work(kind) == [kind |-> kind, of |-> None]
Evaluation(s) == [kind |-> "evaluate", of |-> s]
Unread == [revision |-> 0, active |-> FALSE]
Idle == [at |-> "idle", job |-> None, now |-> 0, decision |-> Unread]

\* INSERT ... ON CONFLICT DO NOTHING
Insert(f, keys, v) == [x \in DOMAIN f \cup keys |-> IF x \in DOMAIN f THEN f[x] ELSE v]
NoRows == [k \in {} |-> {}]

(***************************************************************************)
(* What the statements select                                              *)
(***************************************************************************)
OfKind(kind) == {k \in DOMAIN note: k.kind = kind}
Open(k) == note[k].state # "expired" /\ ~note[k].dismissed
Eligible(k) == note[k].state = "eligible" /\ ~note[k].dismissed
Deferred(k) == note[k].state \in {"unknown", "nonempty"} /\ ~note[k].dismissed
Lapsed(k, now) == now >= note[k].born + Lifetime

\* mutant
RevisionCleared(state) ==
    [k \in DOMAIN note |->
        IF Eligible(k) THEN [note[k] EXCEPT !.at = None]
        ELSE IF Open(k) THEN [note[k] EXCEPT !.state = state, !.at = None] ELSE note[k]]

\* Every open notification is held back, as one of the two deferred states.
HeldBack(state) ==
    [k \in DOMAIN note |->
        IF Open(k) THEN [note[k] EXCEPT !.state = state, !.at = None] ELSE note[k]]

\* mutant
MatchesOf(s) == {k \in OfKind("match"): note[k].sub = s}

\* The matches of a subscription, and the digests that hold a paper of one.
Derived(s) ==
    LET matches == {k \in OfKind("match"): note[k].sub = s} IN
    matches \cup {k \in OfKind("digest"):
                    \E i \in note[k].items: \E m \in matches: i.about = m.about}

Withdrawn(s) ==
    [k \in DOMAIN note |->
        IF k \in Derived(s)
        THEN [note[k] EXCEPT !.state = "expired", !.at = None, !.dismissed = TRUE]
        ELSE note[k]]

\* No more than one delivery in a day, where the cadence is daily.
FrequencyDue(kind, now) ==
    prefs.daily => \A k \in OfKind(kind): note[k].on # None => note[k].on < now

Delivered(now) == Cardinality({k \in DOMAIN note: note[k].on = now})

\* mutant
CapacityOfDay(now) == prefs.budget

Capacity(now) == IF Delivered(now) < prefs.budget THEN prefs.budget - Delivered(now) ELSE 0

\* mutant
AnyDeferred(k) == Deferred(k)

\* One match per paper, if none of the paper is shown.
Publishable(k) ==
    Deferred(k) /\ \A l \in OfKind("match"): l.about = k.about => ~Eligible(l)

OnePerPaper(ks) == \A k, l \in ks: k.about = l.about => k = l

\* As many matches as there are papers among them and room for.
Chosen(ks, room) ==
    {c \in SUBSET ks:
        /\ OnePerPaper(c)
        /\ Cardinality(c) <= room
        /\ \/ Cardinality(c) = room
           \/ \A k \in ks: \E l \in c: l.about = k.about}

(***************************************************************************)
(* The account and its reader                                              *)
(***************************************************************************)
Changed == changes < MaxChanges /\ changes' = changes + 1

\* Whatever changes the library hides what is shown, and asks for a recheck.
LibraryChange ==
    /\ Changed
    /\ \E active \in BOOLEAN:
         library' = [revision |-> library.revision + 1, active |-> active]
    /\ note' = HeldBack("unknown")
    /\ work' = work \cup {Work("recheck")}
    /\ UNCHANGED <<prefs, sub, day, exec>>

PutPreferences ==
    /\ Changed
    /\ prefs' \in Preferences \ {prefs}
    /\ UNCHANGED <<library, sub, day, note, work, exec>>

\* The account's next subscription revision.
NextRevision(r) ==
    /\ \A s \in Subs: sub[s].revision < r
    /\ r = 1 \/ \E s \in Subs: sub[s].revision + 1 = r

CreateSubscription(s) ==
    /\ Changed
    /\ sub[s].status = "absent"
    /\ \E r \in 1..MaxChanges:
         NextRevision(r) /\ sub' = [sub EXCEPT ![s].status = "live", ![s].revision = r]
    /\ UNCHANGED <<library, prefs, day, note, work, exec>>

\* An update keeps the watermark; a deletion keeps the row.
ChangeSubscription(s) ==
    /\ Changed
    /\ sub[s].status = "live"
    /\ \E r \in 1..MaxChanges: \E status \in {"live", "deleted"}:
         NextRevision(r) /\ sub' = [sub EXCEPT ![s].status = status, ![s].revision = r]
    /\ note' = Withdrawn(s)
    /\ UNCHANGED <<library, prefs, day, work, exec>>

\* With a saved search goes its subscription, and its evaluation if it waits.
DeleteSavedSearch(s) ==
    /\ Changed
    /\ sub[s].status = "live"
    /\ \E r \in 1..MaxChanges:
         /\ NextRevision(r)
         /\ sub' = [sub EXCEPT ![s] = [status |-> "deleted", revision |-> r, seen |-> {}]]
    /\ note' = Withdrawn(s)
    /\ work' \in {work, work \ {Evaluation(s)}}   \* not if it is leased
    /\ UNCHANGED <<library, prefs, day, exec>>

\* The reader reads a digest (nothing depends on a match being read), or
\* dismisses what was shown to them.
MarkRead(k) ==
    /\ k.kind = "digest" /\ Eligible(k) /\ ~note[k].read
    /\ note' = [note EXCEPT ![k].read = TRUE]
    /\ UNCHANGED <<account, day, work, exec>>

Dismiss(k) ==
    /\ Eligible(k)
    /\ note' = [note EXCEPT ![k].dismissed = TRUE]
    /\ UNCHANGED <<account, day, work, exec>>

(***************************************************************************)
(* The maintenance loops                                                   *)
(***************************************************************************)
\* Rows of windows to come, for every kind of work that is due and not
\* pending. Which subscriptions are due, or none, is left open.
ScheduleDueWork ==
    LET expire == {k \in DOMAIN note: Lapsed(k, day) /\ note[k].state # "expired"}
        waiting == {k \in DOMAIN note: Deferred(k) /\ ~Lapsed(k, day)
                                         /\ (k.kind = "match" \/ prefs.mode # "match")}
        rows == {Work("expire"): e \in expire}
                    \cup {Work("recheck"):
                            e \in IF prefs.mode # "off" /\ FrequencyDue(prefs.mode, day)
                                  THEN waiting ELSE {}}
    IN  /\ \E due \in SUBSET {s \in Subs: sub[s].status = "live" /\ prefs.mode # "off"}:
             work' = work \cup rows \cup {Evaluation(s): s \in due}
        /\ work' # work
        /\ UNCHANGED <<account, day, note, exec>>

\* Old rows go, whatever their state.
CleanupRetention ==
    /\ \E k \in DOMAIN note: Lapsed(k, day)
    /\ note' = [k \in {l \in DOMAIN note: ~Lapsed(l, day)} |-> note[k]]
    /\ UNCHANGED <<account, day, work, exec>>

NextDay ==
    /\ day < MaxDay
    /\ day' = day + 1
    /\ UNCHANGED <<account, note, work, exec>>

(***************************************************************************)
(* The workers: an item is claimed, carried out step by step and settled   *)
(***************************************************************************)
At(w, step) == exec[w].at = step
Doing(w, kinds) == exec[w].job # None /\ exec[w].job.kind \in kinds
Goto(w, step) == exec' = [exec EXCEPT ![w].at = step]

\* The attempt has ended. The holder of the lease completes the item, or fails
\* it after its last attempt; after an error in an earlier one, without the
\* lease, or if the process dies first, the item stays. This transaction
\* touches nothing else, and is taken together with the step before it.
Settle(w, pending) ==
    /\ work' \in {pending, pending \ {exec[w].job}}
    /\ exec' = [exec EXCEPT ![w] = Idle]

\* An item is taken when it is queued or its lease has lapsed, which may be at
\* any time: its former holder can still be at work.
Claim(w, k) ==
    /\ At(w, "idle")
    /\ k \in work
    /\ exec' = [exec EXCEPT ![w] = [at |-> "claimed", job |-> k, now |-> day, decision |-> Unread]]
    /\ UNCHANGED <<account, day, note, work>>

NewMatch(s, now) ==
    [state |-> "unknown", at |-> None, on |-> None, sub |-> s, items |-> {},
     read |-> FALSE, dismissed |-> FALSE, born |-> now]

\* Which papers a subscription finds is left open; its watermark keeps it from
\* finding one again.
EvaluateSubscription(w) ==
    /\ At(w, "claimed") /\ Doing(w, {"evaluate"})
    /\ LET s == exec[w].job.of IN
       IF sub[s].status = "live" /\ prefs.mode # "off"
       THEN \E found \in SUBSET (Papers \ sub[s].seen):
              /\ note' = Insert(note, {[kind |-> "match", about |-> p, batch |-> sub[s].revision]:
                                          p \in found}, NewMatch(s, exec[w].now))
              /\ sub' = [sub EXCEPT ![s].seen = @ \cup found]
       ELSE UNCHANGED <<note, sub>>
    /\ Goto(w, "evaluated")
    /\ UNCHANGED <<library, prefs, changes, day, work>>

EnqueueRecheck(w) ==
    /\ At(w, "evaluated")
    /\ Settle(w, work \cup {Work("recheck")})
    /\ UNCHANGED <<account, day, note>>

\* The reading feed is asked outside the transaction that acts on its answer.
ReadDecision(w) ==
    /\ At(w, "claimed") /\ Doing(w, {"recheck", "digest"})
    /\ exec' = [exec EXCEPT ![w].at = "decided", ![w].decision = library]
    /\ UNCHANGED <<account, day, note, work>>

\* mutant
NeverStale(decision) == FALSE

Stale(decision) == library # decision

HoldBack(w) ==
    /\ At(w, "decided") /\ ~Stale(exec[w].decision) /\ exec[w].decision.active
    /\ note' = HeldBack("nonempty")
    /\ Settle(w, work)
    /\ UNCHANGED <<account, day>>

ProvenEmpty(w) == At(w, "decided") /\ ~Stale(exec[w].decision) /\ ~exec[w].decision.active

\* Reminders and version alerts may have used any part of the budget.
PublishMatches(w) ==
    LET now == exec[w].now IN
    /\ ProvenEmpty(w) /\ Doing(w, {"recheck"})
    /\ prefs.mode = "match" /\ FrequencyDue("match", now)
    /\ \E room \in 0..Capacity(now):
         \E shown \in Chosen({k \in OfKind("match"): Publishable(k)}, room):
           note' = [k \in DOMAIN note |->
                      IF k \in shown
                      THEN [note[k] EXCEPT !.state = "eligible", !.at = exec[w].decision.revision,
                                           !.on = now]
                      ELSE note[k]]
    /\ Settle(w, work)
    /\ UNCHANGED <<account, day>>

\* Digests that were shown once, and that the end of a queue may bring back.
Hidden == {k \in OfKind("digest"): note[k].state = "nonempty" /\ ~note[k].dismissed}
Restorable(now) == {k \in Hidden: ~note[k].read /\ ~Lapsed(k, now)}
Waiting(now) == {k \in OfKind("match"): Deferred(k) /\ ~Lapsed(k, now)}

DigestDue(w) == ProvenEmpty(w) /\ prefs.mode = "digest" /\ FrequencyDue("digest", exec[w].now)

AskForDigest(w) ==
    /\ DigestDue(w) /\ Doing(w, {"recheck"})
    /\ \/ Restorable(exec[w].now) # {}
       \/ Capacity(exec[w].now) > 0 /\ Waiting(exec[w].now) # {}
    /\ Goto(w, "digest")
    /\ UNCHANGED <<account, day, note, work>>

EnqueueDigest(w) ==
    /\ At(w, "digest")
    /\ Settle(w, work \cup {Work("digest")})
    /\ UNCHANGED <<account, day, note>>

\* Hidden digests that have been read are dropped.
ReadDropped ==
    [k \in DOMAIN note |->
        IF k \in Hidden /\ note[k].read
        THEN [note[k] EXCEPT !.state = "expired", !.at = None, !.dismissed = TRUE]
        ELSE note[k]]

\* A digest replaces every match of its papers.
Gathered(digest, row) ==
    [k \in DOMAIN note \cup {digest} |->
        IF k = digest THEN row
        ELSE IF k.kind = "match" /\ \E i \in row.items: i.about = k.about
        THEN [ReadDropped[k] EXCEPT !.dismissed = TRUE]
        ELSE ReadDropped[k]]

\* A hidden digest comes back, or the matches that wait become one.
BuildDigest(w) ==
    LET now == exec[w].now
        revision == exec[w].decision.revision
        digest == [kind |-> "digest", about |-> now, batch |-> revision]
        row(items) == [state |-> "eligible", at |-> revision, on |-> now, sub |-> None,
                       items |-> items, read |-> FALSE, dismissed |-> FALSE, born |-> now]
    IN  /\ DigestDue(w) /\ Doing(w, {"digest"})
        /\ IF Restorable(now) # {}
           THEN \E k \in Restorable(now):
                  note' = [ReadDropped EXCEPT ![k].state = "eligible", ![k].at = revision]
           ELSE \E room \in 0..Capacity(now): \E items \in Chosen(Waiting(now), room):
                  note' = IF items = {} \/ digest \in DOMAIN note
                          THEN ReadDropped ELSE Gathered(digest, row(items))
        /\ Settle(w, work)
        /\ UNCHANGED <<account, day>>

ExpireNotifications(w) ==
    /\ At(w, "claimed") /\ Doing(w, {"expire"})
    /\ note' = [k \in DOMAIN note |->
                  IF Lapsed(k, exec[w].now) THEN [note[k] EXCEPT !.state = "expired"] ELSE note[k]]
    /\ Settle(w, work)
    /\ UNCHANGED <<account, day>>

\* Nothing is changed: the decision is stale, the preferences let nothing out,
\* the delivery window is closed, the database or the feed fails, or the
\* process dies.
EndAttempt(w) ==
    /\ ~At(w, "idle")
    /\ Settle(w, work)
    /\ UNCHANGED <<account, day, note>>

-----------------------------------------------------------------------------
Init ==
    /\ library = Unread
    /\ prefs \in {p \in Preferences: p.mode = "digest" /\ p.daily}    \* default_preferences
    /\ sub = [s \in Subs |-> [status |-> "absent", revision |-> 0, seen |-> {}]]
    /\ changes = 0 /\ day = 1
    /\ note = NoRows /\ work = {}
    /\ exec = [w \in Workers |-> Idle]

Reader ==
    \/ LibraryChange \/ PutPreferences
    \/ \E s \in Subs: CreateSubscription(s) \/ ChangeSubscription(s) \/ DeleteSavedSearch(s)
    \/ \E k \in DOMAIN note: MarkRead(k) \/ Dismiss(k)

Maintenance == ScheduleDueWork \/ CleanupRetention \/ NextDay

Worker(w) ==
    \/ \E k \in work: Claim(w, k)
    \/ EvaluateSubscription(w) \/ EnqueueRecheck(w)
    \/ ReadDecision(w) \/ HoldBack(w) \/ PublishMatches(w)
    \/ AskForDigest(w) \/ EnqueueDigest(w) \/ BuildDigest(w)
    \/ ExpireNotifications(w) \/ EndAttempt(w)

Next ==
    \/ Reader \/ Maintenance
    \/ \E w \in Workers: Worker(w)

Spec == Init /\ [][Next]_vars

-----------------------------------------------------------------------------
\* The types of the rows. A published row names the revision it was published
\* at and when (notifications_authority_check, notifications_timestamps_check).
TypeOK ==
    /\ library \in Authority
    /\ prefs \in Preferences
    /\ sub \in [Subs -> [status: {"absent", "live", "deleted"},
                         revision: Nat, seen: SUBSET Papers]]
    /\ changes \in 0..MaxChanges /\ day \in Nat
    /\ DOMAIN note \subseteq Match \cup Digest
    /\ \A k \in DOMAIN note: note[k] \in Note /\ (k \in Match => note[k].sub \in Subs)
    /\ \A k \in DOMAIN note: note[k].state = "eligible" => None \notin {note[k].at, note[k].on}
    /\ work \subseteq Item
    /\ exec \in [Workers -> Exec]
    /\ \A w \in Workers:
         exec[w].at # "idle" => exec[w].job \in Item

\* A discovery that is published was published at the present revision of the
\* library, at which nothing is left to read, however old the decision is that
\* its worker carried: a save always defers, it never loses to a delivery.
EligibleIsAuthorized ==
    \A k \in DOMAIN note: Eligible(k) => library = [revision |-> note[k].at, active |-> FALSE]

\* After a subscription has changed or gone, none of the matches it had
\* before is shown or may still come to be shown, alone or in a digest, as
\* long as the row of the match is kept.
Sources(k) == IF k.kind = "match" THEN {k} ELSE note[k].items
WithdrawnIsHidden ==
    \A k \in DOMAIN note: note[k].state # "expired" =>
        \A m \in Sources(k) \cap DOMAIN note:
            /\ sub[note[m].sub].revision = m.batch
            /\ sub[note[m].sub].status # "deleted"

\* Two subscriptions that find the same paper never show it twice.
PaperShownOnce ==
    OnePerPaper({k \in OfKind("match"): Eligible(k)})

\* build_digest: "A digest that was already eligible can be hidden by a later
\* save. [...] restore that same bounded digest at the new empty-queue revision
\* before considering any new source rows". Every digest is eligible first, so
\* one that is deferred has been hidden. Once the queue is proved empty, those
\* that are neither read nor too old are found by the restoring statement.
HiddenDigestsComeBack ==
    \A w \in Workers: ProvenEmpty(w) =>
        \A k \in OfKind("digest"):
            Deferred(k) /\ ~note[k].read /\ ~Lapsed(k, exec[w].now)
                => k \in Restorable(exec[w].now)

\* No step takes the deliveries of a day over the budget, for any
\* interleaving of workers that repeat each other's items.
WithinBudget ==
    [][\A d \in 1..MaxDay: Delivered(d)' <= prefs.budget \/ Delivered(d)' <= Delivered(d)]_vars
=============================================================================
