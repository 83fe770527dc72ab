------------------- MODULE DiscoveryNotificationsProofs -------------------
(***************************************************************************)
(* Proofs about DiscoveryNotifications, for any number of papers,          *)
(* subscriptions and workers, any preferences, and any number of changes   *)
(* and days.  Most steps only take rows away from the reader (Quieter):    *)
(* what such a step shows, was shown before.  The others are those that    *)
(* find, hold back, publish and gather matches, and the proofs are about   *)
(* these.                                                                  *)
(***************************************************************************)
EXTENDS DiscoveryNotifications, FiniteSetTheorems, TLAPS

(* A digest has always been shown.                                         *)
DigestsAreDated == \A k \in DOMAIN note : k.kind = "digest" => note[k].on # None

(* A subscription that has not been created has found nothing.             *)
MatchesHaveSubscriptions ==
    \A k \in DOMAIN note : k.kind = "match" => sub[note[k].sub].status # "absent"

(* A row that is held back by the queue is held back by the queue of now:  *)
(* every change of the library makes all of them unknown again.  No more   *)
(* than a step of the proofs: build_digest means such rows to outlive the  *)
(* queue, as HiddenDigestsComeBack states, and this is why none does.      *)
HeldBackByQueue ==
    \A k \in DOMAIN note :
        note[k].state = "nonempty" /\ ~note[k].dismissed => library.active

IInv ==
    /\ TypeOK
    /\ IsFiniteSet(DOMAIN note)
    /\ DigestsAreDated
    /\ MatchesHaveSubscriptions
    /\ EligibleIsAuthorized
    /\ HeldBackByQueue
    /\ WithdrawnIsHidden
    /\ PaperShownOnce

(* A row stays the same row: it is not shown where it was not before, and  *)
(* not alive again once it is dismissed or expired.                        *)
SameRow(k) ==
    /\ note'[k] \in Note
    /\ note'[k].sub = note[k].sub
    /\ note'[k].items = note[k].items
    /\ note'[k].on = note[k].on
    /\ note[k].dismissed => note'[k].dismissed
    /\ note[k].state = "expired" => note'[k].state = "expired"
    /\ note'[k].state = "eligible" => note[k].state = "eligible" /\ note'[k].at = note[k].at

Held(k) == note[k].state = "nonempty" /\ ~note[k].dismissed

(* Nor is it put behind the queue.                                         *)
QuietRow(k) == SameRow(k) /\ (Held(k)' => Held(k))

KeepsRows == DOMAIN note' \subseteq DOMAIN note /\ \A k \in DOMAIN note' : SameRow(k)
Quieter == DOMAIN note' \subseteq DOMAIN note /\ \A k \in DOMAIN note' : QuietRow(k)

-----------------------------------------------------------------------------
(* Rows and keys.                                                          *)

LEMMA RowFields ==
    ASSUME NEW r \in Note
    PROVE  /\ r.state \in {"unknown", "nonempty", "eligible", "expired"}
           /\ r.at \in Nat \cup {None} /\ r.on \in Nat \cup {None}
           /\ r.sub \in Subs \cup {None} /\ r.items \in SUBSET Match
           /\ r.read \in BOOLEAN /\ r.dismissed \in BOOLEAN /\ r.born \in Nat
  BY DEF Note

LEMMA KeyKinds ==
    ASSUME NEW k \in Match \cup Digest
    PROVE  /\ k.kind \in {"match", "digest"}
           /\ k \in Match <=> k.kind = "match"
           /\ k \in Digest <=> k.kind = "digest"
  BY DEF Match, Digest

(* A row that is withdrawn.                                                *)
LEMMA RowGoes ==
    ASSUME NEW r \in Note
    PROVE  LET s == [r EXCEPT !.state = "expired", !.at = None, !.dismissed = TRUE] IN
           /\ s \in Note
           /\ s.state = "expired" /\ s.on = r.on /\ s.sub = r.sub /\ s.items = r.items
           /\ s.dismissed = TRUE
  BY DEF Note

LEMMA RowIsDismissed ==
    ASSUME NEW r \in Note
    PROVE  LET s == [r EXCEPT !.dismissed = TRUE] IN
           /\ s \in Note
           /\ s.state = r.state /\ s.at = r.at /\ s.on = r.on /\ s.sub = r.sub
           /\ s.items = r.items /\ s.dismissed = TRUE
  BY DEF Note

LEMMA RowIsRead ==
    ASSUME NEW r \in Note
    PROVE  LET s == [r EXCEPT !.read = TRUE] IN
           /\ s \in Note
           /\ s.state = r.state /\ s.at = r.at /\ s.on = r.on /\ s.sub = r.sub
           /\ s.items = r.items /\ s.dismissed = r.dismissed
  BY DEF Note

LEMMA RowExpires ==
    ASSUME NEW r \in Note
    PROVE  LET s == [r EXCEPT !.state = "expired"] IN
           /\ s \in Note
           /\ s.state = "expired" /\ s.on = r.on /\ s.sub = r.sub /\ s.items = r.items
           /\ s.dismissed = r.dismissed
  BY DEF Note

-----------------------------------------------------------------------------
(* What the statements do to the rows.                                     *)

LEMMA HeldBackRows ==
    ASSUME TypeOK, NEW state \in {"unknown", "nonempty"}, note' = HeldBack(state)
    PROVE  /\ DOMAIN note' = DOMAIN note
           /\ KeepsRows
           /\ \A k \in DOMAIN note' : ~Eligible(k)'
           /\ \A k \in DOMAIN note' : Held(k)' => state = "nonempty"
  <1>1. DOMAIN note' = DOMAIN note
    BY DEF HeldBack
  <1> SUFFICES ASSUME NEW k \in DOMAIN note
               PROVE  /\ SameRow(k)
                      /\ ~Eligible(k)'
                      /\ Held(k)' => state = "nonempty"
    BY <1>1 DEF KeepsRows
  <1>2. note[k] \in Note
    BY DEF TypeOK
  <1>3. CASE Open(k)
    <2>1. note'[k] = [note[k] EXCEPT !.state = state, !.at = None]
      BY <1>3 DEF HeldBack
    <2>2. /\ note'[k] \in Note /\ note'[k].state = state
          /\ note'[k].sub = note[k].sub /\ note'[k].items = note[k].items
          /\ note'[k].on = note[k].on
          /\ note'[k].dismissed = note[k].dismissed
      BY <1>2, <2>1 DEF Note
    <2>3. note[k].state # "expired"
      BY <1>3 DEF Open
    <2> QED
      BY <2>2, <2>3 DEF QuietRow, SameRow, Eligible, Held
  <1>4. CASE ~Open(k)
    <2>1. note'[k] = note[k]
      BY <1>4 DEF HeldBack
    <2> QED
      BY <1>2, <1>4, <2>1, RowFields DEF QuietRow, SameRow, Eligible, Held, Open
  <1> QED
    BY <1>3, <1>4

LEMMA WithdrawnRows ==
    ASSUME TypeOK, NEW s \in Subs, note' = Withdrawn(s)
    PROVE  /\ DOMAIN note' = DOMAIN note
           /\ Quieter
           /\ \A k \in Derived(s) : note'[k].state = "expired"
  <1>1. DOMAIN note' = DOMAIN note
    BY DEF Withdrawn
  <1> SUFFICES ASSUME NEW k \in DOMAIN note
               PROVE  /\ QuietRow(k)
                      /\ k \in Derived(s) => note'[k].state = "expired"
    BY <1>1 DEF Quieter, Derived, OfKind
  <1>2. note[k] \in Note
    BY DEF TypeOK
  <1>3. CASE k \in Derived(s)
    <2>1. note'[k] = [note[k] EXCEPT !.state = "expired", !.at = None, !.dismissed = TRUE]
      BY <1>3 DEF Withdrawn
    <2> QED
      BY <1>2, <2>1, RowGoes DEF QuietRow, SameRow, Eligible, Held
  <1>4. CASE k \notin Derived(s)
    <2>1. note'[k] = note[k]
      BY <1>4 DEF Withdrawn
    <2> QED
      BY <1>2, <1>4, <2>1 DEF QuietRow, SameRow, Eligible, Held
  <1> QED
    BY <1>3, <1>4

LEMMA MarkReadRows ==
    ASSUME TypeOK, NEW l \in DOMAIN note, MarkRead(l) \/ Dismiss(l)
    PROVE  DOMAIN note' = DOMAIN note /\ Quieter
  <1>1. DOMAIN note' = DOMAIN note
    BY DEF MarkRead, Dismiss
  <1> SUFFICES ASSUME NEW k \in DOMAIN note
               PROVE  QuietRow(k)
    BY <1>1 DEF Quieter
  <1>2. note[k] \in Note
    BY DEF TypeOK
  <1>3. \/ note'[k] = note[k]
        \/ note'[k] = [note[k] EXCEPT !.read = TRUE]
        \/ note'[k] = [note[k] EXCEPT !.dismissed = TRUE]
    BY DEF MarkRead, Dismiss
  <1>4. CASE note'[k] = note[k]
    BY <1>2, <1>4 DEF QuietRow, SameRow, Eligible, Held
  <1>5. CASE note'[k] = [note[k] EXCEPT !.read = TRUE]
    BY <1>2, <1>5, RowIsRead DEF QuietRow, SameRow, Eligible, Held
  <1>6. CASE note'[k] = [note[k] EXCEPT !.dismissed = TRUE]
    BY <1>2, <1>6, RowIsDismissed DEF QuietRow, SameRow, Eligible, Held
  <1> QED
    BY <1>3, <1>4, <1>5, <1>6

LEMMA CleanupRows ==
    ASSUME TypeOK, CleanupRetention
    PROVE  Quieter
  <1>1. /\ DOMAIN note' \subseteq DOMAIN note
        /\ \A k \in DOMAIN note' : note'[k] = note[k]
    BY DEF CleanupRetention
  <1> QED
    BY <1>1 DEF TypeOK, Quieter, QuietRow, SameRow, Eligible, Held

LEMMA ExpireRows ==
    ASSUME TypeOK, NEW w \in Workers, ExpireNotifications(w)
    PROVE  DOMAIN note' = DOMAIN note /\ Quieter
  <1>1. DOMAIN note' = DOMAIN note
    BY DEF ExpireNotifications
  <1> SUFFICES ASSUME NEW k \in DOMAIN note
               PROVE  QuietRow(k)
    BY <1>1 DEF Quieter
  <1>2. note[k] \in Note
    BY DEF TypeOK
  <1>3. note'[k] = note[k] \/ note'[k] = [note[k] EXCEPT !.state = "expired"]
    BY DEF ExpireNotifications
  <1>4. CASE note'[k] = note[k]
    BY <1>2, <1>4 DEF QuietRow, SameRow, Held
  <1>5. CASE note'[k] = [note[k] EXCEPT !.state = "expired"]
    BY <1>2, <1>5, RowExpires DEF QuietRow, SameRow, Held
  <1> QED
    BY <1>3, <1>4, <1>5

LEMMA UnchangedRows ==
    ASSUME TypeOK, UNCHANGED note
    PROVE  DOMAIN note' = DOMAIN note /\ Quieter
  BY DEF TypeOK, Quieter, QuietRow, SameRow, Eligible, Held

(* When a queue is proven empty nothing is held back by it: no digest that *)
(* was hidden is found again.                                              *)
LEMMA NothingIsHidden ==
    ASSUME TypeOK, HeldBackByQueue, NEW w \in Workers, ProvenEmpty(w)
    PROVE  /\ library = exec[w].decision /\ ~library.active
           /\ Hidden = {}
  <1>1. library = exec[w].decision /\ ~library.active
    BY DEF ProvenEmpty, Stale
  <1> QED
    BY <1>1 DEF HeldBackByQueue, Hidden, OfKind

LEMMA CapacityType ==
    ASSUME TypeOK, IsFiniteSet(DOMAIN note), NEW now
    PROVE  Delivered(now) \in Nat /\ Capacity(now) \in Nat /\ prefs.budget \in Nat
  <1>1. {k \in DOMAIN note: note[k].on = now} \in SUBSET DOMAIN note
    OBVIOUS
  <1>2. Delivered(now) \in Nat
    BY <1>1, FS_Subset, FS_CardinalityType DEF Delivered
  <1>3. prefs.budget \in Nat
    BY NotificationConstants DEF TypeOK, Modes
  <1> QED
    BY <1>2, <1>3 DEF Capacity

LEMMA PublishedRows ==
    ASSUME TypeOK, NEW w \in Workers, PublishMatches(w)
    PROVE  \E room \in 0..Capacity(exec[w].now) : \E shown \in SUBSET DOMAIN note :
             /\ OnePerPaper(shown) /\ Cardinality(shown) <= room
             /\ DOMAIN note' = DOMAIN note
             /\ \A k \in DOMAIN note \ shown : note'[k] = note[k]
             /\ \A k \in shown :
                  /\ k.kind = "match" /\ Publishable(k)
                  /\ note'[k] \in Note
                  /\ note'[k].sub = note[k].sub /\ note'[k].items = note[k].items
                  /\ note'[k].on = exec[w].now
                  /\ note'[k].state = "eligible"
                  /\ note'[k].at = exec[w].decision.revision
  <1>1. PICK room \in 0..Capacity(exec[w].now) :
           \E shown \in Chosen({k \in OfKind("match"): Publishable(k)}, room) :
             note' = [k \in DOMAIN note |->
                        IF k \in shown
                        THEN [note[k] EXCEPT !.state = "eligible",
                                             !.at = exec[w].decision.revision,
                                             !.on = exec[w].now]
                        ELSE note[k]]
    BY DEF PublishMatches
  <1>2. PICK shown \in Chosen({k \in OfKind("match"): Publishable(k)}, room) :
             note' = [k \in DOMAIN note |->
                        IF k \in shown
                        THEN [note[k] EXCEPT !.state = "eligible",
                                             !.at = exec[w].decision.revision,
                                             !.on = exec[w].now]
                        ELSE note[k]]
    BY <1>1
  <1>3. /\ OnePerPaper(shown) /\ Cardinality(shown) <= room
        /\ shown \subseteq {k \in OfKind("match"): Publishable(k)}
    BY DEF Chosen
  <1>4. shown \subseteq DOMAIN note /\ \A k \in shown : k.kind = "match" /\ Publishable(k)
    BY <1>3 DEF OfKind
  <1>5. exec[w].decision.revision \in Nat /\ exec[w].now \in Nat
    BY DEF TypeOK, Exec, Authority
  <1>6. ASSUME NEW k \in shown
        PROVE  /\ note'[k] \in Note
               /\ note'[k].sub = note[k].sub /\ note'[k].items = note[k].items
               /\ note'[k].on = exec[w].now
               /\ note'[k].state = "eligible"
               /\ note'[k].at = exec[w].decision.revision
    <2>1. note[k] \in Note
      BY <1>4 DEF TypeOK
    <2>2. note'[k] = [note[k] EXCEPT !.state = "eligible",
                                     !.at = exec[w].decision.revision,
                                     !.on = exec[w].now]
      BY <1>2, <1>4
    <2> QED
      BY <1>5, <2>1, <2>2 DEF Note
  <1>7. DOMAIN note' = DOMAIN note /\ \A k \in DOMAIN note \ shown : note'[k] = note[k]
    BY <1>2
  <1> QED
    BY <1>3, <1>4, <1>6, <1>7

(* New matches are of the live subscription's present revision.            *)
LEMMA EvaluatedRows ==
    ASSUME TypeOK, NEW w \in Workers, EvaluateSubscription(w)
    PROVE  \E new \in SUBSET Match : \E s \in Subs :
             /\ IsFiniteSet(new)
             /\ DOMAIN note' = DOMAIN note \cup new
             /\ \A k \in DOMAIN note : note'[k] = note[k]
             /\ \A k \in new \ DOMAIN note :
                  /\ note'[k] \in Note
                  /\ note'[k].sub = s /\ note'[k].state = "unknown" /\ note'[k].on = None
                  /\ sub[s].status = "live" /\ k.batch = sub[s].revision
             /\ sub' \in [Subs -> [status: {"absent", "live", "deleted"},
                                   revision: Nat, seen: SUBSET Papers]]
             /\ \A t \in Subs : /\ sub'[t].status = sub[t].status
                                /\ sub'[t].revision = sub[t].revision
  <1> DEFINE s == exec[w].job.of
  <1>1. s \in Subs
    BY DEF EvaluateSubscription, Doing, At, TypeOK, Exec, Item
  <1>2. exec[w].now \in Nat /\ sub[s].revision \in Nat
    BY <1>1 DEF TypeOK, Exec
  <1>3. CASE UNCHANGED <<note, sub>>
    <2>1. {} \in SUBSET Match /\ IsFiniteSet({})
      BY FS_EmptySet
    <2> QED
      BY <1>1, <1>3, <2>1 DEF TypeOK
  <1>4. CASE /\ sub[s].status = "live"
             /\ \E found \in SUBSET (Papers \ sub[s].seen):
                  /\ note' = Insert(note, {[kind |-> "match", about |-> p, batch |-> sub[s].revision]:
                                              p \in found}, NewMatch(s, exec[w].now))
                  /\ sub' = [sub EXCEPT ![s].seen = @ \cup found]
    <2>1. PICK found \in SUBSET (Papers \ sub[s].seen):
                  /\ note' = Insert(note, {[kind |-> "match", about |-> p, batch |-> sub[s].revision]:
                                              p \in found}, NewMatch(s, exec[w].now))
                  /\ sub' = [sub EXCEPT ![s].seen = @ \cup found]
      BY <1>4
    <2> DEFINE key == [p \in found |-> [kind |-> "match", about |-> p, batch |-> sub[s].revision]]
               new == {[kind |-> "match", about |-> p, batch |-> sub[s].revision]: p \in found}
    <2>2. new \subseteq Match /\ \A k \in new : k.batch = sub[s].revision
      BY <1>2 DEF Match
    <2>3. IsFiniteSet(new)
      <3>1. IsFiniteSet(found)
        BY NotificationConstants, FS_Subset
      <3>2. key \in Surjection(found, new)
        BY DEF Surjection
      <3> HIDE DEF key, new
      <3> QED
        BY <3>1, <3>2, FS_Surjection
    <2>4. NewMatch(s, exec[w].now) \in Note
      BY <1>1, <1>2 DEF NewMatch, Note
    <2>5. /\ DOMAIN note' = DOMAIN note \cup new
          /\ \A k \in DOMAIN note : note'[k] = note[k]
          /\ \A k \in new \ DOMAIN note : note'[k] = NewMatch(s, exec[w].now)
      <3> HIDE DEF new
      <3>1. note' = Insert(note, new, NewMatch(s, exec[w].now))
        BY <2>1 DEF new
      <3> QED
        BY <3>1 DEF Insert
    <2>6. /\ NewMatch(s, exec[w].now).sub = s
          /\ NewMatch(s, exec[w].now).state = "unknown"
          /\ NewMatch(s, exec[w].now).on = None
      BY DEF NewMatch
    <2>7. /\ sub' \in [Subs -> [status: {"absent", "live", "deleted"},
                                revision: Nat, seen: SUBSET Papers]]
          /\ \A t \in Subs : /\ sub'[t].status = sub[t].status
                             /\ sub'[t].revision = sub[t].revision
      BY <1>1, <2>1 DEF TypeOK
    <2>8. \A k \in new \ DOMAIN note :
            /\ note'[k] \in Note
            /\ note'[k].sub = s /\ note'[k].state = "unknown" /\ note'[k].on = None
            /\ sub[s].status = "live" /\ k.batch = sub[s].revision
      <3> HIDE DEF new, key, s
      <3> QED
        BY <1>4, <2>2, <2>4, <2>5, <2>6
    <2> HIDE DEF new, key, s
    <2> new \in SUBSET Match /\ s \in Subs
      BY <1>1, <2>2
    <2> WITNESS new \in SUBSET Match
    <2> WITNESS s \in Subs
    <2> QED
      BY <2>3, <2>5, <2>7, <2>8
  <1> QED
    BY <1>3, <1>4 DEF EvaluateSubscription

(* A digest gathers matches that wait; or nothing changes.                 *)
LEMMA GatheredRows ==
    ASSUME TypeOK, IsFiniteSet(DOMAIN note), HeldBackByQueue, NEW w \in Workers, BuildDigest(w)
    PROVE  \/ DOMAIN note' = DOMAIN note /\ Quieter
           \/ \E items \in SUBSET Waiting(exec[w].now) :
              \E d \in Digest \ DOMAIN note :
                /\ items # {} /\ Cardinality(items) <= Capacity(exec[w].now)
                /\ DOMAIN note' = DOMAIN note \cup {d}
                /\ \A k \in DOMAIN note : QuietRow(k)
                /\ note'[d] \in Note /\ note'[d].state = "eligible"
                /\ note'[d].at = library.revision /\ note'[d].on = exec[w].now
                /\ note'[d].items = items
  <1> DEFINE now == exec[w].now
             revision == exec[w].decision.revision
             d == [kind |-> "digest", about |-> now, batch |-> revision]
             row(items) == [state |-> "eligible", at |-> revision, on |-> now, sub |-> None,
                            items |-> items, read |-> FALSE, dismissed |-> FALSE, born |-> now]
  <1>1. ProvenEmpty(w)
    BY DEF BuildDigest, DigestDue
  <1>2. library = exec[w].decision /\ Hidden = {} /\ Restorable(now) = {}
    BY <1>1, NothingIsHidden DEF Restorable
  <1>3. now \in Nat /\ revision \in Nat /\ d \in Digest
    BY DEF TypeOK, Exec, Authority, Digest
  <1>4. DOMAIN ReadDropped = DOMAIN note /\ \A k \in DOMAIN note : ReadDropped[k] = note[k]
    BY <1>2 DEF ReadDropped
  <1>5. PICK room \in 0..Capacity(now) : \E items \in Chosen(Waiting(now), room) :
          note' = IF items = {} \/ d \in DOMAIN note THEN ReadDropped ELSE Gathered(d, row(items))
    BY <1>2 DEF BuildDigest
  <1>6. PICK items \in Chosen(Waiting(now), room) :
          note' = IF items = {} \/ d \in DOMAIN note THEN ReadDropped ELSE Gathered(d, row(items))
    BY <1>5
  <1>7. items \in SUBSET Waiting(now) /\ Cardinality(items) <= room
    BY DEF Chosen
  <1>8. CASE note' = ReadDropped
    BY <1>4, <1>8 DEF Quieter, QuietRow, SameRow, Eligible, Held, TypeOK
  <1>9. CASE items # {} /\ d \notin DOMAIN note /\ note' = Gathered(d, row(items))
    <2>1. items \subseteq Match
      BY <1>7, KeyKinds DEF Waiting, OfKind, TypeOK
    <2>2. row(items) \in Note
      BY <1>3, <2>1 DEF Note
    <2>3. DOMAIN note' = DOMAIN note \cup {d} /\ note'[d] = row(items)
      BY <1>9 DEF Gathered
    <2>4. \A k \in DOMAIN note : QuietRow(k)
      <3> SUFFICES ASSUME NEW k \in DOMAIN note PROVE QuietRow(k)
        OBVIOUS
      <3> HIDE DEF d, row
      <3>1. note'[k] = note[k] \/ note'[k] = [note[k] EXCEPT !.dismissed = TRUE]
        BY <1>4, <1>9 DEF Gathered
      <3>2. note[k] \in Note
        BY DEF TypeOK
      <3>3. CASE note'[k] = note[k]
        BY <3>2, <3>3 DEF QuietRow, SameRow, Eligible, Held
      <3>4. CASE note'[k] = [note[k] EXCEPT !.dismissed = TRUE]
        BY <3>2, <3>4, RowIsDismissed DEF QuietRow, SameRow, Eligible, Held
      <3> QED
        BY <3>1, <3>3, <3>4
    <2>5. Cardinality(items) <= Capacity(now)
      <3>1. items \subseteq DOMAIN note
        BY <1>7 DEF Waiting, OfKind
      <3>2. Cardinality(items) \in Nat
        BY <3>1, FS_Subset, FS_CardinalityType
      <3>3. Capacity(now) \in Nat
        BY CapacityType
      <3> QED
        BY <1>7, <3>2, <3>3
    <2>6. /\ note'[d] \in Note /\ note'[d].state = "eligible"
          /\ note'[d].at = library.revision /\ note'[d].on = now /\ note'[d].items = items
      BY <1>2, <2>2, <2>3
    <2>7. d \in Digest \ DOMAIN note
      BY <1>3, <1>9
    <2> HIDE DEF d, row
    <2>8. \E e \in Digest \ DOMAIN note :
                /\ items # {} /\ Cardinality(items) <= Capacity(exec[w].now)
                /\ DOMAIN note' = DOMAIN note \cup {e}
                /\ \A k \in DOMAIN note : QuietRow(k)
                /\ note'[e] \in Note /\ note'[e].state = "eligible"
                /\ note'[e].at = library.revision /\ note'[e].on = exec[w].now
                /\ note'[e].items = items
      <3> WITNESS d \in Digest \ DOMAIN note
      <3> QED
        BY <1>9, <2>3, <2>4, <2>5, <2>6
    <2> QED
      BY <1>7, <2>8
  <1> QED
    BY <1>6, <1>8, <1>9

-----------------------------------------------------------------------------
(* What a step is, as far as the rows are concerned.                       *)
LEMMA StepShapes ==
    ASSUME TypeOK, IsFiniteSet(DOMAIN note), HeldBackByQueue, [Next]_vars
    PROVE  \/ Quieter /\ UNCHANGED <<library, sub>>
           \/ LibraryChange
           \/ \E s \in Subs : CreateSubscription(s) \/ ChangeSubscription(s) \/ DeleteSavedSearch(s)
           \/ \E w \in Workers : HoldBack(w) \/ EvaluateSubscription(w) \/ PublishMatches(w)
           \/ \E w \in Workers : BuildDigest(w)
  <1>1. CASE UNCHANGED <<note, library, sub>>
    BY <1>1, UnchangedRows
  <1>2. CASE Reader
    <2>1. CASE PutPreferences
      BY <1>1, <2>1 DEF PutPreferences
    <2>2. ASSUME NEW k \in DOMAIN note, MarkRead(k) \/ Dismiss(k)
          PROVE  Quieter /\ UNCHANGED <<library, sub>>
      BY <2>2, MarkReadRows DEF MarkRead, Dismiss, account
    <2> QED
      BY <1>2, <2>1, <2>2 DEF Reader
  <1>3. CASE Maintenance
    <2>1. CASE ScheduleDueWork \/ NextDay
      BY <1>1, <2>1 DEF ScheduleDueWork, NextDay, account
    <2>2. CASE CleanupRetention
      BY <2>2, CleanupRows DEF CleanupRetention, account
    <2> QED
      BY <1>3, <2>1, <2>2 DEF Maintenance
  <1>4. ASSUME NEW w \in Workers, Worker(w)
        PROVE  \/ Quieter /\ UNCHANGED <<library, sub>>
               \/ HoldBack(w) \/ EvaluateSubscription(w) \/ PublishMatches(w) \/ BuildDigest(w)
    <2>1. ASSUME NEW k \in work, Claim(w, k)
          PROVE  Quieter /\ UNCHANGED <<library, sub>>
      BY <2>1, UnchangedRows DEF Claim, account
    <2>2. CASE EnqueueRecheck(w) \/ ReadDecision(w) \/ AskForDigest(w) \/ EnqueueDigest(w) \/ EndAttempt(w)
      BY <2>2, UnchangedRows
      DEF EnqueueRecheck, ReadDecision, AskForDigest, EnqueueDigest, EndAttempt, account
    <2>3. CASE ExpireNotifications(w)
      BY <2>3, ExpireRows DEF ExpireNotifications, account
    <2> QED
      BY <1>4, <2>1, <2>2, <2>3 DEF Worker
  <1> QED
    BY <1>1, <1>2, <1>3, <1>4 DEF Next, vars, account

-----------------------------------------------------------------------------
(* Type correctness, in two parts: the rows, and the rest.                 *)
RowsOK ==
    /\ DOMAIN note \subseteq Match \cup Digest
    /\ \A k \in DOMAIN note: note[k] \in Note /\ (k \in Match => note[k].sub \in Subs)
    /\ \A k \in DOMAIN note: note[k].state = "eligible" => None \notin {note[k].at, note[k].on}
    /\ IsFiniteSet(DOMAIN note)
    /\ DigestsAreDated

RestOK ==
    /\ library \in Authority
    /\ prefs \in Preferences
    /\ sub \in [Subs -> [status: {"absent", "live", "deleted"},
                         revision: Nat, seen: SUBSET Papers]]
    /\ changes \in 0..MaxChanges /\ day \in Nat
    /\ work \subseteq Item
    /\ exec \in [Workers -> Exec]
    /\ \A w \in Workers:
         exec[w].at # "idle" => exec[w].job \in Item

LEMMA TypesOK == TypeOK /\ IsFiniteSet(DOMAIN note) /\ DigestsAreDated <=> RowsOK /\ RestOK
  BY DEF TypeOK, RowsOK, RestOK

LEMMA KeptRowsAreOK ==
    ASSUME RowsOK, KeepsRows
    PROVE  RowsOK'
  <1>1. IsFiniteSet(DOMAIN note')
    BY FS_Subset DEF RowsOK, KeepsRows
  <1>2. ASSUME NEW k \in DOMAIN note'
        PROVE  /\ k \in Match \cup Digest
               /\ note'[k] \in Note /\ (k \in Match => note'[k].sub \in Subs)
               /\ note'[k].state = "eligible" => None \notin {note'[k].at, note'[k].on}
               /\ k.kind = "digest" => note'[k].on # None
    BY <1>2 DEF RowsOK, KeepsRows, SameRow, DigestsAreDated
  <1> QED
    BY <1>1, <1>2 DEF RowsOK, DigestsAreDated

LEMMA RowsStep ==
    ASSUME TypeOK, IsFiniteSet(DOMAIN note), DigestsAreDated, HeldBackByQueue, [Next]_vars
    PROVE  RowsOK'
  <1>0. RowsOK
    BY TypesOK
  <1>1. Quieter => KeepsRows
    BY DEF Quieter, QuietRow, KeepsRows
  <1>2. CASE Quieter
    BY <1>0, <1>1, <1>2, KeptRowsAreOK
  <1>3. CASE LibraryChange
    BY <1>0, <1>3, HeldBackRows, KeptRowsAreOK DEF LibraryChange
  <1>4. ASSUME NEW s \in Subs, CreateSubscription(s)
        PROVE  RowsOK'
    BY <1>0, <1>1, <1>4, UnchangedRows, KeptRowsAreOK DEF CreateSubscription
  <1>5. ASSUME NEW s \in Subs, ChangeSubscription(s) \/ DeleteSavedSearch(s)
        PROVE  RowsOK'
    BY <1>0, <1>1, <1>5, WithdrawnRows, KeptRowsAreOK DEF ChangeSubscription, DeleteSavedSearch
  <1>6. ASSUME NEW w \in Workers, HoldBack(w)
        PROVE  RowsOK'
    BY <1>0, <1>6, HeldBackRows, KeptRowsAreOK DEF HoldBack
  <1>7. ASSUME NEW w \in Workers, EvaluateSubscription(w)
        PROVE  RowsOK'
    <2>1. PICK new \in SUBSET Match : \E s \in Subs :
             /\ IsFiniteSet(new)
             /\ DOMAIN note' = DOMAIN note \cup new
             /\ \A k \in DOMAIN note : note'[k] = note[k]
             /\ \A k \in new \ DOMAIN note :
                  /\ note'[k] \in Note
                  /\ note'[k].sub = s /\ note'[k].state = "unknown" /\ note'[k].on = None
      BY <1>7, EvaluatedRows
    <2>2. IsFiniteSet(DOMAIN note')
      BY <2>1, FS_Union
    <2>3. \A k \in new : k.kind # "digest"
      BY KeyKinds
    <2> QED
      BY <1>0, <2>1, <2>2, <2>3 DEF RowsOK, DigestsAreDated
  <1>8. ASSUME NEW w \in Workers, PublishMatches(w)
        PROVE  RowsOK'
    <2>1. PICK shown \in SUBSET DOMAIN note :
             /\ DOMAIN note' = DOMAIN note
             /\ \A k \in DOMAIN note \ shown : note'[k] = note[k]
             /\ \A k \in shown :
                  /\ note'[k] \in Note
                  /\ note'[k].sub = note[k].sub
                  /\ note'[k].on = exec[w].now
                  /\ note'[k].at = exec[w].decision.revision
      BY <1>8, PublishedRows
    <2>2. exec[w].decision.revision \in Nat /\ exec[w].now \in Nat
      BY DEF TypeOK, Exec, Authority
    <2>3. exec[w].decision.revision # None /\ exec[w].now # None
      BY <2>2, NotificationConstants
    <2> QED
      BY <1>0, <2>1, <2>3 DEF RowsOK, DigestsAreDated
  <1>9. ASSUME NEW w \in Workers, BuildDigest(w)
        PROVE  RowsOK'
    <2>1. CASE \E items \in SUBSET Waiting(exec[w].now) :
              \E d \in Digest \ DOMAIN note :
                /\ DOMAIN note' = DOMAIN note \cup {d}
                /\ \A k \in DOMAIN note : QuietRow(k)
                /\ note'[d] \in Note
                /\ note'[d].at = library.revision /\ note'[d].on = exec[w].now
      <3>1. PICK d \in Digest \ DOMAIN note :
                /\ DOMAIN note' = DOMAIN note \cup {d}
                /\ \A k \in DOMAIN note : QuietRow(k)
                /\ note'[d] \in Note
                /\ note'[d].at = library.revision /\ note'[d].on = exec[w].now
        BY <2>1
      <3>2. library.revision \in Nat /\ exec[w].now \in Nat
        BY DEF TypeOK, Exec, Authority
      <3>3. library.revision # None /\ exec[w].now # None
        BY <3>2, NotificationConstants
      <3>4. IsFiniteSet(DOMAIN note')
        BY <3>1, FS_AddElement
      <3>5. d \notin Match
        BY KeyKinds
      <3>6. ASSUME NEW k \in DOMAIN note
            PROVE  /\ note'[k] \in Note /\ (k \in Match => note'[k].sub \in Subs)
                   /\ note'[k].state = "eligible" => None \notin {note'[k].at, note'[k].on}
                   /\ k.kind = "digest" => note'[k].on # None
        BY <1>0, <3>1 DEF RowsOK, QuietRow, SameRow, DigestsAreDated
      <3> QED
        BY <1>0, <3>1, <3>3, <3>4, <3>5, <3>6 DEF RowsOK, DigestsAreDated
    <2> QED
      BY <1>2, <1>9, <2>1, GatheredRows
  <1> QED
    BY <1>2, <1>3, <1>4, <1>5, <1>6, <1>7, <1>8, <1>9, StepShapes

LEMMA IdleType == Idle \in Exec
  BY DEF Idle, Exec, Unread, Authority

(* Where a worker goes, its item stays.                                    *)
LEMMA GotoTypes ==
    ASSUME RestOK, NEW w \in Workers, ~At(w, "idle"),
           NEW step \in {"claimed", "evaluated", "decided", "digest"}, Goto(w, step)
    PROVE  /\ exec' \in [Workers -> Exec]
           /\ \A v \in Workers : exec'[v].at # "idle" => exec'[v].job \in Item
  <1>1. exec[w] \in Exec /\ exec[w].job \in Item
    BY DEF RestOK, At
  <1>2. exec' = [exec EXCEPT ![w] = [exec[w] EXCEPT !.at = step]]
    BY DEF Goto, RestOK
  <1>3. [exec[w] EXCEPT !.at = step] \in Exec /\ [exec[w] EXCEPT !.at = step].job = exec[w].job
    BY <1>1 DEF Exec
  <1> HIDE DEF Exec
  <1> QED
    BY <1>1, <1>2, <1>3 DEF RestOK

LEMMA SettleTypes ==
    ASSUME RestOK, NEW w \in Workers, NEW pending, pending \subseteq Item, Settle(w, pending)
    PROVE  /\ work' \subseteq Item
           /\ exec' \in [Workers -> Exec]
           /\ \A v \in Workers : exec'[v].at # "idle" => exec'[v].job \in Item
  <1>1. Idle.at = "idle"
    BY DEF Idle
  <1> QED
    BY <1>1, IdleType DEF Settle, RestOK

LEMMA ItemTypes == /\ \A kind \in {"recheck", "digest", "expire"} : Work(kind) \in Item
                   /\ \A s \in Subs : Evaluation(s) \in Item
  BY DEF Work, Evaluation, Item

LEMMA ReaderTypes == RestOK /\ Reader => RestOK'
  <1> SUFFICES ASSUME RestOK, Reader PROVE RestOK'
    OBVIOUS
  <1>1. CASE LibraryChange
    <2>1. library' \in Authority
      BY <1>1 DEF LibraryChange, RestOK, Authority
    <2> QED
      BY <1>1, <2>1, ItemTypes, NotificationConstants DEF LibraryChange, Changed, RestOK
  <1>2. CASE PutPreferences
    BY <1>2, NotificationConstants DEF PutPreferences, Changed, RestOK
  <1>3. ASSUME NEW s \in Subs, CreateSubscription(s) \/ ChangeSubscription(s) \/ DeleteSavedSearch(s)
        PROVE  RestOK'
    <2>1. 1..MaxChanges \subseteq Nat
      BY NotificationConstants
    <2>2. changes' \in 0..MaxChanges
      BY <1>3, NotificationConstants
      DEF CreateSubscription, ChangeSubscription, DeleteSavedSearch, Changed, RestOK
    <2>3. sub' \in [Subs -> [status: {"absent", "live", "deleted"},
                            revision: Nat, seen: SUBSET Papers]]
      <3>1. CASE CreateSubscription(s)
        <4>1. PICK r \in 1..MaxChanges : sub' = [sub EXCEPT ![s].status = "live", ![s].revision = r]
          BY <3>1 DEF CreateSubscription
        <4> QED
          BY <2>1, <4>1 DEF RestOK
      <3>2. CASE ChangeSubscription(s)
        <4>1. PICK r \in 1..MaxChanges : \E status \in {"live", "deleted"} :
                sub' = [sub EXCEPT ![s].status = status, ![s].revision = r]
          BY <3>2 DEF ChangeSubscription
        <4>2. PICK status \in {"live", "deleted"} :
                sub' = [sub EXCEPT ![s].status = status, ![s].revision = r]
          BY <4>1
        <4> QED
          BY <2>1, <4>2 DEF RestOK
      <3>3. CASE DeleteSavedSearch(s)
        <4>1. PICK r \in 1..MaxChanges :
                sub' = [sub EXCEPT ![s] = [status |-> "deleted", revision |-> r, seen |-> {}]]
          BY <3>3 DEF DeleteSavedSearch
        <4> QED
          BY <2>1, <4>1 DEF RestOK
      <3> QED
        BY <1>3, <3>1, <3>2, <3>3
    <2>4. work' \subseteq Item
      BY <1>3 DEF CreateSubscription, ChangeSubscription, DeleteSavedSearch, RestOK
    <2> QED
      BY <1>3, <2>2, <2>3, <2>4
      DEF CreateSubscription, ChangeSubscription, DeleteSavedSearch, RestOK
  <1>4. ASSUME NEW k \in DOMAIN note, MarkRead(k) \/ Dismiss(k)
        PROVE  RestOK'
    BY <1>4 DEF MarkRead, Dismiss, account, RestOK
  <1> QED
    BY <1>1, <1>2, <1>3, <1>4 DEF Reader

LEMMA MaintenanceTypes == RestOK /\ Maintenance => RestOK'
  <1> SUFFICES ASSUME RestOK, Maintenance PROVE RestOK'
    OBVIOUS
  <1>1. CASE ScheduleDueWork
    <2>1. work' \subseteq Item
      BY <1>1, ItemTypes DEF ScheduleDueWork, RestOK
    <2> QED
      BY <1>1, <2>1 DEF ScheduleDueWork, account, RestOK
  <1>2. CASE CleanupRetention
    BY <1>2 DEF CleanupRetention, account, RestOK
  <1>3. CASE NextDay
    BY <1>3 DEF NextDay, account, RestOK
  <1> QED
    BY <1>1, <1>2, <1>3 DEF Maintenance

LEMMA WorkerTypes ==
    ASSUME TypeOK, RestOK, NEW w \in Workers, Worker(w)
    PROVE  RestOK'
  <1>1. ASSUME NEW k \in work, Claim(w, k)
        PROVE  RestOK'
    <2>1. k \in Item /\ day \in Nat /\ Unread \in Authority
      BY DEF RestOK, Unread, Authority
    <2> DEFINE e == [at |-> "claimed", job |-> k, now |-> day, decision |-> Unread]
    <2>2. e \in Exec /\ e.job = k
      BY <2>1 DEF Exec
    <2>3. exec' = [exec EXCEPT ![w] = e]
      BY <1>1 DEF Claim
    <2> HIDE DEF e
    <2>4. exec' \in [Workers -> Exec] /\ \A v \in Workers : exec'[v].at # "idle" => exec'[v].job \in Item
      BY <2>1, <2>2, <2>3 DEF RestOK
    <2> QED
      BY <1>1, <2>4 DEF Claim, account, RestOK
  <1>2. CASE EvaluateSubscription(w)
    <2>1. sub' \in [Subs -> [status: {"absent", "live", "deleted"},
                            revision: Nat, seen: SUBSET Papers]]
      BY <1>2, EvaluatedRows
    <2>2. /\ exec' \in [Workers -> Exec]
          /\ \A v \in Workers : exec'[v].at # "idle" => exec'[v].job \in Item
      BY <1>2, GotoTypes DEF EvaluateSubscription, At
    <2> QED
      BY <1>2, <2>1, <2>2 DEF EvaluateSubscription, RestOK
  <1>3. CASE AskForDigest(w)
    BY <1>3, GotoTypes DEF AskForDigest, DigestDue, ProvenEmpty, At, account, RestOK
  <1>4. CASE ReadDecision(w)
    <2>1. exec[w] \in Exec /\ exec[w].job \in Item /\ library \in Authority
      BY <1>4 DEF ReadDecision, At, RestOK
    <2> DEFINE e == [exec[w] EXCEPT !.at = "decided", !.decision = library]
    <2>2. e \in Exec /\ e.job = exec[w].job
      BY <2>1 DEF Exec
    <2>3. exec' = [exec EXCEPT ![w] = e]
      BY <1>4 DEF ReadDecision, RestOK
    <2> HIDE DEF e
    <2>4. exec' \in [Workers -> Exec] /\ \A v \in Workers : exec'[v].at # "idle" => exec'[v].job \in Item
      BY <2>1, <2>2, <2>3 DEF RestOK
    <2> QED
      BY <1>4, <2>4 DEF ReadDecision, account, RestOK
  <1>5. work \subseteq Item /\ work \cup {Work("recheck")} \subseteq Item /\ work \cup {Work("digest")} \subseteq Item
    BY ItemTypes DEF RestOK
  <1>6. ASSUME \E pending \in SUBSET Item : Settle(w, pending), UNCHANGED <<account, day>>
        PROVE  RestOK'
    BY <1>6, SettleTypes DEF RestOK, account
  <1>7. CASE EnqueueRecheck(w) \/ HoldBack(w) \/ PublishMatches(w) \/ EnqueueDigest(w) \/ BuildDigest(w)
               \/ ExpireNotifications(w) \/ EndAttempt(w)
    BY <1>5, <1>6, <1>7
    DEF EnqueueRecheck, HoldBack, PublishMatches, EnqueueDigest, BuildDigest, ExpireNotifications, EndAttempt
  <1> QED
    BY <1>1, <1>2, <1>3, <1>4, <1>7 DEF Worker

LEMMA TypesStep == TypeOK /\ RestOK /\ [Next]_vars => RestOK'
  <1> SUFFICES ASSUME TypeOK, RestOK, [Next]_vars PROVE RestOK'
    OBVIOUS
  <1>1. CASE UNCHANGED vars
    BY <1>1 DEF vars, account, RestOK
  <1> QED
    BY <1>1, ReaderTypes, MaintenanceTypes, WorkerTypes DEF Next

-----------------------------------------------------------------------------
(* What is shown, and what is held back.                                   *)
LEMMA AuthorityStep ==
    ASSUME IInv, [Next]_vars
    PROVE  EligibleIsAuthorized' /\ HeldBackByQueue'
  <1> USE DEF IInv
  <1>0. library \in Authority
    BY DEF TypeOK
  <1>1. ASSUME UNCHANGED library, NEW k \in DOMAIN note, QuietRow(k)
        PROVE  /\ Eligible(k)' => library' = [revision |-> note'[k].at, active |-> FALSE]
               /\ Held(k)' => library'.active
    <2>1. note[k] \in Note /\ note'[k] \in Note
      BY <1>1 DEF TypeOK, QuietRow, SameRow
    <2>2. Eligible(k)' => Eligible(k) /\ note'[k].at = note[k].at
      BY <1>1, <2>1, RowFields DEF QuietRow, SameRow, Eligible
    <2> QED
      BY <1>1, <2>2 DEF QuietRow, Held, EligibleIsAuthorized, HeldBackByQueue
  <1>2. CASE Quieter /\ UNCHANGED library
    BY <1>1, <1>2 DEF Quieter, EligibleIsAuthorized, HeldBackByQueue, Held
  <1>3. CASE LibraryChange
    BY <1>3, HeldBackRows DEF LibraryChange, EligibleIsAuthorized, HeldBackByQueue, Held
  <1>4. ASSUME NEW s \in Subs, CreateSubscription(s) \/ ChangeSubscription(s) \/ DeleteSavedSearch(s)
        PROVE  Quieter /\ UNCHANGED library
    BY <1>4, UnchangedRows, WithdrawnRows
    DEF CreateSubscription, ChangeSubscription, DeleteSavedSearch
  <1>5. ASSUME NEW w \in Workers, HoldBack(w)
        PROVE  EligibleIsAuthorized' /\ HeldBackByQueue'
    <2>1. library' = library /\ library.active
      BY <1>5 DEF HoldBack, Stale, account
    <2> QED
      BY <1>5, <2>1, HeldBackRows DEF HoldBack, EligibleIsAuthorized, HeldBackByQueue
  <1>6. ASSUME NEW w \in Workers, EvaluateSubscription(w)
        PROVE  EligibleIsAuthorized' /\ HeldBackByQueue'
    <2>1. PICK new \in SUBSET Match : \E s \in Subs :
             /\ DOMAIN note' = DOMAIN note \cup new
             /\ \A k \in DOMAIN note : note'[k] = note[k]
             /\ \A k \in new \ DOMAIN note : note'[k].state = "unknown"
      BY <1>6, EvaluatedRows
    <2>2. library' = library
      BY <1>6 DEF EvaluateSubscription
    <2> QED
      BY <2>1, <2>2 DEF EligibleIsAuthorized, HeldBackByQueue, Eligible
  <1>7. ASSUME NEW w \in Workers, PublishMatches(w)
        PROVE  EligibleIsAuthorized' /\ HeldBackByQueue'
    <2>1. PICK shown \in SUBSET DOMAIN note :
             /\ DOMAIN note' = DOMAIN note
             /\ \A k \in DOMAIN note \ shown : note'[k] = note[k]
             /\ \A k \in shown : note'[k].state = "eligible" /\ note'[k].at = exec[w].decision.revision
      BY <1>7, PublishedRows
    <2>2. library' = library /\ library = exec[w].decision /\ ~library.active
      BY <1>7, NothingIsHidden DEF PublishMatches, account
    <2>3. library = [revision |-> exec[w].decision.revision, active |-> FALSE]
      BY <1>0, <2>2 DEF Authority
    <2> QED
      BY <2>1, <2>2, <2>3 DEF EligibleIsAuthorized, HeldBackByQueue, Eligible
  <1>8. ASSUME NEW w \in Workers, BuildDigest(w)
        PROVE  EligibleIsAuthorized' /\ HeldBackByQueue'
    <2>1. library' = library
      BY <1>8 DEF BuildDigest, account
    <2>2. ProvenEmpty(w)
      BY <1>8 DEF BuildDigest, DigestDue
    <2>3. library = [revision |-> library.revision, active |-> FALSE]
      BY <1>0, <2>2, NothingIsHidden DEF Authority
    <2>4. ASSUME NEW d \in Digest \ DOMAIN note,
                 DOMAIN note' = DOMAIN note \cup {d},
                 \A k \in DOMAIN note : QuietRow(k),
                 note'[d].state = "eligible", note'[d].at = library.revision
          PROVE  EligibleIsAuthorized' /\ HeldBackByQueue'
      BY <1>1, <2>1, <2>3, <2>4 DEF EligibleIsAuthorized, HeldBackByQueue, Held
    <2> QED
      BY <1>2, <1>8, <2>1, <2>4, GatheredRows
  <1> QED
    BY <1>2, <1>3, <1>4, <1>5, <1>6, <1>7, <1>8, StepShapes

(* What is withdrawn, and by whom a match was found.                       *)
LEMMA RowKinds ==
    ASSUME TypeOK, NEW k \in DOMAIN note
    PROVE  /\ k.kind \in {"match", "digest"}
           /\ k \in Match <=> k.kind = "match"
           /\ note[k] \in Note
           /\ k.kind = "match" => note[k].sub \in Subs
           /\ \A m \in Sources(k) : m.kind = "match"
  <1>1. /\ k.kind \in {"match", "digest"} /\ (k \in Match <=> k.kind = "match")
        /\ note[k] \in Note /\ (k.kind = "match" => note[k].sub \in Subs)
    BY KeyKinds DEF TypeOK
  <1>2. \A m \in note[k].items : m.kind = "match"
    BY <1>1, RowFields, KeyKinds
  <1> QED
    BY <1>1, <1>2 DEF Sources

(* A match is fine where its row and its subscription stay as they were.   *)
LEMMA KeptAreWithdrawn ==
    ASSUME TypeOK, WithdrawnIsHidden,
           DOMAIN note' \subseteq DOMAIN note,
           \A k \in DOMAIN note' : /\ note'[k].sub = note[k].sub
                                   /\ note'[k].items = note[k].items
                                   /\ note[k].state = "expired" => note'[k].state = "expired",
           \A m \in DOMAIN note' : m.kind = "match" => sub'[note[m].sub].status # "absent",
           \A k \in DOMAIN note' : note'[k].state # "expired" =>
               \A m \in Sources(k) \cap DOMAIN note' :
                  /\ sub'[note[m].sub].status = sub[note[m].sub].status
                  /\ sub'[note[m].sub].revision = sub[note[m].sub].revision
    PROVE  MatchesHaveSubscriptions' /\ WithdrawnIsHidden'
  <1>1. MatchesHaveSubscriptions'
    BY DEF MatchesHaveSubscriptions
  <1>2. ASSUME NEW k \in DOMAIN note', note'[k].state # "expired", NEW m \in Sources(k)' \cap DOMAIN note'
        PROVE  /\ sub'[note'[m].sub].revision = m.batch
               /\ sub'[note'[m].sub].status # "deleted"
    <2>1. k \in DOMAIN note /\ note[k].state # "expired" /\ Sources(k)' = Sources(k)
      BY <1>2 DEF Sources
    <2>2. m \in Sources(k) \cap DOMAIN note /\ note'[m].sub = note[m].sub
      BY <1>2, <2>1
    <2> QED
      BY <1>2, <2>1, <2>2 DEF WithdrawnIsHidden
  <1> QED
    BY <1>1, <1>2 DEF WithdrawnIsHidden

LEMMA WithdrawalStep ==
    ASSUME IInv, [Next]_vars
    PROVE  MatchesHaveSubscriptions' /\ WithdrawnIsHidden'
  <1> USE DEF IInv
  <1>1. CASE KeepsRows /\ UNCHANGED sub
    BY <1>1, KeptAreWithdrawn DEF KeepsRows, SameRow, MatchesHaveSubscriptions
  <1>2. CASE Quieter /\ UNCHANGED sub
    BY <1>1, <1>2 DEF Quieter, QuietRow, KeepsRows
  <1>3. CASE LibraryChange
    BY <1>1, <1>3, HeldBackRows DEF LibraryChange
  <1>4. ASSUME NEW w \in Workers, HoldBack(w)
        PROVE  KeepsRows /\ UNCHANGED sub
    BY <1>4, HeldBackRows DEF HoldBack, account
  <1>5. ASSUME NEW s \in Subs, CreateSubscription(s)
        PROVE  MatchesHaveSubscriptions' /\ WithdrawnIsHidden'
    <2>1. /\ note' = note /\ sub[s].status = "absent" /\ sub'[s].status = "live"
          /\ \A t \in Subs \ {s} : sub'[t] = sub[t]
      BY <1>5 DEF CreateSubscription, TypeOK
    <2>2. \A m \in DOMAIN note : m.kind = "match" => note[m].sub \in Subs \ {s}
      BY <2>1, RowKinds DEF MatchesHaveSubscriptions
    <2>3. \A k \in DOMAIN note : \A m \in Sources(k) \cap DOMAIN note : note[m].sub \in Subs \ {s}
      BY <2>2, RowKinds
    <2> QED
      BY <2>1, <2>2, <2>3, KeptAreWithdrawn DEF MatchesHaveSubscriptions
  <1>6. ASSUME NEW s \in Subs, ChangeSubscription(s) \/ DeleteSavedSearch(s)
        PROVE  MatchesHaveSubscriptions' /\ WithdrawnIsHidden'
    <2>1. note' = Withdrawn(s)
      BY <1>6 DEF ChangeSubscription, DeleteSavedSearch
    <2>2. sub'[s].status # "absent"
      <3>1. CASE ChangeSubscription(s)
        BY <3>1 DEF ChangeSubscription, TypeOK
      <3>2. CASE DeleteSavedSearch(s)
        BY <3>2 DEF DeleteSavedSearch, TypeOK
      <3> QED
        BY <1>6, <3>1, <3>2
    <2>3. \A t \in Subs \ {s} : sub'[t] = sub[t]
      BY <1>6 DEF ChangeSubscription, DeleteSavedSearch, TypeOK
    <2>4. /\ DOMAIN note' = DOMAIN note /\ \A k \in DOMAIN note' : SameRow(k)
          /\ \A k \in Derived(s) : note'[k].state = "expired"
      BY <2>1, WithdrawnRows DEF Quieter, QuietRow
    <2>5. ASSUME NEW k \in DOMAIN note', note'[k].state # "expired", NEW m \in Sources(k) \cap DOMAIN note'
          PROVE  note[m].sub \in Subs \ {s}
      <3>1. k \notin Derived(s)
        BY <2>4, <2>5
      <3>2. m.kind = "match" /\ note[m].sub \in Subs
        BY <2>4, RowKinds
      <3>3. SUFFICES ASSUME note[m].sub = s PROVE FALSE
        BY <3>2
      <3>4. m \in {l \in OfKind("match"): note[l].sub = s}
        BY <2>4, <3>2, <3>3 DEF OfKind
      <3>5. k.kind = "match" \/ (k.kind = "digest" /\ m \in note[k].items)
        BY <2>4, RowKinds DEF Sources
      <3> QED
        BY <2>4, <3>1, <3>4, <3>5 DEF Derived, Sources, OfKind
    <2>6. \A m \in DOMAIN note' : m.kind = "match" => sub'[note[m].sub].status # "absent"
      BY <2>2, <2>3, <2>4, RowKinds DEF MatchesHaveSubscriptions
    <2> QED
      BY <2>3, <2>4, <2>5, <2>6, KeptAreWithdrawn DEF SameRow
  <1>7. ASSUME NEW w \in Workers, PublishMatches(w)
        PROVE  MatchesHaveSubscriptions' /\ WithdrawnIsHidden'
    <2>1. PICK shown \in SUBSET DOMAIN note :
             /\ DOMAIN note' = DOMAIN note
             /\ \A k \in DOMAIN note \ shown : note'[k] = note[k]
             /\ \A k \in shown : /\ Publishable(k)
                                 /\ note'[k].sub = note[k].sub /\ note'[k].items = note[k].items
      BY <1>7, PublishedRows
    <2>2. sub' = sub
      BY <1>7 DEF PublishMatches, account
    <2>3. \A k \in shown : note[k].state # "expired"
      BY <2>1 DEF Publishable, Deferred
    <2>4. \A k \in DOMAIN note : /\ note'[k].sub = note[k].sub
                                 /\ note'[k].items = note[k].items
                                 /\ note[k].state = "expired" => note'[k].state = "expired"
      BY <2>1, <2>3
    <2> QED
      BY <2>1, <2>2, <2>4, KeptAreWithdrawn DEF MatchesHaveSubscriptions
  <1>8. ASSUME NEW w \in Workers, EvaluateSubscription(w)
        PROVE  MatchesHaveSubscriptions' /\ WithdrawnIsHidden'
    <2>1. PICK new \in SUBSET Match : \E s \in Subs :
             /\ IsFiniteSet(new)
             /\ DOMAIN note' = DOMAIN note \cup new
             /\ \A k \in DOMAIN note : note'[k] = note[k]
             /\ \A k \in new \ DOMAIN note :
                  /\ note'[k] \in Note
                  /\ note'[k].sub = s /\ note'[k].state = "unknown" /\ note'[k].on = None
                  /\ sub[s].status = "live" /\ k.batch = sub[s].revision
             /\ sub' \in [Subs -> [status: {"absent", "live", "deleted"},
                                   revision: Nat, seen: SUBSET Papers]]
             /\ \A t \in Subs : /\ sub'[t].status = sub[t].status
                                /\ sub'[t].revision = sub[t].revision
      BY <1>8, EvaluatedRows
    <2>2. PICK s \in Subs :
             /\ IsFiniteSet(new)
             /\ DOMAIN note' = DOMAIN note \cup new
             /\ \A k \in DOMAIN note : note'[k] = note[k]
             /\ \A k \in new \ DOMAIN note :
                  /\ note'[k] \in Note
                  /\ note'[k].sub = s /\ note'[k].state = "unknown" /\ note'[k].on = None
                  /\ sub[s].status = "live" /\ k.batch = sub[s].revision
             /\ sub' \in [Subs -> [status: {"absent", "live", "deleted"},
                                   revision: Nat, seen: SUBSET Papers]]
             /\ \A t \in Subs : /\ sub'[t].status = sub[t].status
                                /\ sub'[t].revision = sub[t].revision
      BY <2>1
    <2>3. \A k \in new : k.kind = "match"
      BY KeyKinds
    <2>4. MatchesHaveSubscriptions'
      BY <2>2, RowKinds DEF MatchesHaveSubscriptions
    <2>5. ASSUME NEW k \in DOMAIN note', note'[k].state # "expired", NEW m \in Sources(k)' \cap DOMAIN note'
          PROVE  /\ sub'[note'[m].sub].revision = m.batch
                 /\ sub'[note'[m].sub].status # "deleted"
      <3>1. CASE m \in new \ DOMAIN note
        BY <2>2, <3>1
      <3>2. CASE m \in DOMAIN note
        <4>1. k \in DOMAIN note
          BY <2>2, <2>3, <2>5, <3>2 DEF Sources
        <4>2. note'[k] = note[k] /\ note'[m] = note[m]
          BY <2>2, <3>2, <4>1
        <4>3. m \in Sources(k) /\ note[k].state # "expired"
          BY <2>5, <4>2 DEF Sources
        <4>4. note[m].sub \in Subs
          BY <3>2, <4>1, <4>3, RowKinds
        <4> QED
          BY <2>2, <3>2, <4>1, <4>2, <4>3, <4>4 DEF WithdrawnIsHidden
      <3> QED
        BY <2>2, <3>1, <3>2
    <2> QED
      BY <2>4, <2>5 DEF WithdrawnIsHidden
  <1>9. ASSUME NEW w \in Workers, BuildDigest(w)
        PROVE  MatchesHaveSubscriptions' /\ WithdrawnIsHidden'
    <2>1. sub' = sub
      BY <1>9 DEF BuildDigest, account
    <2>2. ASSUME NEW items \in SUBSET Waiting(exec[w].now), NEW d \in Digest \ DOMAIN note,
                 DOMAIN note' = DOMAIN note \cup {d}, \A k \in DOMAIN note : QuietRow(k),
                 note'[d].items = items
          PROVE  MatchesHaveSubscriptions' /\ WithdrawnIsHidden'
      <3>1. d.kind = "digest"
        BY KeyKinds
      <3>2. MatchesHaveSubscriptions'
        BY <2>1, <2>2, <3>1 DEF MatchesHaveSubscriptions, QuietRow, SameRow
      <3>3. ASSUME NEW k \in DOMAIN note', note'[k].state # "expired", NEW m \in Sources(k)' \cap DOMAIN note'
            PROVE  /\ sub[note'[m].sub].revision = m.batch
                   /\ sub[note'[m].sub].status # "deleted"
        <4>1. CASE k \in DOMAIN note
          <5>1. note[k].state # "expired" /\ m \in Sources(k)
            BY <2>2, <3>3, <4>1 DEF QuietRow, SameRow, Sources
          <5>2. m.kind = "match"
            BY <4>1, <5>1, RowKinds
          <5>3. m \in DOMAIN note
            BY <2>2, <3>1, <3>3, <5>2
          <5>4. note'[m].sub = note[m].sub
            BY <2>2, <5>3 DEF QuietRow, SameRow
          <5> QED
            BY <4>1, <5>1, <5>3, <5>4 DEF WithdrawnIsHidden
        <4>2. CASE k = d
          <5>1. m \in items
            BY <2>2, <3>1, <3>3, <4>2 DEF Sources
          <5>2. m \in DOMAIN note /\ m.kind = "match" /\ note[m].state # "expired"
            BY <5>1 DEF Waiting, OfKind, Deferred
          <5>3. m \in Sources(m) /\ note'[m].sub = note[m].sub
            BY <2>2, <5>2 DEF Sources, QuietRow, SameRow
          <5> QED
            BY <5>2, <5>3 DEF WithdrawnIsHidden
        <4> QED
          BY <2>2, <4>1, <4>2
      <3> QED
        BY <2>1, <3>2, <3>3 DEF WithdrawnIsHidden
    <2> QED
      BY <1>2, <1>9, <2>1, <2>2, GatheredRows
  <1> QED
    BY <1>1, <1>2, <1>3, <1>4, <1>5, <1>6, <1>7, <1>8, <1>9, StepShapes

(* No paper twice.                                                         *)
LEMMA OnceStep ==
    ASSUME IInv, [Next]_vars
    PROVE  PaperShownOnce'
  <1> USE DEF IInv
  <1>1. CASE \A k \in DOMAIN note' : Eligible(k)' /\ k.kind = "match" => k \in DOMAIN note /\ Eligible(k)
    BY <1>1 DEF PaperShownOnce, OnePerPaper, OfKind
  <1>2. ASSUME NEW k \in DOMAIN note, SameRow(k), Eligible(k)'
        PROVE  Eligible(k)
    <2>1. note[k] \in Note
      BY DEF TypeOK
    <2> QED
      BY <1>2, <2>1, RowFields DEF SameRow, Eligible
  <1>3. CASE Quieter \/ KeepsRows
    BY <1>1, <1>2, <1>3 DEF Quieter, QuietRow, KeepsRows
  <1>4. CASE LibraryChange
    BY <1>3, <1>4, HeldBackRows DEF LibraryChange
  <1>5. ASSUME NEW s \in Subs, CreateSubscription(s) \/ ChangeSubscription(s) \/ DeleteSavedSearch(s)
        PROVE  Quieter
    BY <1>5, UnchangedRows, WithdrawnRows
    DEF CreateSubscription, ChangeSubscription, DeleteSavedSearch
  <1>6. ASSUME NEW w \in Workers, HoldBack(w)
        PROVE  KeepsRows
    BY <1>6, HeldBackRows DEF HoldBack
  <1>7. ASSUME NEW w \in Workers, EvaluateSubscription(w)
        PROVE  PaperShownOnce'
    <2>1. PICK new \in SUBSET Match : \E s \in Subs :
             /\ DOMAIN note' = DOMAIN note \cup new
             /\ \A k \in DOMAIN note : note'[k] = note[k]
             /\ \A k \in new \ DOMAIN note : note'[k].state = "unknown"
      BY <1>7, EvaluatedRows
    <2> QED
      BY <1>1, <2>1 DEF Eligible
  <1>8. ASSUME NEW w \in Workers, PublishMatches(w)
        PROVE  PaperShownOnce'
    <2>1. PICK shown \in SUBSET DOMAIN note :
             /\ OnePerPaper(shown)
             /\ DOMAIN note' = DOMAIN note
             /\ \A k \in DOMAIN note \ shown : note'[k] = note[k]
             /\ \A k \in shown : k.kind = "match" /\ Publishable(k)
      BY <1>8, PublishedRows
    <2>2. \A k \in DOMAIN note \ shown : Eligible(k)' => Eligible(k)
      BY <2>1 DEF Eligible
    <2>3. ASSUME NEW k \in DOMAIN note', NEW l \in DOMAIN note',
                 k.kind = "match", l.kind = "match", Eligible(k)', Eligible(l)', k.about = l.about
          PROVE  k = l
      BY <2>1, <2>2, <2>3 DEF Publishable, OnePerPaper, PaperShownOnce, OfKind
    <2> QED
      BY <2>3 DEF PaperShownOnce, OnePerPaper, OfKind
  <1>9. ASSUME NEW w \in Workers, BuildDigest(w)
        PROVE  PaperShownOnce'
    <2>1. ASSUME NEW d \in Digest \ DOMAIN note,
                 DOMAIN note' = DOMAIN note \cup {d}, \A k \in DOMAIN note : QuietRow(k)
          PROVE  PaperShownOnce'
      <3>1. d.kind = "digest"
        BY KeyKinds
      <3> QED
        BY <1>1, <1>2, <2>1, <3>1 DEF QuietRow
    <2> QED
      BY <1>3, <1>9, <2>1, GatheredRows
  <1> QED
    BY <1>3, <1>4, <1>5, <1>6, <1>7, <1>8, <1>9, StepShapes

-----------------------------------------------------------------------------
(* The deliveries of a day.                                                *)
LEMMA DeliveredShrinks ==
    ASSUME IsFiniteSet(DOMAIN note), TypeOK, NEW d,
           \A k \in DOMAIN note' : note'[k].on = d => k \in DOMAIN note /\ note[k].on = d
    PROVE  Delivered(d)' <= Delivered(d)
  <1>1. {k \in DOMAIN note : note[k].on = d} \in SUBSET DOMAIN note
    OBVIOUS
  <1>2. IsFiniteSet({k \in DOMAIN note : note[k].on = d})
    BY <1>1, FS_Subset
  <1>3. {k \in DOMAIN note' : note'[k].on = d} \in SUBSET {k \in DOMAIN note : note[k].on = d}
    OBVIOUS
  <1> QED
    BY <1>2, <1>3, FS_Subset DEF Delivered

(* Rows that a step has dated count at most as many as they are.           *)
LEMMA DeliveredGrows ==
    ASSUME IsFiniteSet(DOMAIN note), TypeOK, NEW d, NEW more, IsFiniteSet(more),
           \A k \in DOMAIN note' : note'[k].on = d => k \in more \/ (k \in DOMAIN note /\ note[k].on = d)
    PROVE  Delivered(d)' <= Delivered(d) + Cardinality(more)
  <1> DEFINE before == {k \in DOMAIN note : note[k].on = d}
             after == {k \in DOMAIN note' : note'[k].on = d}
  <1>1. IsFiniteSet(before)
    BY FS_Subset
  <1>2. after \in SUBSET (before \cup more)
    OBVIOUS
  <1>3. Delivered(d) = Cardinality(before) /\ Delivered(d)' = Cardinality(after)
    BY DEF Delivered
  <1> HIDE DEF before, after
  <1>4. /\ IsFiniteSet(before \cup more)
        /\ Cardinality(before \cup more)
             = Cardinality(before) + Cardinality(more) - Cardinality(before \cap more)
    BY <1>1, FS_Union
  <1>5. Cardinality(before \cap more) \in Nat /\ Cardinality(before) \in Nat /\ Cardinality(more) \in Nat
    BY <1>1, FS_Intersection, FS_CardinalityType
  <1>6. Cardinality(after) <= Cardinality(before \cup more) /\ IsFiniteSet(after)
    BY <1>2, <1>4, FS_Subset
  <1>7. Cardinality(after) \in Nat
    BY <1>6, FS_CardinalityType
  <1> QED
    BY <1>3, <1>4, <1>5, <1>6, <1>7

(* Rows dated by one statement, no more of them than there is room for.    *)
LEMMA DatedRowsFit ==
    ASSUME IsFiniteSet(DOMAIN note), IsFiniteSet(DOMAIN note'), TypeOK,
           NEW d, NEW now, NEW more, IsFiniteSet(more), more # {},
           Cardinality(more) <= Capacity(now),
           \A k \in DOMAIN note' : (k \in more /\ note'[k].on = now)
                                     \/ (k \in DOMAIN note /\ note'[k].on = note[k].on)
    PROVE  Delivered(d)' <= prefs.budget \/ Delivered(d)' <= Delivered(d)
  <1>1. CASE d # now
    BY <1>1, DeliveredShrinks
  <1>2. CASE d = now
    <2>1. Cardinality(more) \in Nat /\ Cardinality(more) # 0
      BY FS_CardinalityType, FS_EmptySet
    <2>2. Capacity(d) \in Nat /\ Delivered(d) \in Nat /\ prefs.budget \in Nat
      BY CapacityType
    <2>3. Delivered(d) < prefs.budget /\ Capacity(d) = prefs.budget - Delivered(d)
      BY <1>2, <2>1, <2>2 DEF Capacity
    <2>4. Delivered(d)' <= Delivered(d) + Cardinality(more)
      BY DeliveredGrows
    <2>5. Delivered(d)' \in Nat
      <3>1. IsFiniteSet({k \in DOMAIN note' : note'[k].on = d})
        BY FS_Subset
      <3> QED
        BY <3>1, FS_CardinalityType DEF Delivered
    <2> QED
      BY <1>2, <2>1, <2>2, <2>3, <2>4, <2>5
  <1> QED
    BY <1>1, <1>2

LEMMA BudgetStep ==
    ASSUME IInv, [Next]_vars, NEW d \in 1..MaxDay
    PROVE  Delivered(d)' <= prefs.budget \/ Delivered(d)' <= Delivered(d)
  <1> USE DEF IInv
  <1>0. d # None
    BY NotificationConstants
  <1>1. CASE KeepsRows
    BY <1>1, DeliveredShrinks DEF KeepsRows, SameRow
  <1>2. CASE Quieter
    BY <1>1, <1>2 DEF Quieter, QuietRow, KeepsRows
  <1>3. CASE LibraryChange
    BY <1>1, <1>3, HeldBackRows DEF LibraryChange
  <1>4. ASSUME NEW s \in Subs, CreateSubscription(s) \/ ChangeSubscription(s) \/ DeleteSavedSearch(s)
        PROVE  Quieter
    BY <1>4, UnchangedRows, WithdrawnRows
    DEF CreateSubscription, ChangeSubscription, DeleteSavedSearch
  <1>5. ASSUME NEW w \in Workers, HoldBack(w)
        PROVE  KeepsRows
    BY <1>5, HeldBackRows DEF HoldBack
  <1>6. ASSUME NEW w \in Workers, EvaluateSubscription(w)
        PROVE  Delivered(d)' <= Delivered(d)
    <2>1. PICK new \in SUBSET Match : \E s \in Subs :
             /\ DOMAIN note' = DOMAIN note \cup new
             /\ \A k \in DOMAIN note : note'[k] = note[k]
             /\ \A k \in new \ DOMAIN note : note'[k].on = None
      BY <1>6, EvaluatedRows
    <2> QED
      BY <1>0, <2>1, DeliveredShrinks
  <1>7. IsFiniteSet(DOMAIN note')
    BY RowsStep DEF RowsOK
  <1>8. ASSUME NEW w \in Workers, PublishMatches(w)
        PROVE  Delivered(d)' <= prefs.budget \/ Delivered(d)' <= Delivered(d)
    <2>1. PICK room \in 0..Capacity(exec[w].now) : \E shown \in SUBSET DOMAIN note :
             /\ Cardinality(shown) <= room
             /\ DOMAIN note' = DOMAIN note
             /\ \A k \in DOMAIN note \ shown : note'[k] = note[k]
             /\ \A k \in shown : note'[k].on = exec[w].now
      BY <1>8, PublishedRows
    <2>2. PICK shown \in SUBSET DOMAIN note :
             /\ Cardinality(shown) <= room
             /\ DOMAIN note' = DOMAIN note
             /\ \A k \in DOMAIN note \ shown : note'[k] = note[k]
             /\ \A k \in shown : note'[k].on = exec[w].now
      BY <2>1
    <2>3. IsFiniteSet(shown) /\ Cardinality(shown) \in Nat
      BY FS_Subset, FS_CardinalityType
    <2>4. Cardinality(shown) <= Capacity(exec[w].now)
      BY <2>2, <2>3, CapacityType
    <2>5. CASE shown = {}
      BY <2>2, <2>5, DeliveredShrinks
    <2>6. CASE shown # {}
      <3>1. \A k \in DOMAIN note' : (k \in shown /\ note'[k].on = exec[w].now)
                                     \/ (k \in DOMAIN note /\ note'[k].on = note[k].on)
        BY <2>2
      <3>2. IsFiniteSet(DOMAIN note) /\ TypeOK
        OBVIOUS
      <3> HIDE DEF IInv
      <3> QED
        BY <1>7, <2>3, <2>4, <2>6, <3>1, <3>2, DatedRowsFit
    <2> QED
      BY <2>5, <2>6
  <1>9. ASSUME NEW w \in Workers, BuildDigest(w)
        PROVE  Delivered(d)' <= prefs.budget \/ Delivered(d)' <= Delivered(d)
    <2>1. ASSUME NEW items \in SUBSET Waiting(exec[w].now), NEW e \in Digest \ DOMAIN note,
                 items # {}, Cardinality(items) <= Capacity(exec[w].now),
                 DOMAIN note' = DOMAIN note \cup {e}, \A k \in DOMAIN note : QuietRow(k),
                 note'[e].on = exec[w].now
          PROVE  Delivered(d)' <= prefs.budget \/ Delivered(d)' <= Delivered(d)
      <3>1. IsFiniteSet({e}) /\ Cardinality({e}) = 1
        BY FS_Singleton
      <3>2. IsFiniteSet(items)
        BY FS_Subset DEF Waiting, OfKind
      <3>3. Cardinality(items) \in Nat /\ Cardinality(items) # 0
        BY <2>1, <3>2, FS_CardinalityType, FS_EmptySet
      <3>4. Cardinality({e}) <= Capacity(exec[w].now)
        BY <2>1, <3>1, <3>3, CapacityType
      <3>5. \A k \in DOMAIN note' : (k \in {e} /\ note'[k].on = exec[w].now)
                                     \/ (k \in DOMAIN note /\ note'[k].on = note[k].on)
        BY <2>1 DEF QuietRow, SameRow
      <3>6. IsFiniteSet(DOMAIN note) /\ TypeOK
        OBVIOUS
      <3> HIDE DEF IInv
      <3> QED
        BY <1>7, <3>1, <3>4, <3>5, <3>6, DatedRowsFit
    <2> QED
      BY <1>2, <1>9, <2>1, GatheredRows
  <1> QED
    BY <1>2, <1>3, <1>1, <1>4, <1>5, <1>6, <1>8, <1>9, StepShapes

-----------------------------------------------------------------------------
(* The invariant holds in every state: nothing is shown before there is a  *)
(* row, and each part is kept by every step under all of them.             *)
THEOREM NotificationsInvariant == Spec => []IInv
  <1>1. Init => IInv
    <2> SUFFICES ASSUME Init PROVE IInv
      OBVIOUS
    <2>1. DOMAIN note = {}
      BY DEF Init, NoRows
    <2>2. RestOK
      <3>1. Unread \in Authority /\ Idle.at = "idle"
        BY DEF Unread, Authority, Idle
      <3> QED
        BY <3>1, IdleType, NotificationConstants DEF Init, RestOK
    <2>3. RowsOK
      BY <2>1, FS_EmptySet DEF RowsOK, DigestsAreDated
    <2>4. /\ MatchesHaveSubscriptions /\ EligibleIsAuthorized /\ HeldBackByQueue
          /\ WithdrawnIsHidden /\ PaperShownOnce
      BY <2>1 DEF MatchesHaveSubscriptions, EligibleIsAuthorized, HeldBackByQueue,
                  WithdrawnIsHidden, PaperShownOnce, OnePerPaper, OfKind
    <2> QED
      BY <2>2, <2>3, <2>4, TypesOK DEF IInv
  <1>2. IInv /\ [Next]_vars => IInv'
    <2> SUFFICES ASSUME IInv, [Next]_vars PROVE IInv'
      OBVIOUS
    <2>1. RowsOK' /\ RestOK'
      BY RowsStep, TypesStep, TypesOK DEF IInv
    <2>2. TypeOK' /\ IsFiniteSet(DOMAIN note)' /\ DigestsAreDated'
      BY <2>1 DEF TypeOK, RowsOK, RestOK
    <2> QED
      BY <2>2, AuthorityStep, WithdrawalStep, OnceStep DEF IInv
  <1> QED
    BY <1>1, <1>2, PTL DEF Spec

(* Rows, items and workers keep their types, and a published row names the *)
(* revision and the day it was published at: the constraints of the table  *)
(* are never what refuses a statement.                                     *)
THEOREM NotificationTypes == Spec => []TypeOK
  BY NotificationsInvariant, PTL DEF IInv

(* What is shown was published at the present revision of the library, at  *)
(* which nothing is left to read.                                          *)
THEOREM ShownIsAuthorized == Spec => []EligibleIsAuthorized
  BY NotificationsInvariant, PTL DEF IInv

(* No match of a subscription is shown, or may be, after it has changed.   *)
THEOREM WithdrawnStaysHidden == Spec => []WithdrawnIsHidden
  BY NotificationsInvariant, PTL DEF IInv

(* No two matches of one paper are shown.                                  *)
THEOREM PapersAreShownOnce == Spec => []PaperShownOnce
  BY NotificationsInvariant, PTL DEF IInv

(* Where a worker finds the queue empty there is no digest to bring back:  *)
(* the statement that restores a hidden digest never finds a row.  What    *)
(* the run notifications_digest shows of one account, holds of any.        *)
THEOREM HiddenDigestsAreNeverRestored ==
    Spec => [](\A w \in Workers : ProvenEmpty(w) => Restorable(exec[w].now) = {})
  <1>1. IInv => \A w \in Workers : ProvenEmpty(w) => Restorable(exec[w].now) = {}
    BY NothingIsHidden DEF IInv, Restorable
  <1> QED
    BY <1>1, NotificationsInvariant, PTL

(* A step that delivers leaves the day within its budget.                  *)
THEOREM DeliveriesAreWithinBudget == Spec => WithinBudget
  <1>1. IInv /\ [Next]_vars =>
          [\A d \in 1..MaxDay : Delivered(d)' <= prefs.budget \/ Delivered(d)' <= Delivered(d)]_vars
    BY BudgetStep
  <1> QED
    BY <1>1, NotificationsInvariant, PTL DEF Spec, WithinBudget
=============================================================================
