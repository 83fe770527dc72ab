------------------------ MODULE LibraryImportProofs ------------------------
(***************************************************************************)
(* Proofs about imports beside the synchronization of the library: what an *)
(* import response, applied at any moment, leaves intact.                  *)
(*   - the types, and the server's library as the library of LibraryLog;   *)
(*   - CheckpointInReach: no phone asks from beyond the server's revision; *)
(*   - FullRefreshRepairs: a full refresh makes the checkpoint honest.     *)
(***************************************************************************)
EXTENDS LibraryImport, LibrarySyncProofs

Response == [device: Phones, paper: Papers, revision: Nat]

(* A response carries a revision that the server has given.                *)
Responses == imported \subseteq Response /\ \A r \in imported : r.revision <= revision

ITypeInv == TypeInv /\ Responses

(* What a phone holds of its reads, whatever has become of its rows and    *)
(* its checkpoint.                                                         *)
Reads(d) ==
    /\ checkpoint[d].last <= revision
    /\ cycle[d].after <= revision
    /\ cycle[d].at = "page" => cycle[d].next <= revision
    /\ ListingHonest(d)

(* The inductive invariant.                                                *)
ImportInv == ITypeInv /\ \A d \in Phones : Reads(d)

-----------------------------------------------------------------------------
(* The steps that imports add.                                             *)

LEMMA ImportMutates ==
  ASSUME TypeInv, NEW d \in Phones, NEW p \in Papers, ImportPaper(d, p)
  PROVE  /\ \E op \in Operation : MutateItem(op)
         /\ issued' \in [Devices -> Nat]
<1>1. d \in Devices /\ p \in Touches[d] /\ Issues(d)
  BY PhonesAreDevices DEF ImportPaper
<1>2. issued'[d] \in 1..MaxOperations[d] /\ issued' \in [Devices -> Nat]
  BY <1>1, IssuesTyped DEF TypeInv
<1>3. [id |-> issued'[d], device |-> d, paper |-> p, save |-> TRUE] \in Operation
  BY <1>1, <1>2, OperationMade
<1> QED BY <1>2, <1>3 DEF ImportPaper

(* What any step is for the server.                                        *)
LEMMA ImportServerSteps ==
  ASSUME TypeInv, [INext]_ivars
  PROVE  \/ UNCHANGED svars
         \/ \E op \in Operation : MutateItem(op)
         \/ \E p \in Papers : CleanupTombstones(p)
<1>1. CASE [Next]_vars
  BY <1>1, ServerSteps DEF TypeInv
<1>2. ASSUME NEW d \in Phones, NEW p \in Papers, ImportPaper(d, p)
      PROVE  \E op \in Operation : MutateItem(op)
  BY <1>2, ImportMutates
<1>3. ASSUME NEW d \in Phones, ApplyImportedPaper(d) \/ LoseImport(d) \/ RefreshInFull(d)
      PROVE  UNCHANGED svars
  BY <1>3 DEF ApplyImportedPaper, LoseImport, RefreshInFull, Trigger, vars, svars
<1> QED BY <1>1, <1>2, <1>3 DEF INext, ivars

LEMMA ImportServer ==
  ASSUME TypeInv, [INext]_ivars
  PROVE  ServerTypeOK' /\ ServerInv' /\ ServerMoves
BY ImportServerSteps, MutateItemEffect, CleanupEffect, ServerStutters DEF TypeInv

(* A response that is applied shows the paper, and moves the checkpoint.   *)
LEMMA AppliesImport ==
  ASSUME ITypeInv, NEW d \in Phones, ApplyImportedPaper(d)
  PROVE  /\ rows' \in [Phones -> [Papers -> LocalRow]]
         /\ checkpoint' \in [Phones -> Checkpoint]
         /\ \A c \in Phones : checkpoint'[c].last = checkpoint[c].last
                              \/ checkpoint'[c].last <= revision
         /\ imported' \subseteq imported
<1>1. PICK r \in imported :
        /\ r.device = d
        /\ imported' = imported \ {r}
        /\ rows' = [rows EXCEPT ![d][r.paper] = [shown |-> TRUE, canonical |-> TRUE]]
        /\ checkpoint' = [checkpoint EXCEPT ![d].last =
             IF checkpoint[d].initialized /\ r.revision > @ THEN r.revision ELSE @]
  BY DEF ApplyImportedPaper
<1>2. r.paper \in Papers /\ r.revision \in Nat /\ r.revision <= revision
  BY DEF ITypeInv, Responses, Response
<1>3. PhoneTypeOK /\ [shown |-> TRUE, canonical |-> TRUE] \in LocalRow
  BY DEF ITypeInv, TypeInv, LocalRow
<1>4. rows' \in [Phones -> [Papers -> LocalRow]]
  BY <1>1, <1>2, <1>3, RowTyped
<1> DEFINE last == IF checkpoint[d].initialized /\ r.revision > checkpoint[d].last
                     THEN r.revision ELSE checkpoint[d].last
<1>5. checkpoint[d] \in Checkpoint /\ checkpoint \in [Phones -> Checkpoint]
  BY <1>3 DEF PhoneTypeOK
<1>6. /\ [checkpoint[d] EXCEPT !.last = last] \in Checkpoint
      /\ [checkpoint[d] EXCEPT !.last = last].last = last
  BY <1>2, <1>5 DEF Checkpoint
<1>7. checkpoint' = [checkpoint EXCEPT ![d] = [checkpoint[d] EXCEPT !.last = last]]
  BY <1>1
<1>8. last = checkpoint[d].last \/ last <= revision
  BY <1>2
<1> HIDE DEF last
<1>9. /\ checkpoint' \in [Phones -> Checkpoint]
      /\ \A c \in Phones : checkpoint'[c].last = IF c = d THEN last ELSE checkpoint[c].last
  BY <1>5, <1>6, <1>7
<1>10. imported' \subseteq imported
  BY <1>1
<1> QED BY <1>4, <1>8, <1>9, <1>10

LEMMA ImportTypes ==
  ASSUME ITypeInv, [INext]_ivars
  PROVE  ITypeInv'
<1>0. TypeInv /\ PhoneTypeOK /\ UploadsOperation /\ Responses
  BY DEF ITypeInv, TypeInv
<1>1. ServerTypeOK' /\ ServerInv' /\ revision <= revision' /\ revision \in Nat
      /\ revision' \in Nat
  BY <1>0, ImportServer DEF ServerMoves, TypeInv, ServerTypeOK
<1>2. ASSUME imported' \subseteq imported PROVE Responses'
  BY <1>0, <1>1, <1>2 DEF Responses, Response
<1>3. CASE [Next]_vars /\ UNCHANGED imported
  BY <1>0, <1>2, <1>3, NextTypes DEF ITypeInv
<1>4. ASSUME NEW d \in Phones, NEW p \in Papers, ImportPaper(d, p)
      PROVE  ITypeInv'
  <2>1. issued' \in [Devices -> Nat]
    BY <1>0, <1>4, ImportMutates
  <2>2. PhoneTypeOK' /\ UploadsOperation'
    BY <1>0, <1>4, <2>1 DEF ImportPaper, PhoneTypeOK, UploadsOperation
  <2>3. Responses'
    BY <1>0, <1>1, <1>4 DEF ImportPaper, Responses, Response
  <2> QED BY <1>1, <2>2, <2>3 DEF ITypeInv, TypeInv
<1>5. ASSUME NEW d \in Phones, ApplyImportedPaper(d)
      PROVE  ITypeInv'
  <2>1. PhoneTypeOK' /\ UploadsOperation'
    BY <1>0, <1>5, AppliesImport DEF ApplyImportedPaper, PhoneTypeOK, UploadsOperation
  <2> QED BY <1>1, <1>2, <1>5, <2>1, AppliesImport DEF ITypeInv, TypeInv
<1>6. ASSUME NEW d \in Phones, LoseImport(d)
      PROVE  ITypeInv'
  <2>1. UNCHANGED vars /\ imported' \subseteq imported
    BY <1>6 DEF LoseImport
  <2> QED BY <1>0, <1>2, <2>1, NextTypes DEF ITypeInv
<1>7. ASSUME NEW d \in Phones, RefreshInFull(d)
      PROVE  ITypeInv'
  <2>1. PhoneTypeOK' /\ UploadsOperation' /\ imported' = imported
    BY <1>0, <1>7, GotoTypes DEF RefreshInFull, Trigger, PhoneTypeOK
  <2> QED BY <1>1, <1>2, <2>1 DEF ITypeInv, TypeInv
<1> QED BY <1>3, <1>4, <1>5, <1>6, <1>7 DEF INext, ivars

LEMMA ImportInitTypes == IInit => ITypeInv
BY InitTypes DEF IInit, ITypeInv, Responses

LEMMA ImportTypeInvariant == ISpec => []ITypeInv
BY ImportInitTypes, ImportTypes, PTL DEF ISpec

(* The types hold with imports too.                                        *)
THEOREM ImportTypeCorrect == ISpec => []TypeOK
<1>1. ITypeInv => TypeOK
  BY DEF ITypeInv, TypeInv, ServerTypeOK, PhoneTypeOK, TypeOK
<1> QED BY <1>1, ImportTypeInvariant, PTL

(* An import is one more operation on the abstract library: it takes       *)
(* effect at most once, whatever becomes of its response.                  *)
THEOREM ImportImplementsLog == ISpec => ImplementsLog
<1>1. IInit => Log!LInit
  BY LogInit DEF IInit
<1>2. ITypeInv /\ [INext]_ivars => [Log!LNext]_(Log!lvars)
  <2>1. UNCHANGED svars => UNCHANGED Log!lvars
    BY DEF svars, Log!lvars
  <2> QED BY <2>1, ImportServerSteps, LogApply, LogCleanup DEF ITypeInv, TypeInv
<1> QED BY <1>1, <1>2, ImportTypeInvariant, PTL DEF ISpec, ImplementsLog, Log!LSpec

-----------------------------------------------------------------------------
(* What a phone holds of its reads.                                        *)

LEMMA ReadNumbers ==
  ASSUME ITypeInv, ITypeInv', ServerMoves, NEW d \in Phones
  PROVE  /\ checkpoint[d].last \in Nat /\ checkpoint'[d].last \in Nat
         /\ cycle[d].after \in Nat /\ cycle'[d].after \in Nat
         /\ cycle[d].next \in Nat /\ cycle[d].fence \in Nat
         /\ revision \in Nat /\ revision' \in Nat /\ revision <= revision'
<1>1. ServerTypeOK /\ ServerTypeOK' /\ PhoneTypeOK /\ PhoneTypeOK'
  BY DEF ITypeInv, TypeInv
<1>2. /\ checkpoint[d] \in Checkpoint /\ checkpoint'[d] \in Checkpoint
      /\ cycle[d] \in Cycle /\ cycle'[d] \in Cycle
  BY <1>1 DEF PhoneTypeOK
<1> QED BY <1>1, <1>2 DEF Checkpoint, Cycle, ServerTypeOK, ServerMoves

(* A phone whose controller stays where it is: the server may move on, and *)
(* a response may move the checkpoint.                                     *)
LEMMA ReadsRest ==
  ASSUME ITypeInv, ITypeInv', ServerMoves, NEW d \in Phones, Reads(d),
         cycle'[d] = cycle[d],
         checkpoint'[d].last = checkpoint[d].last \/ checkpoint'[d].last <= revision
  PROVE  Reads(d)'
<1>0. /\ checkpoint[d].last \in Nat /\ checkpoint'[d].last \in Nat
      /\ cycle[d].after \in Nat /\ cycle[d].next \in Nat /\ cycle[d].fence \in Nat
      /\ revision \in Nat /\ revision' \in Nat /\ revision <= revision'
  BY ReadNumbers
<1>1. ListingHonest(d)'
  <2>1. CASE cycle[d].at \in {"listing", "snapshot"}
    <3>1. /\ cycle[d].fence <= revision
          /\ \A p \in Papers : items[p].revision <= cycle[d].fence =>
              /\ p \in cycle[d].listed => items[p].saved
              /\ items[p].saved /\ items[p].since >= cycle[d].cursor
                   => p \in cycle[d].listed
          /\ cycle[d].at = "snapshot" => cycle[d].cursor = 0
      BY <2>1 DEF Reads, ListingHonest
    <3>2. ASSUME NEW p \in Papers, items'[p].revision <= cycle[d].fence
          PROVE  /\ p \in cycle[d].listed => items'[p].saved
                 /\ items'[p].saved /\ items'[p].since >= cycle[d].cursor
                      => p \in cycle[d].listed
      <4>1. items'[p].revision \in Nat
        BY DEF ITypeInv, TypeInv, ServerTypeOK, Item
      <4>2. SameRow(p)
        BY <1>0, <3>1, <3>2, <4>1 DEF ServerMoves
      <4> QED BY <3>1, <3>2, <4>2 DEF SameRow
    <3>3. cycle[d].fence <= revision'
      BY <1>0, <3>1
    <3> QED BY <2>1, <3>1, <3>2, <3>3 DEF ListingHonest
  <2>2. CASE cycle[d].at \notin {"listing", "snapshot"}
    BY <2>2 DEF Reads, ListingHonest
  <2> QED BY <2>1, <2>2
<1> QED BY <1>0, <1>1 DEF Reads

(* A phone that moves on with no listing and no page in its hands.         *)
LEMMA ReadsNothing ==
  ASSUME ITypeInv, ITypeInv', ServerMoves, NEW d \in Phones,
         cycle'[d].at \notin {"listing", "snapshot", "page"},
         cycle'[d].at = "list" => cycle'[d].listed = {},
         cycle'[d].after <= revision, checkpoint'[d].last <= revision
  PROVE  Reads(d)'
<1>1. cycle'[d].after <= revision' /\ checkpoint'[d].last <= revision'
  BY ReadNumbers
<1> QED BY <1>1 DEF Reads, ListingHonest

LEMMA ReadsNothingAt ==
  ASSUME ITypeInv, ITypeInv', ServerMoves, NEW d \in Phones, Reads(d), NEW goal,
         NEW place \in {"stopped", "idle", "drain", "list"},
         cycle' = [cycle EXCEPT ![d] = At(place, goal)],
         checkpoint'[d].last = checkpoint[d].last
  PROVE  Reads(d)'
<1>1. /\ cycle'[d].at = place /\ cycle'[d].listed = {} /\ cycle'[d].after = 0
  BY DEF ITypeInv, TypeInv, PhoneTypeOK, At
<1>2. 0 <= revision /\ checkpoint'[d].last <= revision
  BY ReadNumbers DEF Reads
<1> QED BY <1>1, <1>2, ReadsNothing

LEMMA ControllerReads ==
  ASSUME ITypeInv, ITypeInv', ServerMoves, NEW d \in Phones, Reads(d),
         Controller(d) \/ RefreshInFull(d)
  PROVE  Reads(d)'
<1> DEFINE There == {"stopped", "idle", "drain", "list"}
<1>1. checkpoint' = checkpoint /\ checkpoint[d].last <= revision /\ 0 <= revision
  BY ReadNumbers DEF Reads, Controller, Start, Stop, Trigger, ClaimNextDue, Drained, RefreshInFull
<1>2. CASE \E goal : \E place \in There : cycle' = [cycle EXCEPT ![d] = At(place, goal)]
  BY <1>1, <1>2, ReadsNothingAt
<1>3. CASE ClaimNextDue(d)
  <2>1. PICK e \in Claimable(d) :
          cycle' = [cycle EXCEPT ![d] = [At("upload", cycle[d].goal) EXCEPT !.op = e.op]]
    BY <1>3 DEF ClaimNextDue
  <2>2. cycle'[d].at = "upload" /\ cycle'[d].after = 0
    BY <2>1 DEF ITypeInv, TypeInv, PhoneTypeOK, At
  <2> QED BY <1>1, <2>2, ReadsNothing
<1>4. CASE cycle' = [cycle EXCEPT ![d] =
                       [At("changes", "refresh") EXCEPT !.after = checkpoint[d].last]]
  <2>1. cycle'[d].at = "changes" /\ cycle'[d].after = checkpoint[d].last
    BY <1>4 DEF ITypeInv, TypeInv, PhoneTypeOK, At
  <2> QED BY <1>1, <2>1, ReadsNothing
<1> QED BY <1>2, <1>3, <1>4
        DEF Controller, RefreshInFull, Start, Stop, Trigger, Drained, Rest

LEMMA UploadReads ==
  ASSUME ITypeInv, ITypeInv', ServerMoves, NEW d \in Phones, Reads(d), Upload(d)
  PROVE  Reads(d)'
<1>1. CASE ServerAnswers(d) \/ ServerRejects(d)
  <2>1. PICK answer : cycle' = [cycle EXCEPT ![d].answer = answer]
    BY <1>1 DEF ServerAnswers, ServerRejects
  <2>2. cycle[d] \in Cycle /\ cycle[d].at = "upload"
    BY <1>1 DEF ServerAnswers, ServerRejects, ITypeInv, TypeInv, PhoneTypeOK
  <2>3. cycle'[d].at = "upload" /\ cycle'[d].after = cycle[d].after
    BY <2>1, <2>2 DEF ITypeInv, TypeInv, PhoneTypeOK, Cycle
  <2>4. checkpoint' = checkpoint
    BY <1>1 DEF ServerAnswers, ServerRejects
  <2> QED BY <2>3, <2>4, ReadsNothing DEF Reads
<1>2. CASE ApplyMutationSuccess(d) \/ MarkPermanentFailure(d) \/ MarkRetry(d)
  BY <1>2, ReadsNothingAt DEF ApplyMutationSuccess, MarkPermanentFailure, MarkRetry, Goto
<1> QED BY <1>1, <1>2 DEF Upload

LEMMA RefreshReads ==
  ASSUME ITypeInv, ITypeInv', ServerMoves, NEW d \in Phones, Reads(d), Refresh(d)
  PROVE  Reads(d)'
<1>0. /\ ServerTypeOK /\ ServerInv /\ PhoneTypeOK
      /\ UNCHANGED svars /\ cycle \in [Phones -> Cycle] /\ checkpoint \in [Phones -> Checkpoint]
  BY DEF ITypeInv, TypeInv, PhoneTypeOK, Refresh, FetchFirstPage, FetchNextPage,
         ApplyFullSnapshot, FetchChanges, ObeyReset, ApplyChanges, RefreshFails
<1>n. checkpoint[d].last <= revision /\ cycle[d].after <= revision /\ revision' = revision
      /\ revision \in Nat
  BY <1>0, ReadNumbers DEF Reads, svars
<1>1. CASE FetchFirstPage(d) \/ FetchNextPage(d)
  <2>1. ListingHonest(d)' /\ cycle'[d].at \in {"listing", "snapshot"}
    <3>1. CASE FetchFirstPage(d)
      <4>1. cycle[d].listed = {} /\ AfterListPage(d, revision, revision + 1)
        BY <3>1 DEF FetchFirstPage, Reads, ListingHonest
      <4>2. \A p \in Papers : items[p].since <= revision /\ items[p].since \in Nat
        BY <1>0, <1>n, PhoneNumbers DEF ServerInv
      <4>3. Holds(cycle[d].listed, revision, revision + 1)
        BY <1>n, <4>1, <4>2 DEF Holds
      <4>4. revision + 1 \in Nat /\ revision <= revision
        BY <1>n
      <4> QED BY <1>0, <1>n, <4>1, <4>3, <4>4, ListingStep
    <3>2. CASE FetchNextPage(d)
      <4>1. /\ cycle[d].at = "listing" /\ cycle[d].fence <= revision
            /\ Holds(cycle[d].listed, cycle[d].fence, cycle[d].cursor)
            /\ AfterListPage(d, cycle[d].fence, cycle[d].cursor)
        BY <3>2 DEF FetchNextPage, Reads, ListingHonest, Holds
      <4>2. cycle[d].fence \in Nat /\ cycle[d].cursor \in Nat
        BY <1>0, PhoneNumbers
      <4> QED BY <1>0, <4>1, <4>2, ListingStep
    <3> QED BY <1>1, <3>1, <3>2
  <2>2. cycle'[d].after = 0
    <3>1. \E fence, cursor : AfterListPage(d, fence, cursor)
      BY <1>1 DEF FetchFirstPage, FetchNextPage
    <3> QED BY <1>0, <3>1 DEF AfterListPage, At
  <2>3. checkpoint' = checkpoint
    BY <1>1 DEF FetchFirstPage, FetchNextPage
  <2> QED BY <1>n, <2>1, <2>2, <2>3 DEF Reads
<1>2. CASE ApplyFullSnapshot(d)
  <2>1. cycle[d].fence <= revision
    BY <1>2 DEF ApplyFullSnapshot, Reads, ListingHonest
  <2>2. /\ cycle'[d] = [At("changes", "full") EXCEPT !.after = cycle[d].fence]
        /\ checkpoint'[d].last = cycle[d].fence
    BY <1>0, <1>2 DEF ApplyFullSnapshot
  <2>3. cycle'[d].at = "changes" /\ cycle'[d].after = cycle[d].fence
    BY <2>2 DEF At
  <2> QED BY <2>1, <2>2, <2>3, ReadsNothing
<1>3. CASE FetchChanges(d)
  <2> DEFINE more == ChangesPage(cycle[d].after) # Unseen(cycle[d].after)
             page == [p \in Papers |->
                        IF p \in ChangesPage(cycle[d].after) THEN Standing(p) ELSE "none"]
  <2>1. PICK next \in 0..revision :
          cycle' = [cycle EXCEPT ![d] = [At("page", cycle[d].goal) EXCEPT
             !.after = cycle[d].after, !.next = next, !.more = more, !.page = page]]
    BY <1>3 DEF FetchChanges
  <2> HIDE DEF more, page
  <2>2. cycle'[d].at = "page" /\ cycle'[d].after = cycle[d].after /\ cycle'[d].next = next
    BY <1>0, <2>1 DEF At
  <2>3. next <= revision /\ checkpoint' = checkpoint
    BY <1>3, <1>n DEF FetchChanges
  <2> QED BY <1>n, <2>2, <2>3 DEF Reads, ListingHonest
<1>4. CASE ObeyReset(d)
  <2>1. checkpoint'[d].last = checkpoint[d].last
    BY <1>0, <1>4 DEF ObeyReset, Checkpoint
  <2> QED BY <1>4, <2>1, ReadsNothingAt DEF ObeyReset, Rest
<1>5. CASE ApplyChanges(d)
  <2>1. cycle[d].next <= revision
    BY <1>5 DEF ApplyChanges, Reads
  <2>2. checkpoint'[d].last = cycle[d].next
    BY <1>0, <1>5 DEF ApplyChanges
  <2>3. \/ cycle'[d] = At("idle", "drain")
        \/ cycle'[d] = [At("changes", cycle[d].goal) EXCEPT !.after = cycle[d].next]
    BY <1>0, <1>5 DEF ApplyChanges, Rest
  <2>4. cycle'[d].at \in {"idle", "changes"} /\ cycle'[d].after \in {0, cycle[d].next}
    BY <2>3 DEF At
  <2> QED BY <1>n, <2>1, <2>2, <2>4, ReadsNothing
<1>6. CASE RefreshFails(d)
  BY <1>6, ReadsNothingAt DEF RefreshFails, Rest
<1> QED BY <1>1, <1>2, <1>3, <1>4, <1>5, <1>6 DEF Refresh

LEMMA ImportReads ==
  ASSUME ImportInv, [INext]_ivars, NEW d \in Phones
  PROVE  Reads(d)'
<1>0. ITypeInv /\ ITypeInv' /\ ServerMoves /\ PhoneTypeOK /\ Reads(d)
  BY ImportTypes, ImportServer DEF ImportInv, ITypeInv, TypeInv
<1>1. PhoneRests(d) => Reads(d)'
  BY <1>0, ReadsRest DEF PhoneRests
<1>2. ASSUME NEW c \in Phones, Local(c) \/ Controller(c) \/ Upload(c) \/ Refresh(c)
      PROVE  Reads(d)'
  <2>1. CASE c = d
    BY <1>0, <1>1, <1>2, <2>1, LocalRests, ControllerReads, UploadReads, RefreshReads
  <2>2. CASE c # d
    BY <1>0, <1>1, <1>2, <2>2, OthersRest DEF PhoneRests, SameCanonical
  <2> QED BY <2>1, <2>2
<1>3. ASSUME NEW op \in Operation, StrayArrives(op) \/ PeerMutates(op) PROVE Reads(d)'
  BY <1>1, <1>3 DEF StrayArrives, PeerMutates, PhoneRests, SameCanonical
<1>4. CASE Retention \/ UNCHANGED vars
  BY <1>1, <1>4 DEF Retention, vars, PhoneRests, SameCanonical
<1>5. ASSUME NEW c \in Phones, NEW p \in Papers, ImportPaper(c, p) PROVE Reads(d)'
  BY <1>1, <1>5 DEF ImportPaper, PhoneRests, SameCanonical
<1>6. ASSUME NEW c \in Phones, ApplyImportedPaper(c) PROVE Reads(d)'
  <2>1. cycle' = cycle
    BY <1>6 DEF ApplyImportedPaper
  <2> QED BY <1>0, <1>6, <2>1, AppliesImport, ReadsRest
<1>7. ASSUME NEW c \in Phones, RefreshInFull(c) PROVE Reads(d)'
  <2>1. CASE c = d
    BY <1>0, <1>7, <2>1, ControllerReads
  <2>2. CASE c # d
    BY <1>0, <1>1, <1>7, <2>2 DEF RefreshInFull, Trigger, PhoneTypeOK, PhoneRests, SameCanonical
  <2> QED BY <2>1, <2>2
<1> QED BY <1>2, <1>3, <1>4, <1>5, <1>6, <1>7 DEF INext, ivars, LoseImport, Next

LEMMA ImportInvariant == ISpec => []ImportInv
<1>1. IInit => ImportInv
  <2> SUFFICES ASSUME IInit PROVE ImportInv
    OBVIOUS
  <2>1. \A d \in Phones : /\ checkpoint[d].last = 0 /\ revision = 0
                          /\ cycle[d] = At("stopped", "drain")
    BY DEF IInit, Init, SInit
  <2>2. \A d \in Phones : Reads(d)
    BY <2>1 DEF At, Reads, ListingHonest
  <2> QED BY <2>2, ImportInitTypes DEF ImportInv
<1>2. ImportInv /\ [INext]_ivars => ImportInv'
  BY ImportReads, ImportTypes DEF ImportInv
<1> QED BY <1>1, <1>2, PTL DEF ISpec

(* No phone asks for changes from beyond what the server has given, though *)
(* responses of imports move its checkpoint too: the server never answers  *)
(* a phone that its position is invalid.                                   *)
THEOREM ImportCheckpointInReach == ISpec => []CheckpointInReach
<1>1. ImportInv => CheckpointInReach
  BY DEF ImportInv, Reads, CheckpointInReach
<1> QED BY <1>1, ImportInvariant, PTL

(* What a full refresh says of a row.                                      *)
LEMMA SnapshotCanonical ==
  ASSUME NEW d \in Phones, NEW p \in Papers
  PROVE  SnapshotRow(d, p).canonical = (p \in cycle[d].listed)
<1> DEFINE there == p \in cycle[d].listed
           shown == IF Active(d, p) # {} THEN rows[d][p].shown ELSE there
<1>1. SnapshotRow(d, p) = [canonical |-> there, shown |-> shown]
  BY DEF SnapshotRow
<1> HIDE DEF there, shown
<1>2. SnapshotRow(d, p).canonical = there
  BY <1>1
<1> QED BY <1>2 DEF there

(* A full refresh leaves an honest checkpoint, whatever was imported       *)
(* before it or between its pages: what an import can break, the next full *)
(* refresh repairs.                                                        *)
THEOREM ImportFullRefreshRepairs == ISpec => FullRefreshRepairs
<1>1. ImportInv =>
        [\A d \in Phones : ApplyFullSnapshot(d) => Honest(d)']_ivars
  <2> SUFFICES ASSUME ImportInv, NEW d \in Phones, ApplyFullSnapshot(d)
               PROVE  Honest(d)'
    OBVIOUS
  <2>0. ServerTypeOK /\ PhoneTypeOK
    BY DEF ImportInv, ITypeInv, TypeInv
  <2>1. Holds(cycle[d].listed, cycle[d].fence, 0)
    BY DEF ImportInv, Reads, ListingHonest, Holds, ApplyFullSnapshot
  <2>2. /\ UNCHANGED svars
        /\ checkpoint'[d] = [initialized |-> TRUE, last |-> cycle[d].fence]
        /\ rows'[d] = [p \in Papers |-> SnapshotRow(d, p)]
    BY <2>0 DEF ApplyFullSnapshot, PhoneTypeOK
  <2>3. \A p \in Papers : rows'[d][p].canonical = (p \in cycle[d].listed)
    BY <2>2, SnapshotCanonical
  <2> SUFFICES ASSUME NEW p \in Papers, items[p].revision <= cycle[d].fence
               PROVE  rows'[d][p].canonical <=> items[p].saved
    BY <2>2 DEF Honest, svars
  <2>4. items[p].since >= 0 /\ items[p].saved \in BOOLEAN
    BY <2>0, PhoneNumbers
  <2> QED BY <2>1, <2>3, <2>4 DEF Holds
<1> QED BY <1>1, ImportInvariant, PTL DEF FullRefreshRepairs
=============================================================================
