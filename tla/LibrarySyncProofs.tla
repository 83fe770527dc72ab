-------------------------- MODULE LibrarySyncProofs --------------------------
(***************************************************************************)
(* Proofs about the synchronization of the library, for any papers,        *)
(* devices, operations and page size:                                      *)
(*   - its type invariant;                                                 *)
(*   - CheckpointHonest, from what is known of the rows of the server and  *)
(*     of the pages a phone holds;                                         *)
(*   - ShownIsExplained, from the discipline of the outbox;                *)
(*   - that the server's library is the abstract library of LibraryLog.    *)
(***************************************************************************)
EXTENDS LibrarySync, FiniteSetTheorems, TLAPS

LEMMA OperationParts ==
  ASSUME NEW op \in Operation
  PROVE  /\ op.id \in Nat /\ op.device \in Devices
         /\ op.paper \in Papers /\ op.save \in BOOLEAN
<1>1. PICK d \in Devices :
        op \in [id: 1..MaxOperations[d], device: {d}, paper: Touches[d], save: BOOLEAN]
  BY DEF Operation
<1> QED BY <1>1, LibraryConstants

LEMMA OperationMade ==
  ASSUME NEW d \in Devices, NEW i \in 1..MaxOperations[d], NEW p \in Touches[d],
         NEW s \in BOOLEAN
  PROVE  [id |-> i, device |-> d, paper |-> p, save |-> s] \in Operation
BY DEF Operation

LEMMA PhonesAreDevices == \A d \in Phones : d \in Devices
BY DEF Phones

(* The empty cycle at any place is a cycle.                                *)
LEMMA AtTyped ==
  ASSUME NEW place \in {"stopped", "idle", "drain", "upload", "list", "listing",
                        "snapshot", "changes", "page"},
         NEW goal \in {"drain", "refresh", "full"}
  PROVE  /\ At(place, goal) \in Cycle
         /\ At(place, goal).at = place /\ At(place, goal).goal = goal
         /\ At(place, goal).answer = "none"
BY DEF At, Cycle, EmptyPage, Answers

-----------------------------------------------------------------------------
(* What the server's transactions do.                                      *)

ServerTypeOK ==
    /\ items \in [Papers -> Item]
    /\ revision \in Nat
    /\ floor \in Nat
    /\ accepted \subseteq Operation

(* The rows follow the revision and the floor.                             *)
ServerInv ==
    /\ floor <= revision
    /\ \A p \in Papers :
         /\ items[p].since <= items[p].revision
         /\ items[p].revision <= revision
         /\ items[p].saved => items[p].stored
         /\ ~items[p].stored => items[p].revision <= floor

(* A row that is rewritten moves beyond every revision given so far; what  *)
(* the others say stays.                                                   *)
SameRow(p) ==
    /\ items'[p].saved = items[p].saved
    /\ items'[p].revision = items[p].revision
    /\ items'[p].since = items[p].since

ServerMoves ==
    /\ revision <= revision'
    /\ \A p \in Papers : SameRow(p) \/ items'[p].revision > revision

LEMMA MutateItemEffect ==
  ASSUME ServerTypeOK, ServerInv, NEW op \in Operation, MutateItem(op)
  PROVE  ServerTypeOK' /\ ServerInv' /\ ServerMoves
<1> USE OperationParts DEF ServerTypeOK, ServerInv, ServerMoves, SameRow
<1>1. CASE Replayed(op)
  BY <1>1 DEF MutateItem, svars
<1>2. CASE ~Replayed(op)
  <2>1. /\ items' = [items EXCEPT ![op.paper] = Rewritten(op)]
        /\ revision' = revision + 1
        /\ accepted' = accepted \cup {op}
        /\ floor' = floor
    BY <1>2 DEF MutateItem
  <2>2. /\ Rewritten(op) \in Item
        /\ Rewritten(op).revision = revision + 1
        /\ Rewritten(op).since <= revision + 1
        /\ Rewritten(op).stored
    BY DEF Rewritten, Item
  <2>3. ServerTypeOK'
    BY <2>1, <2>2
  <2>4. \A p \in Papers : items'[p] = IF p = op.paper THEN Rewritten(op) ELSE items[p]
    BY <2>1
  <2>5. ServerInv'
    BY <2>1, <2>2, <2>4 DEF Item
  <2>6. ServerMoves
    BY <2>1, <2>2, <2>4
  <2> QED BY <2>3, <2>5, <2>6
<1> QED BY <1>1, <1>2

LEMMA CleanupEffect ==
  ASSUME ServerTypeOK, ServerInv, NEW p \in Papers, CleanupTombstones(p)
  PROVE  ServerTypeOK' /\ ServerInv' /\ ServerMoves
<1> USE DEF ServerTypeOK, ServerInv, ServerMoves, SameRow
<1>0. \A q \in Papers : items[q] \in Item
  OBVIOUS
<1>1. \A q \in Papers :
        items'[q] = IF Tombstone(q) /\ items[q].revision <= items[p].revision
                      THEN [items[q] EXCEPT !.stored = FALSE] ELSE items[q]
  BY DEF CleanupTombstones
<1>2. \A q \in Papers :
        /\ items'[q] \in Item
        /\ SameRow(q)
        /\ items'[q].stored \/ ~items[q].stored \/ items[q].revision <= items[p].revision
        /\ items[q].saved => items'[q].stored = items[q].stored
  BY <1>0, <1>1 DEF Item, Tombstone
<1>3. /\ floor' \in Nat /\ floor' <= revision
      /\ floor <= floor' /\ items[p].revision <= floor'
      /\ revision' = revision /\ accepted' = accepted
  BY <1>0 DEF CleanupTombstones, Item
<1>4. items' \in [Papers -> Item]
  BY <1>2 DEF CleanupTombstones
<1>5. ServerTypeOK'
  BY <1>3, <1>4
<1>6. ServerInv'
  BY <1>0, <1>2, <1>3 DEF Item
<1>7. ServerMoves
  BY <1>2, <1>3
<1> QED BY <1>5, <1>6, <1>7

LEMMA ServerStutters ==
  ASSUME ServerTypeOK, ServerInv, UNCHANGED svars
  PROVE  ServerTypeOK' /\ ServerInv' /\ ServerMoves
BY DEF svars, ServerTypeOK, ServerInv, ServerMoves, SameRow

-----------------------------------------------------------------------------
(* The type invariant.                                                     *)

PhoneTypeOK ==
    /\ rows \in [Phones -> [Papers -> LocalRow]]
    /\ outbox \in [Phones -> SUBSET Entry]
    /\ checkpoint \in [Phones -> Checkpoint]
    /\ cycle \in [Phones -> Cycle]
    /\ stray \subseteq Operation
    /\ issued \in [Devices -> Nat]

(* Only an operation is ever uploaded.                                     *)
UploadsOperation ==
    \A d \in Phones : cycle[d].at = "upload" => cycle[d].op \in Operation

LEMMA StrayTyped ==
  ASSUME PhoneTypeOK, UploadsOperation, NEW d \in Phones, LeavesStray(d)
  PROVE  stray' \subseteq Operation
BY DEF PhoneTypeOK, UploadsOperation, LeavesStray

LEMMA ReplaceTyped ==
  ASSUME PhoneTypeOK, NEW d \in Phones, NEW e, NEW new \in Entry
  PROVE  Replace(d, e, new) \in [Phones -> SUBSET Entry]
BY DEF PhoneTypeOK, Replace

LEMMA WithoutTyped ==
  ASSUME PhoneTypeOK, NEW d \in Phones, NEW p, NEW states
  PROVE  Without(d, p, states) \subseteq outbox[d] /\ Without(d, p, states) \subseteq Entry
BY DEF PhoneTypeOK, Without

LEMMA IssuesTyped ==
  ASSUME PhoneTypeOK, NEW d \in Devices, Issues(d)
  PROVE  /\ issued[d] \in Nat /\ issued[d] + 1 \in 1..MaxOperations[d]
         /\ issued'[d] = issued[d] + 1
         /\ issued' \in [Devices -> Nat]
         /\ \A c \in Devices \ {d} : issued'[c] = issued[c]
<1>1. issued \in [Devices -> Nat] /\ MaxOperations[d] \in Nat
  BY LibraryConstants DEF PhoneTypeOK
<1>2. issued[d] < MaxOperations[d] /\ issued' = [issued EXCEPT ![d] = issued[d] + 1]
  BY DEF Issues
<1> QED BY <1>1, <1>2

LEMMA LocalTypes ==
  ASSUME PhoneTypeOK, UploadsOperation, NEW d \in Phones, Local(d)
  PROVE  PhoneTypeOK' /\ UploadsOperation'
<1>1. ASSUME NEW p \in Papers, NEW save \in BOOLEAN, EnqueueMutation(d, p, save)
      PROVE  PhoneTypeOK' /\ UploadsOperation'
  <2> DEFINE new == [op |-> [id |-> issued[d] + 1, device |-> d, paper |-> p, save |-> save],
                     state |-> "queued", due |-> TRUE]
  <2>1. d \in Devices /\ p \in Touches[d]
        /\ issued[d] + 1 \in 1..MaxOperations[d]
        /\ issued'[d] = issued[d] + 1 /\ issued' \in [Devices -> Nat]
    <3>1. d \in Devices /\ p \in Touches[d] /\ Issues(d)
      BY <1>1, PhonesAreDevices DEF EnqueueMutation
    <3> QED BY <3>1, IssuesTyped
  <2>2. new.op \in Operation
    BY <2>1, OperationMade
  <2>3. new \in Entry
    BY <2>2 DEF Entry, ActiveStates
  <2>4. outbox' = [outbox EXCEPT ![d] = Without(d, p, Superseded) \cup {new}]
    BY <1>1, <2>1 DEF EnqueueMutation
  <2>5. outbox' \in [Phones -> SUBSET Entry]
    BY <2>3, <2>4, WithoutTyped DEF PhoneTypeOK
  <2>6. rows' \in [Phones -> [Papers -> LocalRow]]
    <3>1. rows[d] \in [Papers -> LocalRow] /\ rows[d][p] \in LocalRow
      BY DEF PhoneTypeOK
    <3>2. [rows[d][p] EXCEPT !.shown = save] \in LocalRow
      BY <3>1 DEF LocalRow
    <3>3. [rows[d] EXCEPT ![p] = [rows[d][p] EXCEPT !.shown = save]] \in [Papers -> LocalRow]
      BY <3>1, <3>2
    <3>4. rows' = [rows EXCEPT ![d] =
                     [rows[d] EXCEPT ![p] = [rows[d][p] EXCEPT !.shown = save]]]
      BY <1>1 DEF EnqueueMutation
    <3> QED BY <3>3, <3>4 DEF PhoneTypeOK
  <2> QED BY <1>1, <2>1, <2>5, <2>6 DEF EnqueueMutation, PhoneTypeOK, UploadsOperation
<1>2. ASSUME NEW p \in Papers, DismissFailure(d, p)
      PROVE  PhoneTypeOK' /\ UploadsOperation'
  BY <1>2, WithoutTyped DEF DismissFailure, PhoneTypeOK, UploadsOperation
<1>3. ASSUME BackoffElapses(d) PROVE PhoneTypeOK' /\ UploadsOperation'
  <2>1. PICK e \in outbox[d] : outbox' = Replace(d, e, [e EXCEPT !.due = TRUE])
    BY <1>3 DEF BackoffElapses
  <2>2. [e EXCEPT !.due = TRUE] \in Entry
    <3>1. e \in Entry
      BY DEF PhoneTypeOK
    <3> QED BY <3>1 DEF Entry
  <2> QED BY <1>3, <2>1, <2>2, ReplaceTyped DEF BackoffElapses, PhoneTypeOK, UploadsOperation
<1> QED BY <1>1, <1>2, <1>3 DEF Local

(* A cycle that moves elsewhere keeps its type, and uploads nothing.       *)
LEMMA CycleTypes ==
  ASSUME PhoneTypeOK, UploadsOperation, NEW d \in Phones, NEW c \in Cycle,
         c.at = "upload" => c.op \in Operation,
         cycle' = [cycle EXCEPT ![d] = c]
  PROVE  cycle' \in [Phones -> Cycle] /\ UploadsOperation'
BY DEF PhoneTypeOK, UploadsOperation

LEMMA GotoTypes ==
  ASSUME PhoneTypeOK, UploadsOperation, NEW d \in Phones,
         NEW place \in {"stopped", "idle", "drain", "list"},
         NEW goal \in {"drain", "refresh", "full"},
         cycle' = [cycle EXCEPT ![d] = At(place, goal)]
  PROVE  cycle' \in [Phones -> Cycle] /\ UploadsOperation'
<1>1. At(place, goal) \in Cycle /\ At(place, goal).at # "upload"
  BY AtTyped
<1> QED BY <1>1, CycleTypes

LEMMA GoalTyped ==
  ASSUME PhoneTypeOK, NEW d \in Phones
  PROVE  cycle[d] \in Cycle /\ cycle[d].goal \in {"drain", "refresh", "full"}
BY DEF PhoneTypeOK, Cycle

LEMMA ControllerTypes ==
  ASSUME PhoneTypeOK, UploadsOperation, NEW d \in Phones, Controller(d)
  PROVE  PhoneTypeOK' /\ UploadsOperation'
<1> USE GoalTyped
<1>1. ASSUME Start(d) PROVE PhoneTypeOK' /\ UploadsOperation'
  <2>1. Recovered(d) \subseteq Entry
    <3>1. \A e \in outbox[d] : e \in Entry
      BY DEF PhoneTypeOK
    <3>2. \A e \in Entry : [e EXCEPT !.state = "recovery", !.due = TRUE] \in Entry
      BY DEF Entry, ActiveStates
    <3> QED BY <3>1, <3>2 DEF Recovered
  <2> QED BY <1>1, <2>1, GotoTypes DEF Start, PhoneTypeOK
<1>2. ASSUME Stop(d) PROVE PhoneTypeOK' /\ UploadsOperation'
  BY <1>2, StrayTyped, GotoTypes DEF Stop, PhoneTypeOK
<1>3. ASSUME NEW goal \in {"drain", "refresh"}, Trigger(d, goal)
      PROVE  PhoneTypeOK' /\ UploadsOperation'
  BY <1>3, GotoTypes DEF Trigger, PhoneTypeOK
<1>4. ASSUME ClaimNextDue(d) PROVE PhoneTypeOK' /\ UploadsOperation'
  <2>1. PICK e \in Claimable(d) :
          /\ outbox' = Replace(d, e, [e EXCEPT !.state = "in_flight"])
          /\ cycle' = [cycle EXCEPT ![d] = [At("upload", cycle[d].goal) EXCEPT !.op = e.op]]
    BY <1>4 DEF ClaimNextDue
  <2>2. e \in outbox[d] /\ e \in Entry
    BY DEF Claimable, DueRecovery, DueQueued, PhoneTypeOK
  <2>3. [e EXCEPT !.state = "in_flight"] \in Entry /\ e.op \in Operation
    BY <2>2 DEF Entry, ActiveStates
  <2>4. [At("upload", cycle[d].goal) EXCEPT !.op = e.op] \in Cycle
    BY <2>3 DEF At, EmptyPage, Answers, Cycle
  <2>5. [At("upload", cycle[d].goal) EXCEPT !.op = e.op].op = e.op
    BY DEF At
  <2> QED BY <1>4, <2>1, <2>3, <2>4, <2>5, ReplaceTyped, CycleTypes
          DEF ClaimNextDue, PhoneTypeOK
<1>5. ASSUME Drained(d) PROVE PhoneTypeOK' /\ UploadsOperation'
  <2>1. checkpoint[d].last \in Nat
    BY DEF PhoneTypeOK, Checkpoint
  <2>2. [At("changes", "refresh") EXCEPT !.after = checkpoint[d].last] \in Cycle
        /\ [At("changes", "refresh") EXCEPT !.after = checkpoint[d].last].at # "upload"
    BY <2>1 DEF At, EmptyPage, Answers, Cycle
  <2>3. cycle' \in [Phones -> Cycle] /\ UploadsOperation'
    BY <1>5, <2>2, GotoTypes, CycleTypes DEF Drained, Rest
  <2> QED BY <1>5, <2>3 DEF Drained, PhoneTypeOK
<1> QED BY <1>1, <1>2, <1>3, <1>4, <1>5 DEF Controller

(* A row of the database that is changed in one paper.                     *)
LEMMA RowTyped ==
  ASSUME PhoneTypeOK, NEW d \in Phones, NEW p \in Papers, NEW row \in LocalRow
  PROVE  [rows EXCEPT ![d][p] = row] \in [Phones -> [Papers -> LocalRow]]
<1>1. [rows[d] EXCEPT ![p] = row] \in [Papers -> LocalRow]
  BY DEF PhoneTypeOK
<1> QED BY <1>1 DEF PhoneTypeOK

LEMMA CanonicalSet ==
  ASSUME NEW row \in LocalRow, NEW x, NEW y
  PROVE  /\ [row EXCEPT !.canonical = (x = y)] \in LocalRow
         /\ [row EXCEPT !.canonical = (x = y)].canonical = (x = y)
         /\ [row EXCEPT !.canonical = (x = y)].shown = row.shown
BY DEF LocalRow

LEMMA ProjectedTyped ==
  ASSUME NEW S, NEW p, NEW row \in LocalRow
  PROVE  /\ Projected(S, p, row) \in LocalRow
         /\ Projected(S, p, row).canonical = row.canonical
BY DEF Projected, LocalRow

LEMMA RowsTyped ==
  ASSUME PhoneTypeOK, NEW d \in Phones, NEW p \in Papers
  PROVE  /\ rows[d] \in [Papers -> LocalRow] /\ rows[d][p] \in LocalRow
         /\ rows[d][p].shown \in BOOLEAN /\ rows[d][p].canonical \in BOOLEAN
<1>1. rows[d] \in [Papers -> LocalRow] /\ rows[d][p] \in LocalRow
  BY DEF PhoneTypeOK
<1> QED BY <1>1 DEF LocalRow

LEMMA EntryTyped ==
  ASSUME PhoneTypeOK, NEW d \in Phones, NEW e \in outbox[d]
  PROVE  /\ e \in Entry /\ e.op \in Operation /\ e.op.paper \in Papers
         /\ e.state \in ActiveStates \cup {"failed"} /\ e.due \in BOOLEAN
         /\ e.op.id \in Nat /\ e.op.save \in BOOLEAN
<1>1. e \in Entry
  BY DEF PhoneTypeOK
<1>2. e.op \in Operation
  BY <1>1 DEF Entry
<1> QED BY <1>1, <1>2, OperationParts DEF Entry

LEMMA UploadTypes ==
  ASSUME PhoneTypeOK, UploadsOperation, ServerTypeOK', NEW d \in Phones, Upload(d)
  PROVE  PhoneTypeOK' /\ UploadsOperation'
<1> USE GoalTyped
<1>1. ASSUME ServerAnswers(d) PROVE PhoneTypeOK' /\ UploadsOperation'
  <2>1. PICK a \in Answers : cycle' = [cycle EXCEPT ![d].answer = a]
    BY <1>1 DEF ServerAnswers, Answers
  <2>2. [cycle[d] EXCEPT !.answer = a] \in Cycle
    BY DEF Cycle
  <2>3. cycle[d].op \in Operation
    BY <1>1 DEF ServerAnswers, UploadsOperation
  <2>4. [cycle[d] EXCEPT !.answer = a].op = cycle[d].op
    BY DEF Cycle
  <2>5. cycle' = [cycle EXCEPT ![d] = [cycle[d] EXCEPT !.answer = a]]
    BY <2>1
  <2> QED BY <1>1, <2>2, <2>3, <2>4, <2>5, CycleTypes DEF ServerAnswers, PhoneTypeOK
<1>2. ASSUME ServerRejects(d) PROVE PhoneTypeOK' /\ UploadsOperation'
  <2>1. [cycle[d] EXCEPT !.answer = "rejected"] \in Cycle
    BY DEF Cycle
  <2>2. cycle[d].op \in Operation
    BY <1>2 DEF ServerRejects, UploadsOperation
  <2>3. [cycle[d] EXCEPT !.answer = "rejected"].op = cycle[d].op
    BY DEF Cycle
  <2>4. cycle' = [cycle EXCEPT ![d] = [cycle[d] EXCEPT !.answer = "rejected"]]
    BY <1>2 DEF ServerRejects
  <2> QED BY <1>2, <2>1, <2>2, <2>3, <2>4, CycleTypes DEF ServerRejects, PhoneTypeOK
<1>3. ASSUME ApplyMutationSuccess(d) PROVE PhoneTypeOK' /\ UploadsOperation'
  <2>1. PICK e \in outbox[d] :
          LET p == e.op.paper
              rest == Without(d, p, {"failed"}) \ {e}
          IN  /\ outbox' = [outbox EXCEPT ![d] = rest]
              /\ rows' = [rows EXCEPT ![d][p] = Projected(rest, p,
                   [rows[d][p] EXCEPT !.canonical = (cycle[d].answer = "saved")])]
    BY <1>3 DEF ApplyMutationSuccess
  <2> DEFINE p == e.op.paper
             rest == Without(d, p, {"failed"}) \ {e}
             row == [rows[d][p] EXCEPT !.canonical = (cycle[d].answer = "saved")]
  <2>2. p \in Papers /\ rest \subseteq Entry
    BY EntryTyped, WithoutTyped
  <2>3. row \in LocalRow
    BY <2>2, RowsTyped, CanonicalSet, Zenon
  <2>4. outbox' \in [Phones -> SUBSET Entry]
    BY <2>1, <2>2 DEF PhoneTypeOK
  <2>5. rows' \in [Phones -> [Papers -> LocalRow]]
    <3>1. Projected(rest, p, row) \in LocalRow
      BY <2>3, ProjectedTyped
    <3> HIDE DEF rest, row
    <3> QED BY <2>1, <2>2, <3>1, RowTyped DEF rest, row
  <2>6. cycle' \in [Phones -> Cycle] /\ UploadsOperation'
    BY <1>3, GotoTypes DEF ApplyMutationSuccess, Goto
  <2> QED BY <1>3, <2>4, <2>5, <2>6 DEF ApplyMutationSuccess, PhoneTypeOK
<1>4. ASSUME MarkPermanentFailure(d) PROVE PhoneTypeOK' /\ UploadsOperation'
  <2>1. PICK e \in outbox[d] :
          /\ outbox' = Replace(d, e, [e EXCEPT !.state = "failed", !.due = FALSE])
          /\ rows' = [rows EXCEPT ![d][e.op.paper] =
               Projected(outbox[d] \ {e}, e.op.paper, rows[d][e.op.paper])]
    BY <1>4 DEF MarkPermanentFailure
  <2>2. e.op.paper \in Papers /\ [e EXCEPT !.state = "failed", !.due = FALSE] \in Entry
    BY EntryTyped DEF Entry
  <2>3. Projected(outbox[d] \ {e}, e.op.paper, rows[d][e.op.paper]) \in LocalRow
    BY <2>2, RowsTyped, ProjectedTyped
  <2>4. rows' \in [Phones -> [Papers -> LocalRow]]
    BY <2>1, <2>2, <2>3, RowTyped
  <2>5. outbox' \in [Phones -> SUBSET Entry]
    BY <2>1, <2>2, ReplaceTyped
  <2>6. cycle' \in [Phones -> Cycle] /\ UploadsOperation'
    BY <1>4, GotoTypes DEF MarkPermanentFailure, Goto
  <2> QED BY <1>4, <2>4, <2>5, <2>6 DEF MarkPermanentFailure, PhoneTypeOK
<1>5. ASSUME MarkRetry(d) PROVE PhoneTypeOK' /\ UploadsOperation'
  <2>1. PICK e \in outbox[d] :
          outbox' = Replace(d, e, [e EXCEPT !.state = RetryState(d, e), !.due = FALSE])
    BY <1>5 DEF MarkRetry
  <2>2. [e EXCEPT !.state = RetryState(d, e), !.due = FALSE] \in Entry
    BY EntryTyped DEF Entry, RetryState, ActiveStates
  <2>3. outbox' \in [Phones -> SUBSET Entry]
    BY <2>1, <2>2, ReplaceTyped
  <2>4. cycle' \in [Phones -> Cycle] /\ UploadsOperation'
    BY <1>5, GotoTypes DEF MarkRetry, Goto
  <2> QED BY <1>5, <2>3, <2>4, StrayTyped DEF MarkRetry, PhoneTypeOK
<1> QED BY <1>1, <1>2, <1>3, <1>4, <1>5 DEF Upload

(* The pages of a listing.                                                 *)
LEMMA ListPageTyped ==
  ASSUME ServerTypeOK, PhoneTypeOK, NEW d \in Phones,
         NEW fence \in Nat, NEW cursor \in Nat, AfterListPage(d, fence, cursor)
  PROVE  cycle' \in [Phones -> Cycle] /\ cycle'[d].at # "upload"
         /\ \A c \in Phones \ {d} : cycle'[c] = cycle[c]
<1> DEFINE page == ListPage(fence, cursor)
           listed == cycle[d].listed \cup page
<1>1. page \subseteq Papers /\ listed \subseteq Papers
  <2>1. cycle[d].listed \subseteq Papers
    BY GoalTyped DEF Cycle
  <2> QED BY <2>1 DEF ListPage, Listable
<1>2. CASE page = Listable(fence, cursor)
  <2> DEFINE new == [At("snapshot", "full") EXCEPT !.fence = fence, !.listed = listed]
  <2>1. new \in Cycle /\ new.at # "upload"
    BY <1>1 DEF At, EmptyPage, Answers, Cycle
  <2>2. cycle' = [cycle EXCEPT ![d] = new]
    BY <1>2 DEF AfterListPage
  <2> QED BY <2>1, <2>2 DEF PhoneTypeOK
<1>3. CASE page # Listable(fence, cursor)
  <2>1. PICK p \in page :
          cycle' = [cycle EXCEPT ![d] = [At("listing", "full") EXCEPT !.fence = fence,
                      !.cursor = items[p].since, !.listed = listed]]
    BY <1>3 DEF AfterListPage
  <2> DEFINE new == [At("listing", "full") EXCEPT !.fence = fence,
                       !.cursor = items[p].since, !.listed = listed]
  <2>2. items[p] \in Item
    BY <1>1 DEF ServerTypeOK
  <2>3. items[p].since \in Nat
    BY <2>2 DEF Item
  <2>4. new \in Cycle /\ new.at # "upload"
    BY <1>1, <2>3 DEF At, EmptyPage, Answers, Cycle
  <2> QED BY <2>1, <2>4 DEF PhoneTypeOK
<1> QED BY <1>2, <1>3

LEMMA RefreshTypes ==
  ASSUME ServerTypeOK, PhoneTypeOK, UploadsOperation, NEW d \in Phones, Refresh(d)
  PROVE  PhoneTypeOK' /\ UploadsOperation'
<1> USE GoalTyped
<1>0. /\ cycle[d].fence \in Nat /\ cycle[d].cursor \in Nat /\ cycle[d].listed \subseteq Papers
      /\ cycle[d].after \in Nat /\ cycle[d].next \in Nat
      /\ cycle[d].page \in [Papers -> Answers \cup {"none"}]
  BY DEF Cycle
<1>1. ASSUME FetchFirstPage(d) PROVE PhoneTypeOK' /\ UploadsOperation'
  <2>1. AfterListPage(d, revision, revision + 1) /\ revision \in Nat
    BY <1>1 DEF FetchFirstPage, ServerTypeOK
  <2> QED BY <1>1, <2>1, ListPageTyped DEF FetchFirstPage, PhoneTypeOK, UploadsOperation
<1>2. ASSUME FetchNextPage(d) PROVE PhoneTypeOK' /\ UploadsOperation'
  BY <1>0, <1>2, ListPageTyped DEF FetchNextPage, PhoneTypeOK, UploadsOperation
<1>3. ASSUME ApplyFullSnapshot(d) PROVE PhoneTypeOK' /\ UploadsOperation'
  <2>1. \A p \in Papers : SnapshotRow(d, p) \in LocalRow
    <3> SUFFICES ASSUME NEW p \in Papers PROVE SnapshotRow(d, p) \in LocalRow
      OBVIOUS
    <3> DEFINE there == p \in cycle[d].listed
               shown == IF Active(d, p) # {} THEN rows[d][p].shown ELSE there
    <3>0. rows[d][p].shown \in BOOLEAN
      BY RowsTyped
    <3>1. there \in BOOLEAN /\ shown \in BOOLEAN
      <4>1. there \in BOOLEAN
        OBVIOUS
      <4> HIDE DEF there
      <4>2. CASE Active(d, p) # {}
        BY <3>0, <4>1, <4>2
      <4>3. CASE Active(d, p) = {}
        BY <4>1, <4>3
      <4> QED BY <4>2, <4>3
    <3>2. SnapshotRow(d, p) = [canonical |-> there, shown |-> shown]
      BY DEF SnapshotRow
    <3> HIDE DEF there, shown
    <3> QED BY <3>1, <3>2 DEF LocalRow
  <2>2. [p \in Papers |-> SnapshotRow(d, p)] \in [Papers -> LocalRow]
    BY <2>1
  <2>3. rows' \in [Phones -> [Papers -> LocalRow]]
    BY <1>3, <2>2 DEF ApplyFullSnapshot, PhoneTypeOK
  <2>4. checkpoint' \in [Phones -> Checkpoint]
    BY <1>0, <1>3 DEF ApplyFullSnapshot, PhoneTypeOK, Checkpoint
  <2> DEFINE new == [At("changes", "full") EXCEPT !.after = cycle[d].fence]
  <2>5. new \in Cycle /\ new.at # "upload"
    BY <1>0 DEF At, EmptyPage, Answers, Cycle
  <2>6. cycle' = [cycle EXCEPT ![d] = new]
    BY <1>3 DEF ApplyFullSnapshot
  <2> HIDE DEF new
  <2> QED BY <1>3, <2>3, <2>4, <2>5, <2>6, CycleTypes DEF ApplyFullSnapshot, PhoneTypeOK
<1>4. ASSUME FetchChanges(d) PROVE PhoneTypeOK' /\ UploadsOperation'
  <2> DEFINE page == [p \in Papers |->
                        IF p \in ChangesPage(cycle[d].after) THEN Standing(p) ELSE "none"]
             more == ChangesPage(cycle[d].after) # Unseen(cycle[d].after)
  <2>1. PICK next \in 0..revision :
          cycle' = [cycle EXCEPT ![d] = [At("page", cycle[d].goal) EXCEPT
             !.after = cycle[d].after, !.next = next, !.more = more, !.page = page]]
    BY <1>4 DEF FetchChanges
  <2> DEFINE new == [At("page", cycle[d].goal) EXCEPT
             !.after = cycle[d].after, !.next = next, !.more = more, !.page = page]
  <2>2. page \in [Papers -> Answers \cup {"none"}] /\ more \in BOOLEAN /\ next \in Nat
    BY DEF Standing, Answers, ServerTypeOK
  <2>3. new \in Cycle /\ new.at # "upload"
    <3> HIDE DEF page, more
    <3> QED BY <1>0, <2>2 DEF At, EmptyPage, Answers, Cycle
  <2>4. cycle' = [cycle EXCEPT ![d] = new]
    BY <2>1
  <2> HIDE DEF new
  <2> QED BY <1>4, <2>3, <2>4, CycleTypes DEF FetchChanges, PhoneTypeOK
<1>5. ASSUME ObeyReset(d) PROVE PhoneTypeOK' /\ UploadsOperation'
  <2>1. cycle' \in [Phones -> Cycle] /\ UploadsOperation'
    BY <1>5, GotoTypes DEF ObeyReset, Rest
  <2>2. checkpoint' \in [Phones -> Checkpoint]
    <3>1. [checkpoint[d] EXCEPT !.initialized = FALSE] \in Checkpoint
      BY DEF PhoneTypeOK, Checkpoint
    <3>2. \/ checkpoint' = [checkpoint EXCEPT ![d] =
                              [checkpoint[d] EXCEPT !.initialized = FALSE]]
          \/ checkpoint' = checkpoint
      BY <1>5 DEF ObeyReset
    <3> QED BY <3>1, <3>2 DEF PhoneTypeOK
  <2> QED BY <1>5, <2>1, <2>2 DEF ObeyReset, PhoneTypeOK
<1>6. ASSUME ApplyChanges(d) PROVE PhoneTypeOK' /\ UploadsOperation'
  <2>1. \A p \in Papers : ChangedRow(d, p) \in LocalRow
    BY RowsTyped DEF ChangedRow, LocalRow
  <2>2. [p \in Papers |-> ChangedRow(d, p)] \in [Papers -> LocalRow]
    BY <2>1
  <2>3. rows' \in [Phones -> [Papers -> LocalRow]]
    BY <1>6, <2>2 DEF ApplyChanges, PhoneTypeOK
  <2>4. checkpoint' \in [Phones -> Checkpoint]
    BY <1>0, <1>6 DEF ApplyChanges, PhoneTypeOK, Checkpoint
  <2> DEFINE new == [At("changes", cycle[d].goal) EXCEPT !.after = cycle[d].next]
  <2>5. new \in Cycle /\ new.at # "upload"
    BY <1>0 DEF At, EmptyPage, Answers, Cycle
  <2>6. cycle' = [cycle EXCEPT ![d] = new] \/ Rest(d)
    BY <1>6 DEF ApplyChanges
  <2>7. cycle' \in [Phones -> Cycle] /\ UploadsOperation'
    <3> HIDE DEF new
    <3> QED BY <2>5, <2>6, CycleTypes, GotoTypes DEF Rest
  <2> QED BY <1>6, <2>3, <2>4, <2>7 DEF ApplyChanges, PhoneTypeOK
<1>7. ASSUME RefreshFails(d) PROVE PhoneTypeOK' /\ UploadsOperation'
  BY <1>7, GotoTypes DEF RefreshFails, Rest, PhoneTypeOK
<1> QED BY <1>1, <1>2, <1>3, <1>4, <1>5, <1>6, <1>7 DEF Refresh

LEMMA OtherTypes ==
  ASSUME PhoneTypeOK, UploadsOperation, NEW op \in Operation,
         StrayArrives(op) \/ PeerMutates(op)
  PROVE  PhoneTypeOK' /\ UploadsOperation'
<1>1. CASE StrayArrives(op)
  BY <1>1 DEF StrayArrives, PhoneTypeOK, UploadsOperation
<1>2. CASE PeerMutates(op)
  <2>1. issued' \in [Devices -> Nat]
    BY <1>2, OperationParts, IssuesTyped DEF PeerMutates
  <2> QED BY <1>2, <2>1 DEF PeerMutates, PhoneTypeOK, UploadsOperation
<1> QED BY <1>1, <1>2

(* What any step is for the server.                                        *)
LEMMA ServerSteps ==
  ASSUME UploadsOperation, [Next]_vars
  PROVE  \/ UNCHANGED svars
         \/ \E op \in Operation : MutateItem(op)
         \/ \E p \in Papers : CleanupTombstones(p)
<1>1. ASSUME NEW d \in Phones, Local(d) \/ Controller(d) \/ Refresh(d)
      PROVE  UNCHANGED svars
  BY <1>1 DEF Local, EnqueueMutation, DismissFailure, BackoffElapses, Controller, Start,
       Stop, Trigger, ClaimNextDue, Drained, Refresh, FetchFirstPage, FetchNextPage,
       ApplyFullSnapshot, FetchChanges, ObeyReset, ApplyChanges, RefreshFails
<1>2. ASSUME NEW d \in Phones, Upload(d)
      PROVE  UNCHANGED svars \/ \E op \in Operation : MutateItem(op)
  BY <1>2 DEF Upload, ServerAnswers, ServerRejects, ApplyMutationSuccess,
       MarkPermanentFailure, MarkRetry, UploadsOperation
<1>3. ASSUME NEW op \in Operation, StrayArrives(op) \/ PeerMutates(op)
      PROVE  MutateItem(op)
  BY <1>3 DEF StrayArrives, PeerMutates
<1>4. Retention => \E p \in Papers : CleanupTombstones(p)
  BY DEF Retention
<1>5. UNCHANGED vars => UNCHANGED svars
  BY DEF vars, svars
<1> QED BY <1>1, <1>2, <1>3, <1>4, <1>5 DEF Next

(* What any step does to the server, as seen from a phone.                 *)
LEMMA ServerStep ==
  ASSUME ServerTypeOK, ServerInv, UploadsOperation, [Next]_vars
  PROVE  ServerTypeOK' /\ ServerInv' /\ ServerMoves
BY ServerSteps, MutateItemEffect, CleanupEffect, ServerStutters

TypeInv == ServerTypeOK /\ ServerInv /\ PhoneTypeOK /\ UploadsOperation

LEMMA InitTypes == Init => TypeInv
<1> SUFFICES ASSUME Init PROVE TypeInv
  OBVIOUS
<1>1. ServerTypeOK /\ ServerInv
  BY DEF Init, SInit, ServerTypeOK, ServerInv, Item
<1>2. cycle \in [Phones -> Cycle]
  BY AtTyped DEF Init
<1>3. PhoneTypeOK
  BY <1>2 DEF Init, PhoneTypeOK, LocalRow, Checkpoint
<1>4. UploadsOperation
  BY AtTyped DEF Init, UploadsOperation
<1> QED BY <1>1, <1>3, <1>4 DEF TypeInv

LEMMA NextTypes ==
  ASSUME TypeInv, [Next]_vars
  PROVE  TypeInv'
<1> USE DEF TypeInv
<1>1. ServerTypeOK' /\ ServerInv'
  BY ServerStep
<1>2. ASSUME NEW d \in Phones, Local(d) \/ Controller(d) \/ Upload(d) \/ Refresh(d)
      PROVE  PhoneTypeOK' /\ UploadsOperation'
  BY <1>1, <1>2, LocalTypes, ControllerTypes, UploadTypes, RefreshTypes
<1>3. ASSUME NEW op \in Operation, StrayArrives(op) \/ PeerMutates(op)
      PROVE  PhoneTypeOK' /\ UploadsOperation'
  BY <1>3, OtherTypes
<1>4. CASE Retention
  BY <1>1, <1>4 DEF Retention, PhoneTypeOK, UploadsOperation
<1>5. CASE UNCHANGED vars
  BY <1>1, <1>5 DEF vars, PhoneTypeOK, UploadsOperation
<1> QED BY <1>1, <1>2, <1>3, <1>4, <1>5 DEF Next

LEMMA TypeInvariant == Spec => []TypeInv
BY InitTypes, NextTypes, PTL DEF Spec

(* The rows of the server and the databases and controllers of the devices *)
(* keep their shape, in every library and with any number of devices.      *)
THEOREM LibraryTypeCorrect == Spec => []TypeOK
<1>1. TypeInv => TypeOK
  BY DEF TypeInv, ServerTypeOK, PhoneTypeOK, TypeOK
<1> QED BY <1>1, TypeInvariant, PTL

-----------------------------------------------------------------------------
(* The server's library is the abstract one.                               *)

LEMMA LogInit == Init => Log!LInit
BY DEF Init, SInit, Log!LInit

LEMMA LogApply ==
  ASSUME ServerTypeOK, NEW op \in Operation, MutateItem(op)
  PROVE  Log!LNext \/ UNCHANGED Log!lvars
<1>1. CASE Replayed(op)
  BY <1>1 DEF MutateItem, svars, Log!lvars
<1>2. CASE ~Replayed(op)
  <2>1. /\ items' = [items EXCEPT ![op.paper] = Rewritten(op)]
        /\ accepted' = accepted \cup {op}
        /\ Rewritten(op).saved = op.save
    BY <1>2 DEF MutateItem, Rewritten
  <2>2. op.paper \in Papers /\ op.save \in BOOLEAN
    BY OperationParts
  <2>3. \A p \in Papers :
          items'[p].saved = IF p = op.paper THEN op.save ELSE items[p].saved
    BY <2>1, <2>2 DEF ServerTypeOK
  <2>4. {p \in Papers : items'[p].saved} =
          IF op.save THEN {p \in Papers : items[p].saved} \cup {op.paper}
                     ELSE {p \in Papers : items[p].saved} \ {op.paper}
    BY <2>2, <2>3
  <2>5. Log!Apply(op)
    BY <1>2, <2>1, <2>4 DEF Log!Apply, Replayed
  <2> QED BY <2>5 DEF Log!LNext
<1> QED BY <1>1, <1>2

LEMMA LogCleanup ==
  ASSUME ServerTypeOK, NEW p \in Papers, CleanupTombstones(p)
  PROVE  UNCHANGED Log!lvars
<1>1. \A q \in Papers : items'[q].saved = items[q].saved
  <2> SUFFICES ASSUME NEW q \in Papers PROVE items'[q].saved = items[q].saved
    OBVIOUS
  <2>1. items[q] \in Item
    BY DEF ServerTypeOK
  <2>2. [items[q] EXCEPT !.stored = FALSE].saved = items[q].saved
    BY <2>1 DEF Item
  <2> QED BY <2>2 DEF CleanupTombstones
<1> QED BY <1>1 DEF CleanupTombstones, Log!lvars

LEMMA LogNext ==
  ASSUME TypeInv, [Next]_vars
  PROVE  [Log!LNext]_(Log!lvars)
<1>1. UNCHANGED svars => UNCHANGED Log!lvars
  BY DEF svars, Log!lvars
<1> QED BY <1>1, ServerSteps, LogApply, LogCleanup DEF TypeInv

(* Whatever the phones, the network and the retention worker do, the       *)
(* server's library is a set of papers on which every operation takes      *)
(* effect at most once, and nothing else changes it.                       *)
THEOREM ServerImplementsLog == Spec => ImplementsLog
BY LogInit, LogNext, TypeInvariant, PTL DEF Spec, ImplementsLog, Log!LSpec

-----------------------------------------------------------------------------
(* CheckpointHonest.  It is not inductive: what a phone is about to apply  *)
(* has to be true as well, of every row that has not moved beyond it.      *)

(* An answer it reads is what the server held, unless the row has moved.   *)
AnswerHonest(d) ==
    cycle[d].at = "upload" /\ cycle[d].answer \in Answers /\ checkpoint[d].initialized =>
      LET p == cycle[d].op.paper
      IN  items[p].revision <= checkpoint[d].last =>
            ((cycle[d].answer = "saved") <=> items[p].saved)

(* A listing holds the saved rows down to its cursor, of the rows that     *)
(* have not moved beyond its fence.                                        *)
ListingHonest(d) ==
    /\ cycle[d].at = "list" => cycle[d].listed = {}
    /\ cycle[d].at = "snapshot" => cycle[d].cursor = 0
    /\ cycle[d].at \in {"listing", "snapshot"} =>
         /\ cycle[d].fence <= revision
         /\ \A p \in Papers : items[p].revision <= cycle[d].fence =>
              /\ p \in cycle[d].listed => items[p].saved
              /\ items[p].saved /\ items[p].since >= cycle[d].cursor
                   => p \in cycle[d].listed

(* A page of changes starts at the checkpoint, and holds every row that is *)
(* still between there and the position it leads to.                       *)
PageHonest(d) ==
    /\ cycle[d].at \in {"changes", "page"} =>
         checkpoint[d].initialized /\ cycle[d].after = checkpoint[d].last
    /\ cycle[d].at = "page" =>
         /\ cycle[d].after <= cycle[d].next /\ cycle[d].next <= revision
         /\ \A p \in Papers :
              /\ cycle[d].page[p] # "none" => items[p].revision > cycle[d].after
              /\ items[p].revision > cycle[d].after /\ items[p].revision <= cycle[d].next =>
                   /\ cycle[d].page[p] # "none"
                   /\ (cycle[d].page[p] = "saved") <=> items[p].saved

Feed(d) ==
    /\ checkpoint[d].last <= revision
    /\ Honest(d)
    /\ AnswerHonest(d)
    /\ ListingHonest(d)
    /\ PageHonest(d)

(* Of a step, what it leaves to a phone that does not take it.             *)
SameCanonical(d) == \A p \in Papers : rows'[d][p].canonical = rows[d][p].canonical
PhoneRests(d) ==
    checkpoint'[d] = checkpoint[d] /\ cycle'[d] = cycle[d] /\ SameCanonical(d)

LEMMA PhoneNumbers ==
  ASSUME ServerTypeOK, PhoneTypeOK, NEW d \in Phones
  PROVE  /\ checkpoint[d].last \in Nat /\ checkpoint[d].initialized \in BOOLEAN
         /\ cycle[d].fence \in Nat /\ cycle[d].cursor \in Nat
         /\ cycle[d].after \in Nat /\ cycle[d].next \in Nat
         /\ cycle[d].listed \subseteq Papers
         /\ revision \in Nat
         /\ \A p \in Papers : items[p].revision \in Nat /\ items[p].since \in Nat
                              /\ items[p].saved \in BOOLEAN /\ items[p].stored \in BOOLEAN
<1>1. checkpoint[d] \in Checkpoint /\ cycle[d] \in Cycle
  BY DEF PhoneTypeOK
<1>2. \A p \in Papers : items[p] \in Item
  BY DEF ServerTypeOK
<1> QED BY <1>1, <1>2 DEF Checkpoint, Cycle, Item, ServerTypeOK

(* The server's steps do not disturb what a phone holds.                   *)
LEMMA FeedRests ==
  ASSUME ServerTypeOK, PhoneTypeOK, UploadsOperation, ServerTypeOK', PhoneTypeOK',
         ServerMoves, NEW d \in Phones, PhoneRests(d), Feed(d)
  PROVE  Feed(d)'
<1>0. /\ revision \in Nat /\ revision' \in Nat /\ revision <= revision'
      /\ checkpoint[d].last \in Nat /\ cycle[d].fence \in Nat
      /\ cycle[d].after \in Nat /\ cycle[d].next \in Nat
  BY PhoneNumbers DEF ServerTypeOK, ServerMoves
<1>m. ASSUME NEW p \in Papers
      PROVE  /\ items[p].revision \in Nat /\ items'[p].revision \in Nat
             /\ SameRow(p) \/ items'[p].revision > revision
  BY PhoneNumbers DEF ServerTypeOK, ServerMoves, Item
<1>c. checkpoint'[d] = checkpoint[d] /\ cycle'[d] = cycle[d] /\ SameCanonical(d)
  BY DEF PhoneRests
<1>1. checkpoint'[d].last <= revision'
  BY <1>0, <1>c DEF Feed
<1>2. Honest(d)'
  BY <1>0, <1>m, <1>c DEF Feed, Honest, SameRow, SameCanonical
<1>3. AnswerHonest(d)'
  <2>1. cycle[d].at = "upload" => cycle[d].op.paper \in Papers
    BY OperationParts DEF UploadsOperation
  <2> QED BY <1>0, <1>m, <1>c, <2>1 DEF Feed, AnswerHonest, SameRow
<1>4. ListingHonest(d)'
  <2>1. CASE cycle[d].at \in {"listing", "snapshot"}
    <3>1. /\ cycle[d].fence <= revision
          /\ \A p \in Papers : items[p].revision <= cycle[d].fence =>
              /\ p \in cycle[d].listed => items[p].saved
              /\ items[p].saved /\ items[p].since >= cycle[d].cursor
                   => p \in cycle[d].listed
      BY <2>1 DEF Feed, ListingHonest
    <3>2. ASSUME NEW p \in Papers, items'[p].revision <= cycle[d].fence
          PROVE  /\ p \in cycle[d].listed => items'[p].saved
                 /\ items'[p].saved /\ items'[p].since >= cycle[d].cursor
                      => p \in cycle[d].listed
      <4>1. SameRow(p)
        BY <1>0, <1>m, <3>1, <3>2
      <4> QED BY <3>1, <3>2, <4>1 DEF SameRow
    <3>3. cycle[d].fence <= revision'
      BY <1>0, <3>1
    <3>4. (cycle[d].at = "snapshot" => cycle[d].cursor = 0) /\ cycle[d].at # "list"
      BY <2>1 DEF Feed, ListingHonest
    <3> QED BY <1>c, <3>2, <3>3, <3>4 DEF ListingHonest
  <2>2. CASE cycle[d].at \notin {"listing", "snapshot"}
    BY <1>c, <2>2 DEF Feed, ListingHonest
  <2> QED BY <2>1, <2>2
<1>5. PageHonest(d)'
  <2>1. CASE cycle[d].at = "page"
    <3>1. /\ cycle[d].after <= cycle[d].next /\ cycle[d].next <= revision
          /\ \A p \in Papers :
              /\ cycle[d].page[p] # "none" => items[p].revision > cycle[d].after
              /\ items[p].revision > cycle[d].after /\ items[p].revision <= cycle[d].next =>
                   /\ cycle[d].page[p] # "none"
                   /\ (cycle[d].page[p] = "saved") <=> items[p].saved
      BY <2>1 DEF Feed, PageHonest
    <3>2. ASSUME NEW p \in Papers
          PROVE  /\ cycle[d].page[p] # "none" => items'[p].revision > cycle[d].after
                 /\ items'[p].revision > cycle[d].after
                      /\ items'[p].revision <= cycle[d].next =>
                     /\ cycle[d].page[p] # "none"
                     /\ (cycle[d].page[p] = "saved") <=> items'[p].saved
      <4>1. CASE SameRow(p)
        BY <3>1, <4>1 DEF SameRow
      <4>2. CASE items'[p].revision > revision
        BY <1>0, <1>m, <3>1, <4>2
      <4> QED BY <1>m, <4>1, <4>2
    <3>3. cycle[d].next <= revision'
      BY <1>0, <3>1
    <3>4. checkpoint[d].initialized /\ cycle[d].after = checkpoint[d].last
      BY <2>1 DEF Feed, PageHonest
    <3> QED BY <1>c, <3>1, <3>2, <3>3, <3>4 DEF PageHonest
  <2>2. CASE cycle[d].at # "page"
    BY <1>c, <2>2 DEF Feed, PageHonest
  <2> QED BY <2>1, <2>2
<1> QED BY <1>1, <1>2, <1>3, <1>4, <1>5 DEF Feed

(* A phone that moves on with nothing in its hands.                        *)
Idles(d) ==
    /\ cycle'[d].at \notin {"listing", "snapshot", "changes", "page"}
    /\ cycle'[d].at = "list" => cycle'[d].listed = {}
    /\ cycle'[d].answer \notin Answers

LEMMA FeedIdles ==
  ASSUME ServerTypeOK, PhoneTypeOK, NEW d \in Phones, UNCHANGED svars,
         Feed(d), checkpoint'[d] = checkpoint[d], SameCanonical(d), Idles(d)
  PROVE  Feed(d)'
<1>1. Honest(d)'
  BY DEF Feed, Honest, SameCanonical, svars
<1>2. AnswerHonest(d)' /\ ListingHonest(d)' /\ PageHonest(d)'
  BY DEF AnswerHonest, ListingHonest, PageHonest, Idles
<1> QED BY <1>1, <1>2 DEF Feed, svars

LEMMA AtIdles ==
  ASSUME PhoneTypeOK, NEW d \in Phones, NEW goal,
         NEW place \in {"stopped", "idle", "drain", "list"},
         cycle' = [cycle EXCEPT ![d] = At(place, goal)]
  PROVE  Idles(d)
BY DEF PhoneTypeOK, At, Idles, Answers

(* A device's steps concern its own database and controller only.          *)
LEMMA OthersRest ==
  ASSUME PhoneTypeOK, NEW d \in Phones, NEW c \in Phones \ {d},
         Local(c) \/ Controller(c) \/ Upload(c) \/ Refresh(c)
  PROVE  /\ checkpoint'[d] = checkpoint[d] /\ cycle'[d] = cycle[d]
         /\ rows'[d] = rows[d] /\ outbox'[d] = outbox[d]
<1> USE DEF PhoneTypeOK
<1>1. CASE Local(c)
  BY <1>1 DEF Local, EnqueueMutation, DismissFailure, BackoffElapses, Replace
<1>2. CASE Controller(c)
  BY <1>2 DEF Controller, Start, Stop, Trigger, ClaimNextDue, Drained, Rest, Replace
<1>3. CASE Upload(c)
  BY <1>3 DEF Upload, ServerAnswers, ServerRejects, ApplyMutationSuccess,
       MarkPermanentFailure, MarkRetry, Goto, Replace
<1>4. CASE Refresh(c)
  BY <1>4 DEF Refresh, FetchFirstPage, FetchNextPage, ApplyFullSnapshot, FetchChanges,
       ObeyReset, ApplyChanges, RefreshFails, AfterListPage, Rest
<1> QED BY <1>1, <1>2, <1>3, <1>4

LEMMA LocalRests ==
  ASSUME PhoneTypeOK, NEW d \in Phones, Local(d)
  PROVE  PhoneRests(d) /\ UNCHANGED svars
<1>1. ASSUME NEW p \in Papers, NEW save \in BOOLEAN, EnqueueMutation(d, p, save)
      PROVE  PhoneRests(d) /\ UNCHANGED svars
  <2>1. \A q \in Papers : rows'[d][q].canonical = rows[d][q].canonical
    <3> SUFFICES ASSUME NEW q \in Papers PROVE rows'[d][q].canonical = rows[d][q].canonical
      OBVIOUS
    <3>1. rows' = [rows EXCEPT ![d] =
                     [rows[d] EXCEPT ![p] = [rows[d][p] EXCEPT !.shown = save]]]
      BY <1>1 DEF EnqueueMutation
    <3>2. [rows[d][p] EXCEPT !.shown = save].canonical = rows[d][p].canonical
      BY RowsTyped DEF LocalRow
    <3> QED BY <3>1, <3>2, RowsTyped DEF PhoneTypeOK
  <2> QED BY <1>1, <2>1 DEF EnqueueMutation, PhoneRests, SameCanonical
<1>2. ASSUME NEW p \in Papers, DismissFailure(d, p)
      PROVE  PhoneRests(d) /\ UNCHANGED svars
  BY <1>2 DEF DismissFailure, PhoneRests, SameCanonical
<1>3. ASSUME BackoffElapses(d) PROVE PhoneRests(d) /\ UNCHANGED svars
  BY <1>3 DEF BackoffElapses, PhoneRests, SameCanonical
<1> QED BY <1>1, <1>2, <1>3 DEF Local

LEMMA ControllerFeed ==
  ASSUME ServerTypeOK, PhoneTypeOK, NEW d \in Phones, Controller(d), Feed(d)
  PROVE  Feed(d)'
<1> USE FeedIdles, AtIdles DEF SameCanonical
<1>1. ASSUME Start(d) PROVE Feed(d)'
  BY <1>1 DEF Start
<1>2. ASSUME Stop(d) PROVE Feed(d)'
  BY <1>2 DEF Stop
<1>3. ASSUME NEW goal \in {"drain", "refresh"}, Trigger(d, goal) PROVE Feed(d)'
  BY <1>3 DEF Trigger
<1>4. ASSUME ClaimNextDue(d) PROVE Feed(d)'
  <2>1. PICK e \in Claimable(d) :
          cycle' = [cycle EXCEPT ![d] = [At("upload", cycle[d].goal) EXCEPT !.op = e.op]]
    BY <1>4 DEF ClaimNextDue
  <2>2. Idles(d)
    BY <2>1 DEF PhoneTypeOK, At, Idles, Answers
  <2> QED BY <1>4, <2>2 DEF ClaimNextDue
<1>5. ASSUME Drained(d) PROVE Feed(d)'
  <2>0. UNCHANGED svars /\ checkpoint'[d] = checkpoint[d] /\ SameCanonical(d)
    BY <1>5 DEF Drained
  <2>1. CASE Rest(d) \/ cycle' = [cycle EXCEPT ![d] = At("list", "full")]
    BY <2>0, <2>1 DEF Rest
  <2>2. CASE /\ checkpoint[d].initialized
             /\ cycle' = [cycle EXCEPT ![d] =
                          [At("changes", "refresh") EXCEPT !.after = checkpoint[d].last]]
    <3>1. /\ cycle'[d].at = "changes" /\ cycle'[d].after = checkpoint[d].last
      BY <2>2 DEF PhoneTypeOK, At
    <3>2. AnswerHonest(d)' /\ ListingHonest(d)' /\ PageHonest(d)'
      BY <2>0, <2>2, <3>1 DEF AnswerHonest, ListingHonest, PageHonest
    <3>3. Honest(d)'
      BY <2>0 DEF Feed, Honest, svars
    <3> QED BY <2>0, <3>2, <3>3 DEF Feed, svars
  <2> QED BY <1>5, <2>1, <2>2 DEF Drained
<1> QED BY <1>1, <1>2, <1>3, <1>4, <1>5 DEF Controller

LEMMA UploadFeed ==
  ASSUME ServerTypeOK, ServerInv, PhoneTypeOK, UploadsOperation, NEW d \in Phones,
         Upload(d), Feed(d)
  PROVE  Feed(d)'
<1>1. ASSUME ServerAnswers(d) PROVE Feed(d)'
  <2> DEFINE op == cycle[d].op
  <2>1. op \in Operation /\ MutateItem(op) /\ op.paper \in Papers
    BY <1>1, OperationParts DEF ServerAnswers, UploadsOperation
  <2>2. ServerTypeOK' /\ ServerInv' /\ ServerMoves
    BY <2>1, MutateItemEffect
  <2>3. /\ checkpoint'[d] = checkpoint[d] /\ rows'[d] = rows[d]
        /\ cycle'[d].at = "upload" /\ cycle'[d].op = op
        /\ (cycle'[d].answer = "saved") <=> items'[op.paper].saved
    <3>1. cycle[d] \in Cycle
      BY GoalTyped
    <3> QED BY <1>1, <3>1 DEF ServerAnswers, PhoneTypeOK, Cycle
  <2>4. checkpoint'[d].last <= revision' /\ Honest(d)'
    <3>1. checkpoint[d].last \in Nat /\ checkpoint[d].last <= revision
          /\ revision \in Nat /\ revision' \in Nat /\ revision <= revision'
      BY <2>2, PhoneNumbers DEF Feed, ServerTypeOK, ServerMoves
    <3>2. ASSUME NEW p \in Papers
          PROVE  /\ items[p].revision \in Nat /\ items'[p].revision \in Nat
                 /\ SameRow(p) \/ items'[p].revision > revision
      BY <2>2, PhoneNumbers DEF ServerTypeOK, ServerMoves, Item
    <3> QED BY <2>3, <3>1, <3>2 DEF Feed, Honest, SameRow
  <2>5. AnswerHonest(d)' /\ ListingHonest(d)' /\ PageHonest(d)'
    BY <2>3 DEF AnswerHonest, ListingHonest, PageHonest
  <2> QED BY <2>4, <2>5 DEF Feed
<1>2. ASSUME ServerRejects(d) PROVE Feed(d)'
  <2>1. cycle[d] \in Cycle
    BY GoalTyped
  <2>2. Idles(d)
    BY <1>2, <2>1 DEF ServerRejects, PhoneTypeOK, Cycle, Idles, Answers
  <2> QED BY <1>2, <2>2, FeedIdles DEF ServerRejects, SameCanonical
<1>3. ASSUME ApplyMutationSuccess(d) PROVE Feed(d)'
  <2>1. PICK e \in outbox[d] :
          /\ InFlight(d, e)
          /\ rows' = [rows EXCEPT ![d][e.op.paper] =
               Projected(Without(d, e.op.paper, {"failed"}) \ {e}, e.op.paper,
                 [rows[d][e.op.paper] EXCEPT !.canonical = (cycle[d].answer = "saved")])]
    BY <1>3 DEF ApplyMutationSuccess
  <2> DEFINE p == e.op.paper
             row == [rows[d][p] EXCEPT !.canonical = (cycle[d].answer = "saved")]
             new == Projected(Without(d, p, {"failed"}) \ {e}, p, row)
  <2>2. p \in Papers /\ e.op = cycle[d].op
    BY <2>1, EntryTyped DEF InFlight
  <2>3. new.canonical = (cycle[d].answer = "saved")
    <3>1. rows[d][p] \in LocalRow
      BY <2>2, RowsTyped
    <3>2. row \in LocalRow /\ row.canonical = (cycle[d].answer = "saved")
      <4>1. row \in LocalRow
        BY <3>1, CanonicalSet, Zenon
      <4>2. row.canonical = (cycle[d].answer = "saved")
        BY <3>1 DEF LocalRow
      <4> QED BY <4>1, <4>2, Zenon
    <3> HIDE DEF row
    <3> QED BY <3>2, ProjectedTyped
  <2>4. rows'[d] = [rows[d] EXCEPT ![p] = new]
    BY <2>1 DEF PhoneTypeOK
  <2>5. \A q \in Papers : rows'[d][q].canonical =
          IF q = p THEN cycle[d].answer = "saved" ELSE rows[d][q].canonical
    <3> HIDE DEF new
    <3> QED BY <2>2, <2>3, <2>4, RowsTyped
  <2>6. /\ cycle[d].at = "upload" /\ cycle[d].answer \in Answers
        /\ checkpoint' = checkpoint /\ UNCHANGED svars
    BY <1>3 DEF ApplyMutationSuccess
  <2>7. Honest(d)'
    <3> HIDE DEF new, row
    <3>1. SUFFICES ASSUME checkpoint[d].initialized, NEW q \in Papers,
                          items[q].revision <= checkpoint[d].last
                   PROVE  rows'[d][q].canonical <=> items[q].saved
      BY <2>6 DEF Honest, svars
    <3>2. CASE q = p
      BY <2>2, <2>5, <2>6, <3>1, <3>2 DEF Feed, AnswerHonest
    <3>3. CASE q # p
      BY <2>5, <3>1, <3>3 DEF Feed, Honest
    <3> QED BY <3>2, <3>3
  <2>8. Idles(d)
    BY <1>3, AtIdles DEF ApplyMutationSuccess, Goto
  <2>9. AnswerHonest(d)' /\ ListingHonest(d)' /\ PageHonest(d)'
    BY <2>8 DEF AnswerHonest, ListingHonest, PageHonest, Idles
  <2> QED BY <2>6, <2>7, <2>9 DEF Feed, svars
<1>4. ASSUME MarkPermanentFailure(d) PROVE Feed(d)'
  <2>1. PICK e \in outbox[d] :
          rows' = [rows EXCEPT ![d][e.op.paper] =
               Projected(outbox[d] \ {e}, e.op.paper, rows[d][e.op.paper])]
    BY <1>4 DEF MarkPermanentFailure
  <2> DEFINE p == e.op.paper
             new == Projected(outbox[d] \ {e}, p, rows[d][p])
  <2>2. p \in Papers
    BY EntryTyped
  <2>3. new.canonical = rows[d][p].canonical
    BY <2>2, RowsTyped, ProjectedTyped
  <2>4. rows'[d] = [rows[d] EXCEPT ![p] = new]
    BY <2>1 DEF PhoneTypeOK
  <2>5. SameCanonical(d)
    <3> HIDE DEF new
    <3> QED BY <2>2, <2>3, <2>4, RowsTyped DEF SameCanonical
  <2> QED BY <1>4, <2>5, AtIdles, FeedIdles DEF MarkPermanentFailure, Goto
<1>5. ASSUME MarkRetry(d) PROVE Feed(d)'
  BY <1>5, AtIdles, FeedIdles DEF MarkRetry, Goto, SameCanonical
<1> QED BY <1>1, <1>2, <1>3, <1>4, <1>5 DEF Upload

(* A page holds every row on this side of any of its rows.                 *)
LEMMA ListPageReaches ==
  ASSUME ServerTypeOK, NEW fence \in Nat, NEW cursor \in Nat,
         NEW p \in ListPage(fence, cursor), NEW q \in Listable(fence, cursor),
         items[q].since >= items[p].since
  PROVE  q \in ListPage(fence, cursor)
<1> DEFINE S == Listable(fence, cursor)
           A(r) == {s \in S : items[s].since > items[r].since}
<1>1. IsFiniteSet(S) /\ S \subseteq Papers /\ PageSize \in Nat
  BY LibraryConstants, FS_Subset DEF Listable
<1>2. p \in S /\ Cardinality(A(p)) < PageSize
  BY DEF ListPage
<1>3. \A s \in S : items[s].since \in Nat
  BY <1>1 DEF ServerTypeOK, Item
<1>4. A(q) \subseteq A(p)
  BY <1>2, <1>3
<1>5. IsFiniteSet(A(p)) /\ IsFiniteSet(A(q))
  <2>1. A(p) \subseteq S /\ A(q) \subseteq S
    OBVIOUS
  <2> HIDE DEF A, S
  <2> QED BY <1>1, <2>1, FS_Subset
<1>6. Cardinality(A(q)) <= Cardinality(A(p)) /\ Cardinality(A(q)) \in Nat
      /\ Cardinality(A(p)) \in Nat
  <2> HIDE DEF A, S
  <2> QED BY <1>4, <1>5, FS_Subset, FS_CardinalityType
<1>7. Cardinality(A(q)) < PageSize
  <2> HIDE DEF A, S
  <2> QED BY <1>1, <1>2, <1>6
<1> QED BY <1>7 DEF ListPage

LEMMA ChangesPageReaches ==
  ASSUME ServerTypeOK, NEW after \in Nat,
         NEW p \in ChangesPage(after), NEW q \in Unseen(after),
         items[q].revision <= items[p].revision
  PROVE  q \in ChangesPage(after)
<1> DEFINE S == Unseen(after)
           A(r) == {s \in S : items[s].revision < items[r].revision}
<1>1. IsFiniteSet(S) /\ S \subseteq Papers /\ PageSize \in Nat
  BY LibraryConstants, FS_Subset DEF Unseen
<1>2. p \in S /\ Cardinality(A(p)) < PageSize
  BY DEF ChangesPage
<1>3. \A s \in S : items[s].revision \in Nat
  BY <1>1 DEF ServerTypeOK, Item
<1>4. A(q) \subseteq A(p)
  BY <1>2, <1>3
<1>5. IsFiniteSet(A(p)) /\ IsFiniteSet(A(q))
  <2>1. A(p) \subseteq S /\ A(q) \subseteq S
    OBVIOUS
  <2> HIDE DEF A, S
  <2> QED BY <1>1, <2>1, FS_Subset
<1>6. Cardinality(A(q)) <= Cardinality(A(p)) /\ Cardinality(A(q)) \in Nat
      /\ Cardinality(A(p)) \in Nat
  <2> HIDE DEF A, S
  <2> QED BY <1>4, <1>5, FS_Subset, FS_CardinalityType
<1>7. Cardinality(A(q)) < PageSize
  <2> HIDE DEF A, S
  <2> QED BY <1>1, <1>2, <1>6
<1> QED BY <1>7 DEF ChangesPage

(* What a listing holds of the rows that its fence covers.                 *)
Holds(listed, fence, cursor) ==
    \A p \in Papers : items[p].revision <= fence =>
      /\ p \in listed => items[p].saved
      /\ items[p].saved /\ items[p].since >= cursor => p \in listed

LEMMA ListingStep ==
  ASSUME ServerTypeOK, PhoneTypeOK, NEW d \in Phones, UNCHANGED svars,
         NEW fence \in Nat, NEW cursor \in Nat, fence <= revision,
         Holds(cycle[d].listed, fence, cursor), AfterListPage(d, fence, cursor)
  PROVE  ListingHonest(d)' /\ cycle'[d].at \in {"listing", "snapshot"}
<1> DEFINE page == ListPage(fence, cursor)
           listed == cycle[d].listed \cup page
<1>0. page \subseteq Listable(fence, cursor) /\ Listable(fence, cursor) \subseteq Papers
  BY DEF ListPage, Listable
<1>n. \A p \in Papers : items[p].since \in Nat /\ items[p].revision \in Nat
  BY PhoneNumbers
<1>1. CASE page = Listable(fence, cursor)
  <2>1. Holds(listed, fence, 0)
    BY <1>0, <1>n, <1>1 DEF Holds, Listable
  <2>2. cycle'[d] = [At("snapshot", "full") EXCEPT !.fence = fence, !.listed = listed]
    BY <1>1 DEF AfterListPage, PhoneTypeOK
  <2>3. /\ cycle'[d].at = "snapshot" /\ cycle'[d].cursor = 0
        /\ cycle'[d].fence = fence /\ cycle'[d].listed = listed
    BY <2>2 DEF At
  <2> QED BY <2>1, <2>3 DEF Holds, ListingHonest, svars
<1>2. CASE page # Listable(fence, cursor)
  <2>1. PICK p \in page :
          /\ \A q \in page : items[p].since <= items[q].since
          /\ cycle' = [cycle EXCEPT ![d] = [At("listing", "full") EXCEPT
                !.fence = fence, !.cursor = items[p].since, !.listed = listed]]
    BY <1>2 DEF AfterListPage
  <2>2. \A q \in Listable(fence, cursor) : items[q].since >= items[p].since => q \in page
    BY <2>1, ListPageReaches
  <2>3. Holds(listed, fence, items[p].since)
    <3> SUFFICES ASSUME NEW q \in Papers, items[q].revision <= fence
                 PROVE  /\ q \in listed => items[q].saved
                        /\ items[q].saved /\ items[q].since >= items[p].since => q \in listed
      BY DEF Holds
    <3>1. q \in listed => items[q].saved
      BY <1>0 DEF Holds, Listable
    <3>2. CASE items[q].since >= cursor
      BY <3>1, <3>2 DEF Holds
    <3>3. CASE items[q].since < cursor
      BY <2>2, <3>1, <3>3 DEF Listable
    <3> QED BY <1>n, <3>2, <3>3
  <2>4. cycle'[d] = [At("listing", "full") EXCEPT
                !.fence = fence, !.cursor = items[p].since, !.listed = listed]
    BY <2>1 DEF PhoneTypeOK
  <2>5. /\ cycle'[d].at = "listing" /\ cycle'[d].cursor = items[p].since
        /\ cycle'[d].fence = fence /\ cycle'[d].listed = listed
    BY <2>4 DEF At
  <2> QED BY <2>3, <2>5 DEF Holds, ListingHonest, svars
<1> QED BY <1>1, <1>2

LEMMA FetchListFeed ==
  ASSUME ServerTypeOK, ServerInv, PhoneTypeOK, NEW d \in Phones, Feed(d),
         FetchFirstPage(d) \/ FetchNextPage(d)
  PROVE  Feed(d)'
<1>0. \A p \in Papers : /\ items[p].since \in Nat /\ items[p].revision \in Nat
                        /\ items[p].since <= items[p].revision
                        /\ items[p].revision <= revision
  BY PhoneNumbers DEF ServerInv
<1>1. ListingHonest(d)' /\ cycle'[d].at \in {"listing", "snapshot"}
  <2>1. CASE FetchFirstPage(d)
    <3>1. cycle[d].listed = {} /\ revision \in Nat
      BY <2>1, PhoneNumbers DEF FetchFirstPage, Feed, ListingHonest
    <3>2. Holds(cycle[d].listed, revision, revision + 1)
      BY <1>0, <3>1 DEF Holds
    <3>3. revision + 1 \in Nat /\ revision <= revision
      BY <3>1
    <3>4. AfterListPage(d, revision, revision + 1) /\ UNCHANGED svars
      BY <2>1 DEF FetchFirstPage
    <3> QED BY <3>1, <3>2, <3>3, <3>4, ListingStep
  <2>2. CASE FetchNextPage(d)
    <3>1. /\ cycle[d].at = "listing" /\ cycle[d].fence <= revision
          /\ Holds(cycle[d].listed, cycle[d].fence, cycle[d].cursor)
      BY <2>2 DEF FetchNextPage, Feed, ListingHonest, Holds
    <3> QED BY <2>2, <3>1, PhoneNumbers, ListingStep DEF FetchNextPage
  <2> QED BY <2>1, <2>2
<1>2. UNCHANGED svars /\ checkpoint' = checkpoint /\ rows' = rows
  BY DEF FetchFirstPage, FetchNextPage
<1>3. Honest(d)'
  BY <1>2 DEF Feed, Honest, svars
<1>4. AnswerHonest(d)' /\ PageHonest(d)'
  BY <1>1 DEF AnswerHonest, PageHonest
<1> QED BY <1>1, <1>2, <1>3, <1>4 DEF Feed, svars

LEMMA SnapshotFeed ==
  ASSUME ServerTypeOK, PhoneTypeOK, NEW d \in Phones, Feed(d), ApplyFullSnapshot(d)
  PROVE  Feed(d)'
<1>1. /\ cycle[d].at = "snapshot" /\ cycle[d].cursor = 0 /\ cycle[d].fence <= revision
      /\ Holds(cycle[d].listed, cycle[d].fence, 0)
  BY DEF ApplyFullSnapshot, Feed, ListingHonest, Holds
<1>2. /\ UNCHANGED svars
      /\ checkpoint'[d] = [initialized |-> TRUE, last |-> cycle[d].fence]
      /\ cycle'[d] = [At("changes", "full") EXCEPT !.after = cycle[d].fence]
      /\ rows'[d] = [p \in Papers |-> SnapshotRow(d, p)]
  BY DEF ApplyFullSnapshot, PhoneTypeOK
<1>3. cycle'[d].at = "changes" /\ cycle'[d].after = cycle[d].fence
  BY <1>2 DEF At
<1>4. \A p \in Papers : rows'[d][p].canonical <=> p \in cycle[d].listed
  <2> SUFFICES ASSUME NEW p \in Papers
               PROVE  rows'[d][p].canonical <=> p \in cycle[d].listed
    OBVIOUS
  <2> DEFINE there == p \in cycle[d].listed
             shown == IF Active(d, p) # {} THEN rows[d][p].shown ELSE there
  <2>1. rows'[d][p] = [canonical |-> there, shown |-> shown]
    BY <1>2 DEF SnapshotRow
  <2> HIDE DEF there, shown
  <2>2. rows'[d][p].canonical = there
    BY <2>1
  <2> QED BY <2>2 DEF there
<1>5. Honest(d)'
  <2> SUFFICES ASSUME NEW p \in Papers, items[p].revision <= cycle[d].fence
               PROVE  rows'[d][p].canonical <=> items[p].saved
    BY <1>2 DEF Honest, svars
  <2>1. items[p].since >= 0
    BY PhoneNumbers
  <2> QED BY <1>1, <1>4, <2>1 DEF Holds
<1>6. AnswerHonest(d)' /\ ListingHonest(d)' /\ PageHonest(d)'
  BY <1>2, <1>3 DEF AnswerHonest, ListingHonest, PageHonest
<1> QED BY <1>1, <1>2, <1>5, <1>6 DEF Feed, svars

LEMMA FetchChangesFeed ==
  ASSUME ServerTypeOK, ServerInv, PhoneTypeOK, NEW d \in Phones, Feed(d), FetchChanges(d)
  PROVE  Feed(d)'
<1> DEFINE after == cycle[d].after
           page == [p \in Papers |->
                      IF p \in ChangesPage(after) THEN Standing(p) ELSE "none"]
           more == ChangesPage(after) # Unseen(after)
<1>0. /\ UNCHANGED svars /\ checkpoint' = checkpoint /\ rows' = rows
      /\ cycle[d].at = "changes" /\ floor <= after /\ after <= revision
      /\ checkpoint[d].initialized /\ after = checkpoint[d].last
      /\ after \in Nat /\ revision \in Nat
  <2>1. after \in Nat /\ revision \in Nat /\ floor \in Nat
    BY PhoneNumbers DEF ServerTypeOK
  <2> QED BY <2>1 DEF FetchChanges, Feed, PageHonest, ResetRequired
<1>1. PICK next \in 0..revision :
        /\ NextAfter(after, next)
        /\ cycle' = [cycle EXCEPT ![d] = [At("page", cycle[d].goal) EXCEPT
             !.after = after, !.next = next, !.more = more, !.page = page]]
  BY DEF FetchChanges
<1>2. /\ cycle'[d].at = "page" /\ cycle'[d].after = after /\ cycle'[d].next = next
      /\ cycle'[d].page = page
  <2> HIDE DEF page, more
  <2> QED BY <1>1 DEF PhoneTypeOK, At
<1>n. \A p \in Papers : items[p].revision \in Nat /\ items[p].revision <= revision
  BY PhoneNumbers DEF ServerInv
<1>p. ChangesPage(after) \subseteq Unseen(after) /\ Unseen(after) \subseteq Papers
  BY DEF ChangesPage, Unseen
<1>3. ASSUME NEW p \in Papers, items[p].revision > after, items[p].revision <= next
      PROVE  p \in ChangesPage(after)
  <2>1. p \in Unseen(after)
    <3>1. items[p].stored
      <4>1. ~items[p].stored => items[p].revision <= floor
        BY DEF ServerInv
      <4> QED BY <1>0, <1>n, <1>3, <4>1 DEF ServerTypeOK
    <3> QED BY <1>3, <3>1 DEF Unseen
  <2>2. CASE ChangesPage(after) = Unseen(after)
    BY <2>1, <2>2
  <2>3. CASE ChangesPage(after) # Unseen(after)
    <3>1. PICK q \in ChangesPage(after) : next = items[q].revision
      BY <1>1, <2>3 DEF NextAfter
    <3> QED BY <1>0, <1>3, <2>1, <3>1, ChangesPageReaches
  <2> QED BY <2>2, <2>3
<1>4. after <= next
  <2>1. CASE ChangesPage(after) = Unseen(after)
    BY <1>0, <1>1, <2>1 DEF NextAfter
  <2>2. CASE ChangesPage(after) # Unseen(after)
    BY <1>0, <1>1, <1>n, <1>p, <2>2 DEF NextAfter, Unseen
  <2> QED BY <2>1, <2>2
<1>5. ASSUME NEW p \in Papers
      PROVE  /\ page[p] # "none" => items[p].revision > after
             /\ items[p].revision > after /\ items[p].revision <= next =>
                  /\ page[p] # "none"
                  /\ (page[p] = "saved") <=> items[p].saved
  <2>1. CASE p \in ChangesPage(after)
    <3>1. page[p] = Standing(p)
      BY <2>1
    <3> QED BY <1>p, <2>1, <3>1 DEF Standing, Unseen
  <2>2. CASE p \notin ChangesPage(after)
    <3>1. page[p] = "none"
      BY <2>2
    <3> QED BY <1>3, <2>2, <3>1
  <2> QED BY <2>1, <2>2
<1>6. PageHonest(d)'
  <2> HIDE DEF page, more
  <2>1. next <= revision
    BY <1>0, <1>1
  <2> QED BY <1>0, <1>2, <1>4, <1>5, <2>1 DEF PageHonest, svars
<1>7. AnswerHonest(d)' /\ ListingHonest(d)'
  BY <1>2 DEF AnswerHonest, ListingHonest
<1>8. Honest(d)'
  BY <1>0 DEF Feed, Honest, svars
<1> QED BY <1>0, <1>6, <1>7, <1>8 DEF Feed, svars

LEMMA ApplyChangesFeed ==
  ASSUME ServerTypeOK, PhoneTypeOK, NEW d \in Phones, Feed(d), ApplyChanges(d)
  PROVE  Feed(d)'
<1>1. /\ cycle[d].at = "page" /\ checkpoint[d].initialized
      /\ cycle[d].after = checkpoint[d].last
      /\ cycle[d].after <= cycle[d].next /\ cycle[d].next <= revision
      /\ \A p \in Papers :
              /\ cycle[d].page[p] # "none" => items[p].revision > cycle[d].after
              /\ items[p].revision > cycle[d].after /\ items[p].revision <= cycle[d].next =>
                   /\ cycle[d].page[p] # "none"
                   /\ (cycle[d].page[p] = "saved") <=> items[p].saved
  BY DEF ApplyChanges, Feed, PageHonest
<1>2. /\ UNCHANGED svars
      /\ checkpoint'[d] = [initialized |-> TRUE, last |-> cycle[d].next]
      /\ rows'[d] = [p \in Papers |-> ChangedRow(d, p)]
  BY DEF ApplyChanges, PhoneTypeOK
<1>3. \/ cycle'[d] = At("idle", "drain")
      \/ cycle'[d] = [At("changes", cycle[d].goal) EXCEPT !.after = cycle[d].next]
  BY DEF ApplyChanges, PhoneTypeOK, Rest
<1>4. \/ cycle'[d].at = "idle"
      \/ cycle'[d].at = "changes" /\ cycle'[d].after = cycle[d].next
  BY <1>3 DEF At
<1>5. Honest(d)'
  <2> SUFFICES ASSUME NEW p \in Papers, items[p].revision <= cycle[d].next
               PROVE  rows'[d][p].canonical <=> items[p].saved
    BY <1>2 DEF Honest, svars
  <2>1. items[p].revision \in Nat /\ cycle[d].after \in Nat /\ rows[d][p].canonical \in BOOLEAN
    BY PhoneNumbers, RowsTyped
  <2>2. CASE items[p].revision > cycle[d].after
    <3>1. cycle[d].page[p] # "none" /\ ((cycle[d].page[p] = "saved") <=> items[p].saved)
      BY <1>1, <2>2
    <3>2. rows'[d][p].canonical <=> cycle[d].page[p] = "saved"
      <4> DEFINE saved == cycle[d].page[p] = "saved"
                 shown == IF Active(d, p) # {} THEN rows[d][p].shown ELSE saved
      <4>1. rows'[d][p] = [canonical |-> saved, shown |-> shown]
        <5>1. rows'[d][p] = ChangedRow(d, p)
          BY <1>2
        <5> QED BY <3>1, <5>1 DEF ChangedRow
      <4>2. rows'[d][p].canonical = saved
        <5> HIDE DEF saved, shown
        <5> QED BY <4>1
      <4> QED BY <4>2
    <3> QED BY <3>1, <3>2
  <2>3. CASE items[p].revision <= cycle[d].after
    <3>1. cycle[d].page[p] = "none"
      BY <1>1, <2>1, <2>3
    <3>2. rows'[d][p] = rows[d][p]
      BY <1>2, <3>1 DEF ChangedRow
    <3> QED BY <1>1, <2>3, <3>2 DEF Feed, Honest
  <2> QED BY <2>1, <2>2, <2>3
<1>6. AnswerHonest(d)' /\ ListingHonest(d)' /\ PageHonest(d)'
  BY <1>2, <1>4 DEF AnswerHonest, ListingHonest, PageHonest
<1> QED BY <1>1, <1>2, <1>5, <1>6 DEF Feed, svars

LEMMA RefreshFeed ==
  ASSUME ServerTypeOK, ServerInv, PhoneTypeOK, NEW d \in Phones, Feed(d), Refresh(d)
  PROVE  Feed(d)'
<1>1. ASSUME ObeyReset(d) PROVE Feed(d)'
  <2>1. Idles(d)
    BY <1>1, AtIdles DEF ObeyReset, Rest
  <2>2. CASE checkpoint' = checkpoint
    BY <1>1, <2>1, <2>2, FeedIdles DEF ObeyReset, SameCanonical
  <2>3. CASE checkpoint' = [checkpoint EXCEPT ![d].initialized = FALSE]
    <3>1. checkpoint[d] \in Checkpoint
      BY DEF PhoneTypeOK
    <3>2. ~checkpoint'[d].initialized /\ checkpoint'[d].last = checkpoint[d].last
      BY <2>3, <3>1 DEF PhoneTypeOK, Checkpoint
    <3>3. Honest(d)' /\ AnswerHonest(d)' /\ ListingHonest(d)' /\ PageHonest(d)'
      BY <2>1, <3>2 DEF Honest, AnswerHonest, ListingHonest, PageHonest, Idles
    <3> QED BY <1>1, <3>2, <3>3 DEF ObeyReset, Feed, svars
  <2> QED BY <1>1, <2>2, <2>3 DEF ObeyReset
<1>2. ASSUME RefreshFails(d) PROVE Feed(d)'
  BY <1>2, AtIdles, FeedIdles DEF RefreshFails, Rest, SameCanonical
<1> QED BY <1>1, <1>2, FetchListFeed, SnapshotFeed, FetchChangesFeed, ApplyChangesFeed
        DEF Refresh

FeedInv == TypeInv /\ \A d \in Phones : Feed(d)

LEMMA FeedInvariant == Spec => []FeedInv
<1>1. Init => FeedInv
  <2> SUFFICES ASSUME Init PROVE FeedInv
    OBVIOUS
  <2>1. \A d \in Phones : /\ checkpoint[d] = [initialized |-> FALSE, last |-> 0]
                          /\ cycle[d].at = "stopped" /\ revision = 0
    BY AtTyped DEF Init, SInit
  <2>2. \A d \in Phones : Feed(d)
    BY <2>1 DEF Feed, Honest, AnswerHonest, ListingHonest, PageHonest
  <2> QED BY <2>2, InitTypes DEF FeedInv
<1>2. FeedInv /\ [Next]_vars => FeedInv'
  <2> SUFFICES ASSUME FeedInv, [Next]_vars PROVE FeedInv'
    OBVIOUS
  <2> USE DEF FeedInv, TypeInv
  <2>1. TypeInv' /\ ServerMoves
    BY NextTypes, ServerStep
  <2> SUFFICES ASSUME NEW d \in Phones PROVE Feed(d)'
    BY <2>1
  <2>2. PhoneRests(d) => Feed(d)'
    BY <2>1, FeedRests
  <2>3. ASSUME NEW c \in Phones, Local(c) \/ Controller(c) \/ Upload(c) \/ Refresh(c)
        PROVE  Feed(d)'
    <3>1. CASE c = d
      BY <2>2, <2>3, <3>1, LocalRests, ControllerFeed, UploadFeed, RefreshFeed
    <3>2. CASE c # d
      BY <2>2, <2>3, <3>2, OthersRest DEF PhoneRests, SameCanonical
    <3> QED BY <3>1, <3>2
  <2>4. ASSUME NEW op \in Operation, StrayArrives(op) \/ PeerMutates(op) PROVE Feed(d)'
    BY <2>2, <2>4 DEF StrayArrives, PeerMutates, PhoneRests, SameCanonical
  <2>5. CASE Retention \/ UNCHANGED vars
    BY <2>2, <2>5 DEF Retention, vars, PhoneRests, SameCanonical
  <2> QED BY <2>3, <2>4, <2>5 DEF Next
<1> QED BY <1>1, <1>2, PTL DEF Spec

(* A phone's checkpoint never covers a change of the server that its       *)
(* database does not hold: for any page size, any number of devices and    *)
(* operations, with tombstones purged, uploads late, answers lost and      *)
(* cycles stopped at any step.                                             *)
THEOREM CheckpointsAreHonest == Spec => []CheckpointHonest
<1>1. FeedInv => CheckpointHonest
  BY DEF FeedInv, Feed, CheckpointHonest
<1> QED BY <1>1, FeedInvariant, PTL

-----------------------------------------------------------------------------
(* ShownIsExplained, from the discipline of the outbox: of one paper there *)
(* is at most one operation that may have been sent and at most one that   *)
(* has not, and the former is the older.                                   *)

Sent == {"recovery", "in_flight"}

Disciplined(d) ==
    /\ \A e \in outbox[d] : e.op.device = d /\ e.op.id <= issued[d]
    /\ \A e, f \in outbox[d] :
         /\ e.op.id = f.op.id => e = f
         /\ e.op.paper = f.op.paper =>
              /\ e.state = "queued" /\ f.state = "queued" => e = f
              /\ e.state \in Sent /\ f.state \in Sent => e = f
              /\ e.state \in Sent /\ f.state = "queued" => e.op.id < f.op.id

Explained(d, p) ==
    /\ Active(d, p) = {} => rows[d][p].shown = rows[d][p].canonical
    /\ \A e \in Active(d, p) :
         (\A f \in Active(d, p) : f.op.id <= e.op.id) => rows[d][p].shown = e.op.save

Outbox(d) == Disciplined(d) /\ \A p \in Papers : Explained(d, p)

(* The active operations of every paper stay what they were.               *)
SameActive(d) ==
    \A p \in Papers :
      /\ \A e \in Active(d, p) : \E f \in Active(d, p)' : f.op = e.op
      /\ \A f \in Active(d, p)' : \E e \in Active(d, p) : f.op = e.op

LEMMA ExplainedKept ==
  ASSUME NEW d \in Phones, NEW p \in Papers, Explained(d, p), SameActive(d),
         rows'[d][p] = rows[d][p]
  PROVE  Explained(d, p)'
<1>1. Active(d, p)' = {} => Active(d, p) = {}
  BY DEF SameActive
<1>2. ASSUME NEW f \in Active(d, p)', \A g \in Active(d, p)' : g.op.id <= f.op.id
      PROVE  rows'[d][p].shown = f.op.save
  <2>1. PICK e \in Active(d, p) : f.op = e.op
    BY DEF SameActive
  <2>2. \A g \in Active(d, p) : g.op.id <= e.op.id
    BY <1>2, <2>1 DEF SameActive
  <2> QED BY <2>1, <2>2 DEF Explained
<1> QED BY <1>1, <1>2 DEF Explained

(* An entry that changes its state.                                        *)
LEMMA Restated ==
  ASSUME PhoneTypeOK, NEW d \in Phones, Disciplined(d), issued' = issued,
         NEW e \in outbox[d], NEW new \in Entry, new.op = e.op,
         outbox' = Replace(d, e, new),
         \/ new.state = e.state
         \/ /\ new.state \in Sent
            /\ \A f \in outbox[d] \ {e} : f.op.paper = e.op.paper =>
                 f.state \notin Sent /\ (f.state = "queued" => e.op.id < f.op.id)
         \/ /\ new.state = "queued"
            /\ \A f \in outbox[d] \ {e} : f.op.paper = e.op.paper =>
                 f.state # "queued" /\ (f.state \in Sent => f.op.id < e.op.id)
         \/ new.state = "failed"
  PROVE  Disciplined(d)'
<1>1. outbox'[d] = (outbox[d] \ {e}) \cup {new}
  BY DEF Replace, PhoneTypeOK
<1>2. \A f \in outbox[d] \ {e} : f.op.id # e.op.id
  BY DEF Disciplined
<1>3. \A f \in outbox'[d] : f.op.device = d /\ f.op.id <= issued'[d]
  BY <1>1 DEF Disciplined
<1>4. ASSUME NEW f \in outbox'[d], NEW g \in outbox'[d]
      PROVE  /\ f.op.id = g.op.id => f = g
             /\ f.op.paper = g.op.paper =>
                  /\ f.state = "queued" /\ g.state = "queued" => f = g
                  /\ f.state \in Sent /\ g.state \in Sent => f = g
                  /\ f.state \in Sent /\ g.state = "queued" => f.op.id < g.op.id
  <2>1. CASE f \in outbox[d] \ {e} /\ g \in outbox[d] \ {e}
    BY <2>1 DEF Disciplined
  <2>2. CASE f = new /\ g = new
    BY <2>2 DEF Sent
  <2>3. CASE f = new /\ g \in outbox[d] \ {e}
    BY <1>2, <2>3 DEF Disciplined, Sent
  <2>4. CASE f \in outbox[d] \ {e} /\ g = new
    BY <1>2, <2>4 DEF Disciplined, Sent
  <2> QED BY <1>1, <2>1, <2>2, <2>3, <2>4
<1> QED BY <1>3, <1>4 DEF Disciplined

LEMMA RestatedActive ==
  ASSUME PhoneTypeOK, NEW d \in Phones, NEW e \in outbox[d], NEW new \in Entry,
         new.op = e.op, outbox' = Replace(d, e, new),
         e.state \in ActiveStates, new.state \in ActiveStates
  PROVE  SameActive(d)
<1>1. outbox'[d] = (outbox[d] \ {e}) \cup {new}
  BY DEF Replace, PhoneTypeOK
<1>2. new \in outbox'[d]
  BY <1>1
<1> SUFFICES ASSUME NEW p \in Papers
             PROVE  /\ \A f \in Active(d, p) : \E g \in Active(d, p)' : g.op = f.op
                    /\ \A g \in Active(d, p)' : \E f \in Active(d, p) : g.op = f.op
  BY DEF SameActive
<1>3. ASSUME NEW f \in Active(d, p) PROVE \E g \in Active(d, p)' : g.op = f.op
  <2>1. CASE f = e
    BY <1>2, <2>1 DEF Active
  <2>2. CASE f # e
    BY <1>1, <2>2 DEF Active
  <2> QED BY <2>1, <2>2
<1>4. ASSUME NEW g \in Active(d, p)' PROVE \E f \in Active(d, p) : g.op = f.op
  <2>1. CASE g = new
    BY <2>1 DEF Active
  <2>2. CASE g # new
    BY <1>1, <2>2 DEF Active
  <2> QED BY <2>1, <2>2
<1> QED BY <1>3, <1>4

LEMMA EnqueueOutbox ==
  ASSUME PhoneTypeOK, NEW d \in Phones, Outbox(d), NEW p \in Papers,
         NEW save \in BOOLEAN, EnqueueMutation(d, p, save)
  PROVE  Outbox(d)'
<1> DEFINE new == [op |-> [id |-> issued[d] + 1, device |-> d, paper |-> p, save |-> save],
                   state |-> "queued", due |-> TRUE]
           rest == Without(d, p, Superseded)
<1>1. issued[d] \in Nat /\ issued'[d] = issued[d] + 1
  BY PhonesAreDevices, IssuesTyped DEF EnqueueMutation
<1>2. outbox'[d] = rest \cup {new}
  BY <1>1 DEF EnqueueMutation, PhoneTypeOK
<1>3. /\ new.op.id = issued[d] + 1 /\ new.op.device = d /\ new.op.paper = p
      /\ new.op.save = save /\ new.state = "queued"
  OBVIOUS
<1>4. \A e \in rest :
        /\ e \in outbox[d] /\ e.op.id \in Nat /\ e.op.id <= issued[d]
        /\ e.op.device = d
        /\ e.state \in ActiveStates \cup {"failed"}
        /\ e.op.paper = p => e.state \in Sent
  BY EntryTyped DEF Without, Outbox, Disciplined, Superseded, Sent, ActiveStates
<1> HIDE DEF new, rest
<1>5. Disciplined(d)'
  <2>1. \A f \in outbox'[d] : f.op.device = d /\ f.op.id <= issued'[d]
    BY <1>1, <1>2, <1>3, <1>4
  <2>2. ASSUME NEW f \in outbox'[d], NEW g \in outbox'[d]
        PROVE  /\ f.op.id = g.op.id => f = g
               /\ f.op.paper = g.op.paper =>
                    /\ f.state = "queued" /\ g.state = "queued" => f = g
                    /\ f.state \in Sent /\ g.state \in Sent => f = g
                    /\ f.state \in Sent /\ g.state = "queued" => f.op.id < g.op.id
    <3>1. CASE f \in rest /\ g \in rest
      BY <1>4, <3>1 DEF Outbox, Disciplined
    <3>2. CASE f = new /\ g = new
      BY <1>3, <3>2 DEF Sent
    <3>3. CASE f = new /\ g \in rest
      BY <1>1, <1>3, <1>4, <3>3 DEF Sent
    <3>4. CASE f \in rest /\ g = new
      BY <1>1, <1>3, <1>4, <3>4 DEF Sent
    <3> QED BY <1>2, <3>1, <3>2, <3>3, <3>4
  <2> QED BY <2>1, <2>2 DEF Disciplined
<1>6. rows'[d] = [rows[d] EXCEPT ![p] = [rows[d][p] EXCEPT !.shown = save]]
  BY DEF EnqueueMutation, PhoneTypeOK
<1>7. ASSUME NEW q \in Papers PROVE Explained(d, q)'
  <2>1. CASE q = p
    <3>1. rows'[d][p].shown = save
      BY <1>6, RowsTyped DEF LocalRow
    <3>2. new \in Active(d, p)'
      BY <1>2, <1>3 DEF Active, ActiveStates
    <3>3. ASSUME NEW f \in Active(d, p)', \A g \in Active(d, p)' : g.op.id <= f.op.id
          PROVE  f = new
      BY <1>1, <1>2, <1>3, <1>4, <3>2, <3>3 DEF Active
    <3> QED BY <1>3, <2>1, <3>1, <3>2, <3>3 DEF Explained
  <2>2. CASE q # p
    <3>1. Active(d, q)' = Active(d, q)
      BY <1>2, <1>3, <2>2 DEF Active, rest, Without
    <3>2. rows'[d][q] = rows[d][q]
      BY <1>6, <2>2, RowsTyped
    <3> QED BY <3>1, <3>2 DEF Outbox, Explained
  <2> QED BY <2>1, <2>2
<1> QED BY <1>5, <1>7 DEF Outbox

LEMMA LocalOutbox ==
  ASSUME PhoneTypeOK, NEW d \in Phones, Outbox(d), Local(d)
  PROVE  Outbox(d)'
<1>1. ASSUME NEW p \in Papers, DismissFailure(d, p) PROVE Outbox(d)'
  <2>1. outbox'[d] = Without(d, p, {"failed"}) /\ rows' = rows /\ issued' = issued
    BY <1>1 DEF DismissFailure, PhoneTypeOK
  <2>2. \A q \in Papers : Active(d, q)' = Active(d, q)
    BY <2>1 DEF Active, Without, ActiveStates
  <2>3. Disciplined(d)'
    BY <2>1 DEF Outbox, Disciplined, Without
  <2> QED BY <2>1, <2>2, <2>3 DEF Outbox, Explained
<1>2. ASSUME BackoffElapses(d) PROVE Outbox(d)'
  <2>1. PICK e \in outbox[d] :
          /\ e.state \in {"queued", "recovery"}
          /\ outbox' = Replace(d, e, [e EXCEPT !.due = TRUE])
          /\ rows' = rows /\ issued' = issued
    BY <1>2 DEF BackoffElapses
  <2> DEFINE new == [e EXCEPT !.due = TRUE]
  <2>2. new \in Entry /\ new.op = e.op /\ new.state = e.state
    BY EntryTyped DEF Entry
  <2>3. outbox' = Replace(d, e, new)
    BY <2>1
  <2> HIDE DEF new
  <2>4. Disciplined(d)'
    BY <2>1, <2>2, <2>3, Restated DEF Outbox
  <2>5. SameActive(d)
    BY <2>1, <2>2, <2>3, RestatedActive DEF ActiveStates
  <2> QED BY <2>1, <2>4, <2>5, ExplainedKept DEF Outbox
<1> QED BY <1>1, <1>2, EnqueueOutbox DEF Local

LEMMA StartOutbox ==
  ASSUME PhoneTypeOK, NEW d \in Phones, Outbox(d), Start(d)
  PROVE  Outbox(d)'
<1> DEFINE r(e) == IF e.state = "in_flight"
                     THEN [e EXCEPT !.state = "recovery", !.due = TRUE] ELSE e
<1>1. outbox'[d] = {r(e) : e \in outbox[d]} /\ rows' = rows /\ issued' = issued
  BY DEF Start, Recovered, PhoneTypeOK
<1>2. ASSUME NEW e \in outbox[d]
      PROVE  /\ r(e).op = e.op
             /\ (r(e).state = "queued") <=> (e.state = "queued")
             /\ r(e).state \in Sent <=> e.state \in Sent
             /\ r(e).state \in ActiveStates <=> e.state \in ActiveStates
  BY EntryTyped DEF Entry, Sent, ActiveStates
<1> HIDE DEF r
<1>3. Disciplined(d)'
  <2>1. \A f \in outbox'[d] : f.op.device = d /\ f.op.id <= issued'[d]
    BY <1>1, <1>2 DEF Outbox, Disciplined
  <2>2. ASSUME NEW f \in outbox'[d], NEW g \in outbox'[d]
        PROVE  /\ f.op.id = g.op.id => f = g
               /\ f.op.paper = g.op.paper =>
                    /\ f.state = "queued" /\ g.state = "queued" => f = g
                    /\ f.state \in Sent /\ g.state \in Sent => f = g
                    /\ f.state \in Sent /\ g.state = "queued" => f.op.id < g.op.id
    <3>1. PICK e \in outbox[d], h \in outbox[d] : f = r(e) /\ g = r(h)
      BY <1>1
    <3> QED BY <1>2, <3>1 DEF Outbox, Disciplined
  <2> QED BY <2>1, <2>2 DEF Disciplined
<1>4. SameActive(d)
  BY <1>1, <1>2 DEF SameActive, Active
<1> QED BY <1>1, <1>3, <1>4, ExplainedKept DEF Outbox

LEMMA ControllerOutbox ==
  ASSUME PhoneTypeOK, NEW d \in Phones, Outbox(d), Controller(d)
  PROVE  Outbox(d)'
<1>1. ASSUME ClaimNextDue(d) PROVE Outbox(d)'
  <2>1. PICK e \in Claimable(d) :
          /\ outbox' = Replace(d, e, [e EXCEPT !.state = "in_flight"])
          /\ rows' = rows /\ issued' = issued
    BY <1>1 DEF ClaimNextDue
  <2> DEFINE new == [e EXCEPT !.state = "in_flight"]
  <2>2. /\ e \in outbox[d]
        /\ \/ e.state = "recovery"
           \/ e.state = "queued" /\ ~Blocked(d, e.op.paper)
    BY DEF Claimable, DueRecovery, DueQueued
  <2>3. new \in Entry /\ new.op = e.op /\ new.state = "in_flight"
    BY <2>2, EntryTyped DEF Entry, ActiveStates
  <2>4. outbox' = Replace(d, e, new)
    BY <2>1
  <2> HIDE DEF new
  <2>5. \A f \in outbox[d] \ {e} : f.op.paper = e.op.paper =>
          f.state \notin Sent /\ (f.state = "queued" => e.op.id < f.op.id)
    BY <2>2 DEF Outbox, Disciplined, Sent, Blocked
  <2>6. Disciplined(d)'
    BY <2>1, <2>2, <2>3, <2>4, <2>5, Restated DEF Outbox, Sent
  <2>7. SameActive(d)
    BY <2>2, <2>3, <2>4, RestatedActive DEF ActiveStates
  <2> QED BY <2>1, <2>6, <2>7, ExplainedKept DEF Outbox
<1>2. ASSUME outbox' = outbox, rows' = rows, issued' = issued PROVE Outbox(d)'
  BY <1>2 DEF Outbox, Disciplined, Explained, Active
<1> QED BY <1>1, <1>2, StartOutbox DEF Controller, Stop, Trigger, Drained

(* An operation that is settled leaves its paper to its successor.         *)
LEMMA SettledOutbox ==
  ASSUME PhoneTypeOK, NEW d \in Phones, Outbox(d), issued' = issued,
         NEW e \in outbox[d], e.state \in Sent,
         NEW rest \in SUBSET Entry, NEW row \in LocalRow,
         outbox'[d] \subseteq Entry, Disciplined(d)',
         \A p \in Papers : Active(d, p)' =
           {f \in Active(d, p) : f # e},
         \A p \in Papers : {f \in rest : f.op.paper = p /\ f.state \in ActiveStates} =
           {f \in Active(d, p) : f # e},
         row.shown = rows[d][e.op.paper].shown,
         rows'[d] = [rows[d] EXCEPT ![e.op.paper] = Projected(rest, e.op.paper, row)]
  PROVE  Outbox(d)'
<1> DEFINE paper == e.op.paper
           new == Projected(rest, paper, row)
<1>0. paper \in Papers
  BY EntryTyped
<1>1. ASSUME NEW p \in Papers PROVE Explained(d, p)'
  <2>1. CASE p # paper
    <3>1. Active(d, p)' = Active(d, p)
      BY <2>1 DEF Active
    <3>2. rows'[d][p] = rows[d][p]
      BY <1>0, <2>1, RowsTyped
    <3> QED BY <3>1, <3>2 DEF Outbox, Explained
  <2>2. CASE p = paper
    <3>1. rows'[d][p] = new
      BY <1>0, <2>2, RowsTyped
    <3>2. CASE Active(d, p)' = {}
      <4>1. new = [row EXCEPT !.shown = row.canonical]
        BY <2>2, <3>2 DEF Projected
      <4>2. new.shown = new.canonical
        BY <4>1 DEF LocalRow
      <4> QED BY <3>1, <3>2, <4>2 DEF Explained
    <3>3. CASE Active(d, p)' # {}
      <4>1. new = row
        <5>1. \E f \in rest : f.op.paper = paper /\ f.state \in ActiveStates
          BY <1>0, <2>2, <3>3
        <5> QED BY <5>1 DEF Projected
      <4>2. rows'[d][p].shown = rows[d][p].shown
        BY <2>2, <3>1, <4>1
      <4>3. \A f \in Active(d, p) : f # e => e.op.id < f.op.id
        BY <2>2 DEF Active, Outbox, Disciplined, Sent, ActiveStates
      <4>4. ASSUME NEW f \in Active(d, p)', \A g \in Active(d, p)' : g.op.id <= f.op.id
            PROVE  rows[d][p].shown = f.op.save
        <5>1. f \in Active(d, p) /\ f # e /\ f \in outbox[d]
          BY DEF Active
        <5>2. e.op.id \in Nat /\ f.op.id \in Nat
          BY <5>1, EntryTyped
        <5>3. \A g \in Active(d, p) : g.op.id <= f.op.id
          BY <4>3, <4>4, <5>1, <5>2
        <5> QED BY <5>1, <5>3 DEF Outbox, Explained
      <4> QED BY <3>3, <4>2, <4>4 DEF Explained
    <3> QED BY <3>2, <3>3
  <2> QED BY <2>1, <2>2
<1> QED BY <1>1 DEF Outbox

LEMMA UploadOutbox ==
  ASSUME PhoneTypeOK, NEW d \in Phones, Outbox(d), Upload(d), PhoneTypeOK'
  PROVE  Outbox(d)'
<1>1. ASSUME ApplyMutationSuccess(d) PROVE Outbox(d)'
  <2>1. PICK e \in outbox[d] :
          LET p == e.op.paper
              rest == Without(d, p, {"failed"}) \ {e}
          IN  /\ InFlight(d, e)
              /\ outbox' = [outbox EXCEPT ![d] = rest]
              /\ rows' = [rows EXCEPT ![d][p] = Projected(rest, p,
                   [rows[d][p] EXCEPT !.canonical = (cycle[d].answer = "saved")])]
    BY <1>1 DEF ApplyMutationSuccess
  <2> DEFINE p == e.op.paper
             rest == Without(d, p, {"failed"}) \ {e}
             row == [rows[d][p] EXCEPT !.canonical = (cycle[d].answer = "saved")]
  <2>2. /\ outbox'[d] = rest /\ rest \subseteq outbox[d] /\ rest \in SUBSET Entry
        /\ issued' = issued /\ e.state \in Sent
    BY <1>1, <2>1, WithoutTyped DEF ApplyMutationSuccess, PhoneTypeOK, InFlight, Sent
  <2>3. row \in LocalRow /\ row.shown = rows[d][p].shown
    <3>1. rows[d][p] \in LocalRow
      BY EntryTyped, RowsTyped
    <3>2. row \in LocalRow
      BY <3>1, CanonicalSet, Zenon
    <3>3. row.shown = rows[d][p].shown
      BY <3>1 DEF LocalRow
    <3> QED BY <3>2, <3>3
  <2>4. rows'[d] = [rows[d] EXCEPT ![p] = Projected(rest, p, row)]
    <3> HIDE DEF rest
    <3> QED BY <2>1 DEF PhoneTypeOK, rest
  <2>5. Disciplined(d)'
    BY <2>2 DEF Outbox, Disciplined
  <2>6. \A q \in Papers : {f \in rest : f.op.paper = q /\ f.state \in ActiveStates} =
          {f \in Active(d, q) : f # e}
    BY DEF Active, Without, ActiveStates
  <2>7. \A q \in Papers : Active(d, q)' = {f \in Active(d, q) : f # e}
    BY <2>2, <2>6 DEF Active
  <2>8. outbox'[d] \subseteq Entry
    BY <2>2
  <2> HIDE DEF rest, row
  <2> QED BY <2>2, <2>3, <2>4, <2>5, <2>6, <2>7, <2>8, SettledOutbox
<1>2. ASSUME MarkPermanentFailure(d) PROVE Outbox(d)'
  <2>1. PICK e \in outbox[d] :
          /\ InFlight(d, e)
          /\ outbox' = Replace(d, e, [e EXCEPT !.state = "failed", !.due = FALSE])
          /\ rows' = [rows EXCEPT ![d][e.op.paper] =
               Projected(outbox[d] \ {e}, e.op.paper, rows[d][e.op.paper])]
          /\ issued' = issued
    BY <1>2 DEF MarkPermanentFailure
  <2> DEFINE p == e.op.paper
             rest == outbox[d] \ {e}
             new == [e EXCEPT !.state = "failed", !.due = FALSE]
  <2>2. new \in Entry /\ new.op = e.op /\ new.state = "failed"
    BY EntryTyped DEF Entry
  <2>3. outbox' = Replace(d, e, new) /\ outbox'[d] = rest \cup {new}
    BY <2>1 DEF Replace, PhoneTypeOK
  <2>4. rest \in SUBSET Entry /\ rows[d][p] \in LocalRow /\ e.state \in Sent
    BY <2>1, EntryTyped, RowsTyped DEF InFlight, Sent
  <2> HIDE DEF new
  <2>5. Disciplined(d)'
    BY <2>1, <2>2, <2>3, Restated DEF Outbox
  <2>6. \A q \in Papers : {f \in rest : f.op.paper = q /\ f.state \in ActiveStates} =
          {f \in Active(d, q) : f # e}
    BY DEF Active
  <2>7. \A q \in Papers : Active(d, q)' = {f \in Active(d, q) : f # e}
    BY <2>2, <2>3 DEF Active, ActiveStates
  <2>8. rows'[d] = [rows[d] EXCEPT ![p] = Projected(rest, p, rows[d][p])]
    BY <2>1 DEF PhoneTypeOK
  <2>9. outbox'[d] \subseteq Entry
    BY <2>2, <2>3, <2>4
  <2> HIDE DEF rest
  <2> QED BY <2>1, <2>4, <2>5, <2>6, <2>7, <2>8, <2>9, SettledOutbox
<1>3. ASSUME MarkRetry(d) PROVE Outbox(d)'
  <2>1. PICK e \in outbox[d] :
          /\ InFlight(d, e)
          /\ outbox' = Replace(d, e, [e EXCEPT !.state = RetryState(d, e), !.due = FALSE])
          /\ rows' = rows /\ issued' = issued
    BY <1>3 DEF MarkRetry
  <2> DEFINE new == [e EXCEPT !.state = RetryState(d, e), !.due = FALSE]
  <2>2. new \in Entry /\ new.op = e.op /\ new.state = RetryState(d, e)
    BY EntryTyped DEF Entry, RetryState, ActiveStates
  <2>3. outbox' = Replace(d, e, new)
    BY <2>1
  <2> HIDE DEF new
  <2>4. \/ /\ new.state = "recovery"
           /\ \A f \in outbox[d] \ {e} : f.op.paper = e.op.paper =>
                 f.state \notin Sent /\ (f.state = "queued" => e.op.id < f.op.id)
        \/ /\ new.state = "queued"
           /\ \A f \in outbox[d] \ {e} : f.op.paper = e.op.paper =>
                 f.state # "queued" /\ (f.state \in Sent => f.op.id < e.op.id)
    BY <2>1, <2>2 DEF Outbox, Disciplined, Sent, InFlight, RetryState
  <2>5. Disciplined(d)'
    BY <2>1, <2>2, <2>3, <2>4, Restated DEF Outbox, Sent
  <2>6. SameActive(d)
    BY <2>1, <2>2, <2>3, <2>4, RestatedActive DEF InFlight, ActiveStates
  <2> QED BY <2>1, <2>5, <2>6, ExplainedKept DEF Outbox
<1>4. CASE ServerAnswers(d) \/ ServerRejects(d)
  BY <1>4 DEF ServerAnswers, ServerRejects, Outbox, Disciplined, Explained, Active
<1> QED BY <1>1, <1>2, <1>3, <1>4 DEF Upload

LEMMA RefreshOutbox ==
  ASSUME PhoneTypeOK, NEW d \in Phones, Outbox(d), Refresh(d)
  PROVE  Outbox(d)'
<1>1. outbox' = outbox /\ issued' = issued
  BY DEF Refresh, FetchFirstPage, FetchNextPage, ApplyFullSnapshot, FetchChanges,
     ObeyReset, ApplyChanges, RefreshFails
<1>2. Disciplined(d)' /\ \A p \in Papers : Active(d, p)' = Active(d, p)
  BY <1>1 DEF Outbox, Disciplined, Active
<1>3. ASSUME NEW p \in Papers
      PROVE  \/ rows'[d][p] = rows[d][p]
             \/ /\ Active(d, p) = {} => rows'[d][p].shown = rows'[d][p].canonical
                /\ Active(d, p) # {} => rows'[d][p].shown = rows[d][p].shown
  <2>1. CASE ApplyFullSnapshot(d)
    <3>1. rows'[d][p] = SnapshotRow(d, p)
      BY <2>1 DEF ApplyFullSnapshot, PhoneTypeOK
    <3> QED BY <3>1 DEF SnapshotRow
  <2>2. CASE ApplyChanges(d)
    <3>1. rows'[d][p] = ChangedRow(d, p)
      BY <2>2 DEF ApplyChanges, PhoneTypeOK
    <3> QED BY <3>1 DEF ChangedRow
  <2> QED BY <2>1, <2>2 DEF Refresh, FetchFirstPage, FetchNextPage, FetchChanges,
             ObeyReset, RefreshFails
<1>4. \A p \in Papers : Explained(d, p)'
  BY <1>2, <1>3 DEF Outbox, Explained
<1> QED BY <1>2, <1>4 DEF Outbox

OutboxInv == TypeInv /\ \A d \in Phones : Outbox(d)

LEMMA OutboxInvariant == Spec => []OutboxInv
<1>1. Init => OutboxInv
  <2> SUFFICES ASSUME Init PROVE OutboxInv
    OBVIOUS
  <2>1. \A d \in Phones : Outbox(d)
    BY DEF Init, Outbox, Disciplined, Explained, Active
  <2> QED BY <2>1, InitTypes DEF OutboxInv
<1>2. OutboxInv /\ [Next]_vars => OutboxInv'
  <2> SUFFICES ASSUME OutboxInv, [Next]_vars PROVE OutboxInv'
    OBVIOUS
  <2> USE DEF OutboxInv
  <2>1. TypeInv'
    BY NextTypes
  <2>t. PhoneTypeOK /\ PhoneTypeOK'
    BY <2>1 DEF TypeInv
  <2> SUFFICES ASSUME NEW d \in Phones PROVE Outbox(d)'
    BY <2>1
  <2>2. ASSUME rows'[d] = rows[d], outbox'[d] = outbox[d], issued'[d] = issued[d]
        PROVE  Outbox(d)'
    BY <2>2 DEF Outbox, Disciplined, Explained, Active
  <2>3. ASSUME NEW c \in Phones, Local(c) \/ Controller(c) \/ Upload(c) \/ Refresh(c)
        PROVE  Outbox(d)'
    <3>1. CASE c = d
      BY <2>t, <2>3, <3>1, LocalOutbox, ControllerOutbox, UploadOutbox, RefreshOutbox
    <3>2. CASE c # d
      <4>1. rows'[d] = rows[d] /\ outbox'[d] = outbox[d]
        BY <2>t, <2>3, <3>2, OthersRest
      <4>2. issued'[d] = issued[d]
        <5>1. CASE issued' = issued
          BY <5>1
        <5>2. CASE Issues(c)
          BY <2>t, <3>2, <5>2, PhonesAreDevices, IssuesTyped
        <5> QED BY <2>3, <5>1, <5>2 DEF Local, EnqueueMutation, DismissFailure,
                   BackoffElapses, Controller, Start, Stop, Trigger, ClaimNextDue,
                   Drained, Upload, ServerAnswers, ServerRejects, ApplyMutationSuccess,
                   MarkPermanentFailure, MarkRetry, Refresh, FetchFirstPage,
                   FetchNextPage, ApplyFullSnapshot, FetchChanges, ObeyReset,
                   ApplyChanges, RefreshFails
      <4> QED BY <2>2, <4>1, <4>2
    <3> QED BY <3>1, <3>2
  <2>4. ASSUME NEW op \in Operation, PeerMutates(op) PROVE Outbox(d)'
    <3>1. op.device \in Devices /\ op.device # d /\ d \in Devices
      BY <2>4, OperationParts DEF PeerMutates, Phones
    <3>2. issued'[d] = issued[d]
      BY <2>t, <2>4, <3>1, IssuesTyped DEF PeerMutates
    <3> QED BY <2>2, <2>4, <3>2 DEF PeerMutates
  <2>5. ASSUME NEW op \in Operation, StrayArrives(op) PROVE Outbox(d)'
    BY <2>2, <2>5 DEF StrayArrives
  <2>6. CASE Retention \/ UNCHANGED vars
    BY <2>2, <2>6 DEF Retention, vars
  <2> QED BY <2>3, <2>4, <2>5, <2>6 DEF Next
<1> QED BY <1>1, <1>2, PTL DEF Spec

(* A reader's device shows the newest intent that is still to be uploaded, *)
(* and otherwise what the server is known to hold: whatever is queued, in  *)
(* flight, retried, refused, dismissed or read from the server meanwhile.  *)
THEOREM WhatIsShownIsExplained == Spec => []ShownIsExplained
<1>1. OutboxInv => ShownIsExplained
  BY DEF OutboxInv, Outbox, Explained, ShownIsExplained
<1> QED BY <1>1, OutboxInvariant, PTL
=============================================================================
