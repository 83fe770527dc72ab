---------------------------- MODULE LibrarySync ----------------------------
(***************************************************************************)
(* The mobile side of the To Read library, composed with the server: the   *)
(* local database of each device (core/database/library_dao.dart), its     *)
(* outbox, and the serialized cycles of LibrarySyncController, which drain *)
(* the outbox and then refresh from the server.                            *)
(*                                                                         *)
(* A step is one local transaction, one transaction of the server together *)
(* with the response the device will read, or a failure.  A request the    *)
(* device gave up on may still arrive, at any later time.                  *)
(***************************************************************************)
EXTENDS LibraryServer

CONSTANTS
    Peers,       \* devices seen only through the operations they send
    NoOperation  \* a cycle that is not uploading

ASSUME SyncConstants ==
    /\ Peers \subseteq Devices
    /\ NoOperation \notin Operation

(* The devices whose local database and controller are modelled.           *)
Phones == Devices \ Peers

VARIABLES
    rows,        \* library_items of each device
    outbox,      \* sync_outbox of each device
    checkpoint,  \* library_sync_states of each device
    cycle,       \* what each device's sync controller is doing
    stray,       \* uploads the device gave up on that may still arrive
    issued       \* operations each device has issued

vars == <<items, revision, floor, accepted, rows, outbox, checkpoint, cycle,
          stray, issued>>

(* A local row: what the reader sees (not deleted) and what the server is  *)
(* known to hold (not canonicalDeleted).  No row is a row of FALSEs.       *)
LocalRow == [shown: BOOLEAN, canonical: BOOLEAN]
ActiveStates == {"queued", "recovery", "in_flight"}
Entry == [op: Operation, state: ActiveStates \cup {"failed"}, due: BOOLEAN]
Checkpoint == [initialized: BOOLEAN, last: Nat]

Answers == {"saved", "removed"}
Cycle == [at: {"stopped", "idle", "drain", "upload", "list", "listing", "snapshot",
               "changes", "page"},
          goal: {"drain", "refresh", "full"},
          op: Operation \cup {NoOperation},
          answer: Answers \cup {"none", "rejected"},
          fence: Nat, cursor: Nat, listed: SUBSET Papers,
          after: Nat, next: Nat, more: BOOLEAN,
          page: [Papers -> Answers \cup {"none"}]]

EmptyPage == [p \in Papers |-> "none"]
At(place, goal) ==
    [at |-> place, goal |-> goal, op |-> NoOperation, answer |-> "none",
     fence |-> 0, cursor |-> 0, listed |-> {}, after |-> 0, next |-> 0,
     more |-> FALSE, page |-> EmptyPage]

Init ==
    /\ SInit
    /\ rows = [d \in Phones |-> [p \in Papers |-> [shown |-> FALSE, canonical |-> FALSE]]]
    /\ outbox = [d \in Phones |-> {}]
    /\ checkpoint = [d \in Phones |-> [initialized |-> FALSE, last |-> 0]]
    /\ cycle = [d \in Phones |-> At("stopped", "drain")]
    /\ stray = {}
    /\ issued = [d \in Devices |-> 0]

-----------------------------------------------------------------------------
(* The local database.                                                     *)

Active(d, p) == {e \in outbox[d] : e.op.paper = p /\ e.state \in ActiveStates}
Standing(p) == IF items[p].saved THEN "saved" ELSE "removed"

(* The outbox without the rows of p in one of these states.                *)
Without(d, p, states) ==
    {e \in outbox[d] : ~(e.op.paper = p /\ e.state \in states)}

Replace(d, e, new) == [outbox EXCEPT ![d] = (@ \ {e}) \cup {new}]

(* A device issues its next operation.                                     *)
Issues(d) ==
    /\ issued[d] < MaxOperations[d]
    /\ issued' = [issued EXCEPT ![d] = @ + 1]

(* enqueueMutation: the reader's intent is shown at once and replaces what *)
(* is queued or has failed; what is in flight goes first.                  *)
Superseded == {"queued", "failed"}

EnqueueMutation(d, p, save) ==
    /\ p \in Touches[d]
    /\ Issues(d)
    /\ outbox' = [outbox EXCEPT ![d] = Without(d, p, Superseded) \cup
         {[op |-> [id |-> issued'[d], device |-> d, paper |-> p, save |-> save],
           state |-> "queued", due |-> TRUE]}]
    /\ rows' = [rows EXCEPT ![d][p].shown = save]
    /\ UNCHANGED <<svars, checkpoint, cycle, stray>>

(* dismissActionFailure, clearSyncIssue.                                   *)
DismissFailure(d, p) ==
    /\ \E e \in outbox[d] : e.op.paper = p /\ e.state = "failed"
    /\ outbox' = [outbox EXCEPT ![d] = Without(d, p, {"failed"})]
    /\ UNCHANGED <<svars, rows, checkpoint, cycle, stray, issued>>

(* A backoff elapses between two cycles: within one it would only have the *)
(* drain claim the row once more, as the next cycle's does.                *)
BackoffElapses(d) ==
    \E e \in outbox[d] :
      /\ cycle[d].at \in {"idle", "stopped"}
      /\ e.state \in {"queued", "recovery"} /\ ~e.due
      /\ outbox' = Replace(d, e, [e EXCEPT !.due = TRUE])
      /\ UNCHANGED <<svars, rows, checkpoint, cycle, stray, issued>>

-----------------------------------------------------------------------------
(* The controller.                                                         *)

Goto(d, place) == cycle' = [cycle EXCEPT ![d] = At(place, cycle[d].goal)]
Rest(d) == cycle' = [cycle EXCEPT ![d] = At("idle", "drain")]

(* start: recoverInFlight, then a cycle that refreshes.                    *)
NothingRecovered(d) == outbox[d]   \* mutant: in_flight rows stay in_flight
Recovered(d) ==
    {IF e.state = "in_flight" THEN [e EXCEPT !.state = "recovery", !.due = TRUE] ELSE e :
       e \in outbox[d]}

Start(d) ==
    /\ cycle[d].at = "stopped"
    /\ outbox' = [outbox EXCEPT ![d] = Recovered(d)]
    /\ cycle' = [cycle EXCEPT ![d] = At("drain", "refresh")]
    /\ UNCHANGED <<svars, rows, checkpoint, stray, issued>>

(* drain and refresh: the wakeup of a retry, an intent, the network or the *)
(* app coming back.  Cycles are serialized.                                *)
Trigger(d, goal) ==
    /\ cycle[d].at = "idle"
    /\ cycle' = [cycle EXCEPT ![d] = At("drain", goal)]
    /\ UNCHANGED <<svars, rows, outbox, checkpoint, stray, issued>>

(* An upload whose answer has not been produced may still arrive.          *)
LeavesStray(d) ==
    IF cycle[d].at = "upload" /\ cycle[d].answer = "none"
      THEN stray' \in {stray, stray \cup {cycle[d].op}}
      ELSE UNCHANGED stray

(* stop: the epoch changes, or the process dies; every later transaction   *)
(* of the running cycle rolls back.                                        *)
Stop(d) ==
    /\ cycle[d].at # "stopped"
    /\ LeavesStray(d)
    /\ cycle' = [cycle EXCEPT ![d] = At("stopped", "drain")]
    /\ UNCHANGED <<svars, rows, outbox, checkpoint, issued>>

(* claimNextDue: the oldest due row, rows in recovery first; a queued row  *)
(* waits for one of its paper that is in recovery or in flight.            *)
DueRecovery(d) == {e \in outbox[d] : e.state = "recovery" /\ e.due}
Blocked(d, p) ==
    \E e \in outbox[d] : e.op.paper = p /\ e.state \in {"recovery", "in_flight"}
DueQueued(d) == {e \in outbox[d] : e.state = "queued" /\ e.due /\ ~Blocked(d, e.op.paper)}
Claimable(d) == IF DueRecovery(d) # {} THEN DueRecovery(d) ELSE DueQueued(d)

ClaimNextDue(d) ==
    /\ cycle[d].at = "drain"
    /\ \E e \in Claimable(d) :
         /\ \A f \in Claimable(d) : e.op.id <= f.op.id
         /\ outbox' = Replace(d, e, [e EXCEPT !.state = "in_flight"])
         /\ cycle' = [cycle EXCEPT ![d] = [At("upload", @.goal) EXCEPT !.op = e.op]]
    /\ UNCHANGED <<svars, rows, checkpoint, stray, issued>>

(* Nothing is due: the cycle ends, or refreshes from the checkpoint.       *)
Drained(d) ==
    /\ cycle[d].at = "drain"
    /\ Claimable(d) = {}
    /\ \/ /\ cycle[d].goal = "drain"
          /\ Rest(d)
       \/ /\ cycle[d].goal = "refresh" /\ checkpoint[d].initialized
          /\ cycle' = [cycle EXCEPT ![d] =
                         [At("changes", "refresh") EXCEPT !.after = checkpoint[d].last]]
       \/ /\ \/ cycle[d].goal = "full"
             \/ cycle[d].goal = "refresh" /\ ~checkpoint[d].initialized
          /\ cycle' = [cycle EXCEPT ![d] = At("list", "full")]
    /\ UNCHANGED <<svars, rows, outbox, checkpoint, stray, issued>>

-----------------------------------------------------------------------------
(* Uploads.                                                                *)

(* The server's transaction; the answer is the current row of the paper.   *)
ServerAnswers(d) ==
    /\ cycle[d].at = "upload" /\ cycle[d].answer = "none"
    /\ MutateItem(cycle[d].op)
    /\ cycle' = [cycle EXCEPT ![d].answer =
                   IF items'[cycle[d].op.paper].saved THEN "saved" ELSE "removed"]
    /\ UNCHANGED <<rows, outbox, checkpoint, stray, issued>>

(* The server refuses: an inactive account, a paper that is not there.     *)
ServerRejects(d) ==
    /\ cycle[d].at = "upload" /\ cycle[d].answer = "none"
    /\ cycle' = [cycle EXCEPT ![d].answer = "rejected"]
    /\ UNCHANGED <<svars, rows, outbox, checkpoint, stray, issued>>

(* A request the device has given up on arrives.                           *)
StrayArrives(op) ==
    /\ op \in stray
    /\ MutateItem(op)
    /\ stray' = stray \ {op}
    /\ UNCHANGED <<rows, outbox, checkpoint, cycle, issued>>

(* The row of an operation that is being uploaded, in the state the        *)
(* transactions that settle it insist on.                                  *)
InFlight(d, e) == e \in outbox[d] /\ e.op = cycle[d].op /\ e.state = "in_flight"

(* The row of p once S is what its outbox holds: without an active         *)
(* operation the reader sees what the server holds.                        *)
Projected(S, p, row) ==
    IF \E e \in S : e.op.paper = p /\ e.state \in ActiveStates
      THEN row ELSE [row EXCEPT !.shown = row.canonical]

(* applyMutationSuccess.                                                   *)
ApplyMutationSuccess(d) ==
    /\ cycle[d].at = "upload" /\ cycle[d].answer \in Answers
    /\ \E e \in outbox[d] :
         LET p == e.op.paper
             rest == Without(d, p, {"failed"}) \ {e}
         IN  /\ InFlight(d, e)
             /\ outbox' = [outbox EXCEPT ![d] = rest]
             /\ rows' = [rows EXCEPT ![d][p] =
                  Projected(rest, p, [@ EXCEPT !.canonical = (cycle[d].answer = "saved")])]
    /\ Goto(d, "drain")
    /\ UNCHANGED <<svars, checkpoint, stray, issued>>

(* markPermanentFailure: the row stays for the reader to act on.           *)
MarkPermanentFailure(d) ==
    /\ cycle[d].at = "upload" /\ cycle[d].answer = "rejected"
    /\ \E e \in outbox[d] :
         LET p == e.op.paper
             failed == [e EXCEPT !.state = "failed", !.due = FALSE]
         IN  /\ InFlight(d, e)
             /\ outbox' = Replace(d, e, failed)
             /\ rows' = [rows EXCEPT ![d][p] =
                  Projected(outbox[d] \ {e}, p, @)]
    /\ Goto(d, "drain")
    /\ UNCHANGED <<svars, checkpoint, stray, issued>>

(* markRetry, after any failure that is worth a retry: the request or its  *)
(* answer was lost or is late, or the local transaction failed.            *)
Misnamed(d, e) == "retry"   \* mutant: a state no statement looks for
RetryState(d, e) ==
    IF \E f \in outbox[d] : f.op.paper = e.op.paper /\ f # e /\ f.state = "queued"
      THEN "recovery" ELSE "queued"

MarkRetry(d) ==
    /\ cycle[d].at = "upload" /\ cycle[d].answer # "rejected"
    /\ \E e \in outbox[d] :
         /\ InFlight(d, e)
         /\ outbox' = Replace(d, e, [e EXCEPT !.state = RetryState(d, e), !.due = FALSE])
    /\ LeavesStray(d)
    /\ Goto(d, "drain")
    /\ UNCHANGED <<svars, rows, checkpoint, issued>>

-----------------------------------------------------------------------------
(* Refreshing from the server.                                             *)

(* The listing goes on below the last row of the page, if there are more.  *)
AfterListPage(d, fence, cursor) ==
    LET page == ListPage(fence, cursor)
    IN  IF page = Listable(fence, cursor)
          THEN cycle' = [cycle EXCEPT ![d] =
                 [At("snapshot", "full") EXCEPT
                    !.fence = fence, !.listed = cycle[d].listed \cup page]]
          ELSE \E p \in page :
                 /\ \A q \in page : items[p].since <= items[q].since
                 /\ cycle' = [cycle EXCEPT ![d] =
                      [At("listing", "full") EXCEPT
                         !.fence = fence, !.cursor = items[p].since,
                         !.listed = cycle[d].listed \cup page]]

(* _fullRefresh: the fence is the revision of the first page.              *)
FetchFirstPage(d) ==
    /\ cycle[d].at = "list"
    /\ AfterListPage(d, revision, revision + 1)
    /\ UNCHANGED <<svars, rows, outbox, checkpoint, stray, issued>>

FetchNextPage(d) ==
    /\ cycle[d].at = "listing"
    /\ AfterListPage(d, cycle[d].fence, cycle[d].cursor)
    /\ UNCHANGED <<svars, rows, outbox, checkpoint, stray, issued>>

(* applyFullSnapshot: the local rows are replaced; those with an active    *)
(* operation keep what they show.  The changes since the fence follow.     *)
SnapshotRow(d, p) ==
    LET there == p \in cycle[d].listed
    IN  [canonical |-> there,
         shown |-> IF Active(d, p) # {} THEN rows[d][p].shown ELSE there]

ApplyFullSnapshot(d) ==
    /\ cycle[d].at = "snapshot"
    /\ rows' = [rows EXCEPT ![d] = [p \in Papers |-> SnapshotRow(d, p)]]
    /\ checkpoint' = [checkpoint EXCEPT ![d] =
                        [initialized |-> TRUE, last |-> cycle[d].fence]]
    /\ cycle' = [cycle EXCEPT ![d] =
                   [At("changes", "full") EXCEPT !.after = cycle[d].fence]]
    /\ UNCHANGED <<svars, outbox, stray, issued>>

FetchChanges(d) ==
    LET after == cycle[d].after
    IN  /\ cycle[d].at = "changes"
        /\ ~ResetRequired(after)
        /\ \E next \in 0..revision :
             /\ NextAfter(after, next)
             /\ cycle' = [cycle EXCEPT ![d] =
                  [At("page", @.goal) EXCEPT
                     !.after = after, !.next = next,
                     !.more = (ChangesPage(after) # Unseen(after)),
                     !.page = [p \in Papers |->
                        IF p \in ChangesPage(after) THEN Standing(p) ELSE "none"]]]
        /\ UNCHANGED <<svars, rows, outbox, checkpoint, stray, issued>>

(* 410 LIBRARY_SYNC_RESET_REQUIRED: beginSyncReset and a full refresh; the *)
(* error ends a cycle that is catching up with its own full refresh.       *)
ObeyReset(d) ==
    /\ cycle[d].at = "changes"
    /\ ResetRequired(cycle[d].after)
    /\ IF cycle[d].goal = "refresh"
         THEN /\ checkpoint' = [checkpoint EXCEPT ![d].initialized = FALSE]
              /\ cycle' = [cycle EXCEPT ![d] = At("list", "full")]
         ELSE /\ Rest(d)
              /\ UNCHANGED checkpoint
    /\ UNCHANGED <<svars, rows, outbox, stray, issued>>

(* applyChanges: the page and its position in one transaction.             *)
IntentOverwritten(d, p) ==   \* mutant: the outbox is not looked at
    LET saved == cycle[d].page[p] = "saved"
    IN  IF cycle[d].page[p] = "none" THEN rows[d][p]
        ELSE [canonical |-> saved, shown |-> saved]

ChangedRow(d, p) ==
    LET standing == cycle[d].page[p]
        saved == standing = "saved"
    IN  IF standing = "none" THEN rows[d][p]
        ELSE [canonical |-> saved,
              shown |-> IF Active(d, p) # {} THEN rows[d][p].shown ELSE saved]

ApplyChanges(d) ==
    /\ cycle[d].at = "page"
    /\ rows' = [rows EXCEPT ![d] = [p \in Papers |-> ChangedRow(d, p)]]
    /\ checkpoint' = [checkpoint EXCEPT ![d] =
                        [initialized |-> TRUE, last |-> cycle[d].next]]
    /\ IF cycle[d].more
         THEN cycle' = [cycle EXCEPT ![d] =
                          [At("changes", @.goal) EXCEPT !.after = cycle[d].next]]
         ELSE Rest(d)
    /\ UNCHANGED <<svars, outbox, stray, issued>>

(* A read fails and ends the cycle.                                        *)
RefreshFails(d) ==
    /\ cycle[d].at \in {"list", "listing", "changes"}
    /\ Rest(d)
    /\ UNCHANGED <<svars, rows, outbox, checkpoint, stray, issued>>

-----------------------------------------------------------------------------
Local(d) ==
    \/ \E p \in Papers : \/ \E save \in BOOLEAN : EnqueueMutation(d, p, save)
                         \/ DismissFailure(d, p)
    \/ BackoffElapses(d)

Controller(d) ==
    \/ Start(d) \/ Stop(d)
    \/ \E goal \in {"drain", "refresh"} : Trigger(d, goal)
    \/ ClaimNextDue(d) \/ Drained(d)

Upload(d) ==
    \/ ServerAnswers(d) \/ ServerRejects(d)
    \/ ApplyMutationSuccess(d) \/ MarkPermanentFailure(d) \/ MarkRetry(d)

Refresh(d) ==
    \/ FetchFirstPage(d) \/ FetchNextPage(d) \/ ApplyFullSnapshot(d)
    \/ FetchChanges(d) \/ ObeyReset(d) \/ ApplyChanges(d)
    \/ RefreshFails(d)

(* Another device's operation is accepted.                                 *)
PeerMutates(op) ==
    /\ op.device \in Peers
    /\ Issues(op.device)
    /\ op.id = issued'[op.device]
    /\ MutateItem(op)
    /\ UNCHANGED <<rows, outbox, checkpoint, cycle, stray>>

(* The retention worker of the server.                                     *)
Retention ==
    /\ \E p \in Papers : CleanupTombstones(p)
    /\ UNCHANGED <<rows, outbox, checkpoint, cycle, stray, issued>>

Next ==
    \/ \E d \in Phones : Local(d) \/ Controller(d) \/ Upload(d) \/ Refresh(d)
    \/ \E op \in Operation : StrayArrives(op) \/ PeerMutates(op)
    \/ Retention

Spec == Init /\ [][Next]_vars

(* The steps a device takes on its own.                                    *)
Proceed(d) ==
    \/ Start(d) \/ ClaimNextDue(d) \/ Drained(d) \/ MarkPermanentFailure(d)
    \/ ApplyFullSnapshot(d) \/ ApplyChanges(d)

(* A device that runs makes progress: its local steps happen, a backoff    *)
(* elapses and wakes the controller, the reader comes back to the app,     *)
(* and a request that is sent again and again is answered at last.         *)
Fairness ==
    \A d \in Phones :
      /\ WF_vars(Proceed(d))
      /\ SF_vars(BackoffElapses(d))
      /\ SF_vars(Trigger(d, "refresh"))
      /\ SF_vars(ServerAnswers(d) \/ ServerRejects(d))
      /\ SF_vars(ApplyMutationSuccess(d))
      /\ SF_vars(FetchFirstPage(d))
      /\ SF_vars(FetchNextPage(d))
      /\ SF_vars(FetchChanges(d) \/ ObeyReset(d))

FairSpec == Spec /\ Fairness

-----------------------------------------------------------------------------
(* Type invariant: the shape of the server's rows and of the devices'      *)
(* databases and controllers.                                              *)
TypeOK ==
    /\ items \in [Papers -> Item]
    /\ revision \in Nat
    /\ floor \in Nat
    /\ accepted \subseteq Operation
    /\ rows \in [Phones -> [Papers -> LocalRow]]
    /\ outbox \in [Phones -> SUBSET Entry]
    /\ checkpoint \in [Phones -> Checkpoint]
    /\ cycle \in [Phones -> Cycle]
    /\ stray \subseteq Operation
    /\ issued \in [Devices -> Nat]

(* What a checkpoint says: all changes up to it are in the local database. *)
Honest(d) ==
    checkpoint[d].initialized =>
      \A p \in Papers : items[p].revision <= checkpoint[d].last =>
        (rows[d][p].canonical <=> items[p].saved)

(* An initialized checkpoint never covers a change of the server that the  *)
(* local database does not hold: not across the pages of a list that moves *)
(* under the reader, purged tombstones, late uploads, lost answers and     *)
(* stops between any two steps.                                            *)
CheckpointHonest == \A d \in Phones : Honest(d)

(* What the reader sees is explained: the newest operation that is still   *)
(* to be uploaded, and otherwise what the server is known to hold.         *)
ShownIsExplained ==
    \A d \in Phones : \A p \in Papers :
      /\ Active(d, p) = {} => rows[d][p].shown = rows[d][p].canonical
      /\ \A e \in Active(d, p) :
           (\A f \in Active(d, p) : f.op.id <= e.op.id) => rows[d][p].shown = e.op.save

InSync(d) ==
    \A p \in Papers :
      Active(d, p) = {} /\ rows[d][p].shown = items[p].saved

(* A phone that stays signed in comes to show what the server holds, and   *)
(* goes on doing so: whatever was lost, late, refused, purged or stopped   *)
(* before, the uploads and the change feed bring the devices together.     *)
PhonesConverge ==
    \A d \in Phones : <>[](cycle[d].at # "stopped") => <>[]InSync(d)
=============================================================================
