--------------------------- MODULE LibraryServer ---------------------------
(***************************************************************************)
(* The server side of the To Read library of one account: the transactions *)
(* of backend/crates/db/src/repository/library.rs.  Each is one step: the  *)
(* row of library_sync_metadata is locked before the library row and held  *)
(* to the commit, and both reads run in one snapshot.                      *)
(*                                                                         *)
(* A saved_at is the revision that opened the interval in which the paper  *)
(* is saved: statement times within an account follow its revisions.  The  *)
(* encrypted cursor is the pair of its coordinates.                        *)
(***************************************************************************)
EXTENDS Naturals, FiniteSets

CONSTANTS
    Papers,         \* papers known to the catalogue
    Devices,        \* the account's devices
    Touches,        \* bound: papers a device acts on
    MaxOperations,  \* bound: operations a device issues
    PageSize        \* limit of a list or a changes page

ASSUME LibraryConstants ==
    /\ IsFiniteSet(Papers)
    /\ Touches \in [Devices -> SUBSET Papers]
    /\ MaxOperations \in [Devices -> Nat]
    /\ PageSize \in Nat \ {0}

(* The operation UUIDs of a device, numbered in the order it issues them.  *)
Operation == UNION {[id: 1..MaxOperations[d], device: {d}, paper: Touches[d],
                     save: BOOLEAN] : d \in Devices}

VARIABLES
    items,      \* the current row of a paper, or the row its tombstone had
    revision,   \* current_revision of the account
    floor,      \* purged_through_revision of the account
    accepted    \* library_operations, the ledger of accepted operations

svars == <<items, revision, floor, accepted>>

(* stored is FALSE while user_paper_library has no row of the paper: never *)
(* touched (revision 0), or its tombstone has been purged.                 *)
Item == [saved: BOOLEAN, revision: Nat, since: Nat, stored: BOOLEAN]

SInit ==
    /\ items = [p \in Papers |->
                  [saved |-> FALSE, revision |-> 0, since |-> 0, stored |-> FALSE]]
    /\ revision = 0
    /\ floor = 0
    /\ accepted = {}

-----------------------------------------------------------------------------
(* mutate_item: a known operation is replayed and changes nothing; another *)
(* gets the next revision and rewrites the row.  A save of a saved paper,  *)
(* and a removal of a row there is, keep its saved_at.                     *)
Replayed(op) == op \in accepted

Rewritten(op) ==
    LET old == items[op.paper]
    IN  [saved |-> op.save, revision |-> revision + 1, stored |-> TRUE,
         since |-> IF old.stored /\ (old.saved \/ ~op.save)
                     THEN old.since ELSE revision + 1]

MutateItem(op) ==
    IF Replayed(op)
      THEN UNCHANGED svars
      ELSE /\ items' = [items EXCEPT ![op.paper] = Rewritten(op)]
           /\ revision' = revision + 1
           /\ accepted' = accepted \cup {op}
           /\ UNCHANGED floor

Tombstone(p) == items[p].stored /\ ~items[p].saved

(* cleanup_tombstones: a batch of the oldest tombstones, up to that of p,  *)
(* is deleted and the floor raised over them.  The ledger stays.           *)
FloorStays(p) ==   \* mutant: tombstones go, the floor is not raised
    /\ Tombstone(p)
    /\ items' = [items EXCEPT ![p].stored = FALSE]
    /\ UNCHANGED <<revision, floor, accepted>>

LedgerGoes(p) ==   \* mutant: the ledger is purged with the tombstone
    /\ Tombstone(p)
    /\ items' = [items EXCEPT ![p].stored = FALSE]
    /\ floor' = IF items[p].revision > floor THEN items[p].revision ELSE floor
    /\ accepted' = {op \in accepted : op.paper # p}
    /\ UNCHANGED revision

CleanupTombstones(p) ==
    /\ Tombstone(p)
    /\ items' = [q \in Papers |->
                   IF Tombstone(q) /\ items[q].revision <= items[p].revision
                     THEN [items[q] EXCEPT !.stored = FALSE] ELSE items[q]]
    /\ floor' = IF items[p].revision > floor THEN items[p].revision ELSE floor
    /\ UNCHANGED <<revision, accepted>>

-----------------------------------------------------------------------------
(* The reads, as the rows they return and the position they hand back.     *)

(* list_items: saved rows that the fence covers, below the cursor, newest  *)
(* first.                                                                  *)
Listable(fence, cursor) ==
    {p \in Papers : /\ items[p].saved
                    /\ items[p].revision <= fence
                    /\ items[p].since < cursor}

ListPage(fence, cursor) ==
    LET S == Listable(fence, cursor)
    IN  {p \in S : Cardinality({q \in S : items[q].since > items[p].since}) < PageSize}

(* changes: rows the device has not seen, tombstones too, oldest first.    *)
Unseen(after) == {p \in Papers : items[p].stored /\ items[p].revision > after}

ChangesPage(after) ==
    LET S == Unseen(after)
    IN  {p \in S : Cardinality({q \in S : items[q].revision < items[p].revision}) < PageSize}

(* next_after_revision: the last row of the page while there are more.     *)
NextAlways(after, next) == next = revision   \* mutant: has_more is forgotten

NextAfter(after, next) ==
    IF ChangesPage(after) = Unseen(after)
      THEN next = revision
      ELSE \E p \in ChangesPage(after) :
             /\ next = items[p].revision
             /\ \A q \in ChangesPage(after) : items[q].revision <= next

ResetRequired(after) == after < floor

-----------------------------------------------------------------------------
(* The server on its own: any operation may arrive at any time, any number *)
(* of times.                                                               *)
SNext ==
    \/ \E op \in Operation : MutateItem(op)
    \/ \E p \in Papers : CleanupTombstones(p)

SSpec == SInit /\ [][SNext]_svars

Log == INSTANCE LibraryLog WITH
    library <- {p \in Papers : items[p].saved},
    applied <- accepted

(* Every operation takes effect at most once, and only operations and      *)
(* never the purge of tombstones change which papers are saved.            *)
ImplementsLog == Log!LSpec
=============================================================================
