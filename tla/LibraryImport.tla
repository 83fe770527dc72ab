--------------------------- MODULE LibraryImport ---------------------------
(***************************************************************************)
(* Importing a paper by its link on a phone (features/library/             *)
(* paper_import_flow.dart).  The save is made by the server on behalf of   *)
(* the import (crates/paper_resolution/src/import.rs): it has no row in    *)
(* the outbox, and its response is applied to the local database beside    *)
(* whatever the sync controller is doing.                                  *)
(***************************************************************************)
EXTENDS LibrarySync

VARIABLE imported   \* import responses on their way to a phone

ivars == <<vars, imported>>

IInit == Init /\ imported = {}

(* import_with_source saves the paper; the response carries the revision.  *)
ImportPaper(d, p) ==
    /\ p \in Touches[d]
    /\ Issues(d)
    /\ MutateItem([id |-> issued'[d], device |-> d, paper |-> p, save |-> TRUE])
    /\ imported' = imported \cup {[device |-> d, paper |-> p, revision |-> revision']}
    /\ UNCHANGED <<rows, outbox, checkpoint, cycle, stray>>

(* The response reaches applyImportedPaper of the v2 DAO, which looks for  *)
(* v2 operations only and moves an initialized checkpoint up to the        *)
(* response's revision.                                                    *)
ApplyImportedPaper(d) ==
    \E r \in imported :
      /\ r.device = d
      /\ imported' = imported \ {r}
      /\ rows' = [rows EXCEPT ![d][r.paper] = [shown |-> TRUE, canonical |-> TRUE]]
      /\ checkpoint' = [checkpoint EXCEPT ![d].last =
           IF checkpoint[d].initialized /\ r.revision > @ THEN r.revision ELSE @]
      /\ UNCHANGED <<svars, outbox, cycle, stray, issued>>

(* The response is lost, or the account has changed meanwhile.             *)
LoseImport(d) ==
    \E r \in imported :
      /\ r.device = d
      /\ imported' = imported \ {r}
      /\ UNCHANGED vars

(* The local projection failed: refresh(forceFull).                        *)
RefreshInFull(d) == Trigger(d, "full") /\ UNCHANGED imported

INext ==
    \/ Next /\ UNCHANGED imported
    \/ \E d \in Phones : \/ \E p \in Papers : ImportPaper(d, p)
                         \/ ApplyImportedPaper(d) \/ LoseImport(d) \/ RefreshInFull(d)

ISpec == IInit /\ [][INext]_ivars

(* library-sync.md: next_after_revision is persisted only after the whole  *)
(* page has been applied.  With imports too, an initialized checkpoint     *)
(* covers no change that the local database does not hold.                 *)
CheckpointHonestWithImports == CheckpointHonest

(* What imports leave intact.  No phone ever asks for changes from beyond  *)
(* the revision of the account, which changes() would refuse for good.     *)
CheckpointInReach ==
    \A d \in Phones : checkpoint[d].last <= revision /\ cycle[d].after <= revision

(* A full refresh makes the checkpoint honest again, whatever imports have *)
(* been applied before it, or while its pages were being read.             *)
FullRefreshRepairs ==
    [][\A d \in Phones : ApplyFullSnapshot(d) => Honest(d)']_ivars
=============================================================================
