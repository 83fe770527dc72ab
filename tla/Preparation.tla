---------------------------- MODULE Preparation ----------------------------
(***************************************************************************)
(* What the preparation of a paper promises to whoever reads its status,   *)
(* free of jobs, stages, leases and workers: capabilities are published    *)
(* one at a time, the introduction first, and withdrawn only by the next   *)
(* version of the paper; work counts as finished only once its capability  *)
(* is published; and ready is never said too early.  Module PaperPipeline  *)
(* implements this specification.                                          *)
(***************************************************************************)
EXTENDS Naturals

CONSTANTS
    Introduction,   \* the capability that comes first
    Artifacts       \* the capabilities that build on it

All == {Introduction} \cup Artifacts

VARIABLES
    version,     \* how many versions of the paper have been seen
    published,   \* the capabilities of this version
    finished,    \* the capabilities whose work is on record as done
    ready        \* whether the paper is said to be ready

promise == <<version, published, finished, ready>>

PInit ==
    /\ version = 1
    /\ published = {}
    /\ finished = {}
    /\ ready = FALSE

(* What is said of the paper may change, but must be true.                 *)
Say == ready' \in BOOLEAN /\ (ready' => published' = All)

Publish(c) ==
    /\ c \notin published
    /\ c \in Artifacts => Introduction \in published
    /\ published' = published \cup {c}
    /\ Say
    /\ UNCHANGED <<version, finished>>

Report ==
    /\ Say
    /\ UNCHANGED <<version, published, finished>>

Finish(c) ==
    /\ c \in published \ finished
    /\ finished' = finished \cup {c}
    /\ UNCHANGED <<version, published, ready>>

Supersede ==
    /\ version' = version + 1
    /\ published' = {}
    /\ finished' = {}
    /\ ready' = FALSE

PNext ==
    \/ \E c \in All : Publish(c) \/ Finish(c)
    \/ Report
    \/ Supersede

PSpec == PInit /\ [][PNext]_promise
=============================================================================
