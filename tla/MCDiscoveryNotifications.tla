---------------------- MODULE MCDiscoveryNotifications ----------------------
(* Papers, subscriptions and workers are interchangeable. *)
EXTENDS DiscoveryNotifications, TLC

Symmetry == Permutations(Papers) \cup Permutations(Subs) \cup Permutations(Workers)

\* Matches one by one, within a budget of one, and digests.
MCPreferences ==
    {[mode |-> "match", daily |-> FALSE, budget |-> 1],
     [mode |-> "digest", daily |-> TRUE, budget |-> 1]}

\* A save starts a queue, and a removal ends it once the digests are held back
\* by it: the course of postgres_engagement.rs:1249-1290.
QueueTurns ==
    library' # library =>
        /\ library'.active # library.active
        /\ library.active => \A k \in OfKind("digest"): note[k].state # "unknown"
=============================================================================
