------------------------ MODULE MCRecommendationFeed ------------------------
(* Requests and workers of one account are interchangeable. *)
EXTENDS RecommendationFeed, TLC

Symmetry == Permutations(Clients) \cup Permutations(Workers)
=============================================================================
