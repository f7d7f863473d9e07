------------------------- MODULE MCPlacementAttempt -------------------------
(* Small instances of PlacementAttempt for TLC.                            *)
EXTENDS PlacementAttempt, TLC

(* Requests are interchangeable, and so are the ids of invitations.        *)
Symmetry == Permutations(Requests) \cup Permutations(Invitations)
=============================================================================
