-------------------------- MODULE MCPlacementBands --------------------------
(* A small instance of PlacementBands for TLC: a test of 20 questions, two *)
(* institutional bands, one result in each of them or on a percentage that *)
(* rounds up, and forms that switch the metric or swap the bounds.         *)
EXTENDS PlacementBands, TLC

CONSTANTS r1, r2

MCRawScore == (r1 :> 6) @@ (r2 :> 11)

MCInstitutional ==
  <<[order |-> 1, label |-> "Beginner", min |-> 0, max |-> 6],
    [order |-> 2, label |-> "Elementary", min |-> 7, max |-> 20]>>

Input(n, mode, low, high) ==
  [order |-> n, label |-> "Advanced", scoringMode |-> mode, min |-> low, max |-> high]

MCFormInputs ==
  {Input(1, "PERCENTAGE", 30, 55), Input(2, "RAW_SCORE", 11, 6)}

Symmetry == Permutations(Requests) \cup Permutations(BandIds)
=============================================================================
