-------------------------- MODULE PlacementLevels --------------------------
(***************************************************************************)
(* The two tables a score or a position in the test is looked up in: the   *)
(* placement bands an institution configures (matchPlacementBand of        *)
(* domain/scoring/engine.ts) and the six fixed ranges of questions of the  *)
(* source (domain/placement/progression.ts).                               *)
(***************************************************************************)
EXTENDS Integers, Sequences

CONSTANT None   \* null

(* A percentage is a double: (raw / total) * 100.  For a test of at most   *)
(* 70 questions these are the scores whose exact percentage is a whole     *)
(* number that the double misses, from above or from below.  The bounds of *)
(* the bands are whole percentages here.                                   *)
RoundedUp   == {<<7, 25>>, <<14, 25>>, <<7, 50>>, <<14, 50>>, <<28, 50>>,
                <<11, 20>>, <<22, 40>>, <<33, 60>>}
RoundedDown == {<<29, 50>>}

(* Inclusive bounds, of the metric the band declares; a band without a     *)
(* bound matches nothing.                                                  *)
CoversRaw(b, raw) ==
  /\ b.scoringMode = "RAW_SCORE"
  /\ b.minRawScore # None /\ b.maxRawScore # None
  /\ b.minRawScore <= raw /\ raw <= b.maxRawScore

CoversPercentage(b, raw, total) ==
  /\ b.scoringMode = "PERCENTAGE"
  /\ b.minPercentage # None /\ b.maxPercentage # None
  /\ LET of == IF total = 0 THEN 1 ELSE total
     IN  /\ \/ 100 * raw > b.minPercentage * of
            \/ 100 * raw = b.minPercentage * of /\ <<raw, total>> \notin RoundedDown
         /\ \/ 100 * raw < b.maxPercentage * of
            \/ 100 * raw = b.maxPercentage * of /\ <<raw, total>> \notin RoundedUp

Covers(b, raw, total) == CoversRaw(b, raw) \/ CoversPercentage(b, raw, total)

(* The first band, by order, that covers the score.                        *)
MatchPlacementBand(raw, total, bands) ==
  LET covering == {b \in bands : Covers(b, raw, total)}
  IN  IF covering = {} THEN None
      ELSE CHOOSE b \in covering : \A c \in covering : b.order <= c.order

-----------------------------------------------------------------------------
(* domain/placement/levels.ts and progression.ts.                          *)

StandardPlacementLevels ==
  <<"Beginner", "Elementary", "Pre-Intermediate", "Intermediate",
    "Upper Intermediate", "Advanced">>

IsStandardPlacementLevel(label) ==
  \E n \in 1 .. 6 : StandardPlacementLevels[n] = label

ProgressionBands ==
  LET first == <<1, 7, 21, 35, 49, 63>>
      last  == <<6, 20, 34, 48, 62, 70>>
  IN  [n \in 1 .. 6 |-> [order |-> n, label |-> StandardPlacementLevels[n],
                         minQuestion |-> first[n], maxQuestion |-> last[n]]]

FindProgressionBand(position) ==
  LET around == {n \in DOMAIN ProgressionBands :
                   position \in ProgressionBands[n].minQuestion
                                  .. ProgressionBands[n].maxQuestion}
  IN  IF around = {} THEN None
      ELSE ProgressionBands[CHOOSE n \in around : \A m \in around : n <= m]
=============================================================================
