----------------------------- MODULE MCScoring -----------------------------
(* A small test for TLC: two course levels with enough questions to be     *)
(* compared, a question beyond the last range, missing labels, and bands   *)
(* of both metrics that share a boundary and leave a gap.                  *)
EXTENDS Scoring

Question(n, topic, difficulty, right) ==
  [order |-> n, topic |-> topic, difficulty |-> difficulty, correct |-> right]

MCQuestions ==
  <<Question(4, "Grammar", "Beginner", "x"), Question(5, "Grammar", None, "y"),
    Question(6, "Reading", None, "x"), Question(7, None, "Elementary", "x"),
    Question(8, "Vocabulary", "Elementary", "y"),
    Question(9, "Listening", "Elementary", "x"),
    Question(71, None, "Elementary", "x")>>

Band(n, name, mode, low, high) ==
  [order |-> n, label |-> name, scoringMode |-> mode,
   minRawScore   |-> IF mode = "RAW_SCORE" THEN low ELSE None,
   maxRawScore   |-> IF mode = "RAW_SCORE" THEN high ELSE None,
   minPercentage |-> IF mode = "PERCENTAGE" THEN low ELSE None,
   maxPercentage |-> IF mode = "PERCENTAGE" THEN high ELSE None]

MCBands ==
  {Band(1, "Beginner", "RAW_SCORE", 0, 2), Band(2, "Elementary", "RAW_SCORE", 2, 3),
   Band(3, "Intermediate", "PERCENTAGE", 57, 58),
   Band(4, "Advanced", "PERCENTAGE", 80, 100)}
=============================================================================
