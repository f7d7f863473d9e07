---------------------------- MODULE MCTestImport ----------------------------
(* A small instance of TestImport for TLC: a sound file under the title of *)
(* the dataset, another sound one, and one whose questions leave a gap.    *)
(* One dialog is enough: after a reload the confirmations under way are    *)
(* those of somebody else.  The validation is compared with IsSound on     *)
(* every draft of up to two questions and bands.                           *)
EXTENDS TestImport, TLC

CONSTANTS good, other, gap

Option(value, correct) == [text |-> value, isCorrect |-> correct]

Question(n, options) == [order |-> n, prompt |-> "prompt", options |-> options]

Band(n, low, high) ==
  [order |-> n, label |-> "label", minPercentage |-> low, maxPercentage |-> high]

Draft(title, questions, bands) ==
  [title |-> title, durationSeconds |-> 60, questions |-> questions,
   placementBands |-> bands]

TwoOptions == <<Option("a", TRUE), Option("b", FALSE)>>

MCContent ==
  (good :> Draft("hub", <<Question(2, TwoOptions), Question(1, TwoOptions)>>,
                 <<Band(0, 0, 4999), Band(1, 5000, HundredPercent)>>))
  @@ (other :> Draft("other", <<Question(1, TwoOptions)>>, <<>>))
  @@ (gap :> Draft("other", <<Question(1, TwoOptions), Question(3, TwoOptions)>>, <<>>))

UpTo(n, S) == UNION {[1 .. k -> S] : k \in 0 .. n}

SmallDrafts ==
  LET options   == UpTo(2, {Option(x, c) : x \in {"a", "b"}, c \in BOOLEAN})
      questions == {Question(n, os) : n \in 1 .. 3, os \in options}
      bands     == UpTo(2, {Band(n, low, high) : n \in 0 .. 1, low \in {0, 5000},
                                                 high \in {4999, HundredPercent}})
  IN  {Draft("other", qs, <<>>) : qs \in UpTo(2, questions)}
        \cup {Draft("other", <<Question(1, TwoOptions)>>, bs) : bs \in bands}

ASSUME ValidationIsExact ==
  \A draft \in SmallDrafts : (ValidateImportDraft(draft) = {}) = IsSound(draft)

ASSUME LanguageHubIsSound ==
  IssuesOf("language-hub", None) = {} /\ IsSound(LanguageHubDraft)

Symmetry == Permutations(Requests)
=============================================================================
