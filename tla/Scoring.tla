------------------------------ MODULE Scoring ------------------------------
(***************************************************************************)
(* What is computed from the answers of one attempt: the raw score and the *)
(* recommended level (domain/scoring/engine.ts), the progression evidence  *)
(* and the performance by course level (domain/placement), the analysis of *)
(* each question and the reports built from all of them (domain/results),  *)
(* and what the result pages make of a report.                             *)
(*                                                                         *)
(* The functions are pure.  They meet in one place, the report, which is   *)
(* built from the score an attempt was finalized with and from its answers *)
(* and questions, read again at every visit; the properties are about what *)
(* these separate computations must agree on.  The state is the answers,   *)
(* which a student sets, changes and clears in any order, the result that  *)
(* is stored when the attempt is finalized, and the final placement an     *)
(* admin may then set over the recommended level.  A save that found the   *)
(* attempt open may still be written when the result is already stored.    *)
(***************************************************************************)
EXTENDS PlacementLevels, FiniteSets, Sequences, SequencesExt

CONSTANTS
  Questions,   \* the published questions, by order: [order, topic, difficulty,
               \* correct], correct being None when no option is marked
  Options,     \* ids of options
  Bands,       \* the PlacementBand rows of the test
  Decisions,   \* labels an admin may send as the final placement
  MaxLate      \* bound: questions whose answer is written after the scoring

ASSUME LateAssumption == MaxLate \in Nat
ASSUME NoneIsNoOption == None \notin Options
ASSUME NoneIsNoLevel ==
  None \notin Range(StandardPlacementLevels) /\ None \notin Range(ProgressionBands)
ASSUME QuestionsAreListed ==
  /\ Len(Questions) \in Nat /\ DOMAIN Questions = 1 .. Len(Questions)
  /\ \A k \in DOMAIN Questions : Questions[k].order \in Nat
ASSUME BandsAreRows == IsFiniteSet(Bands) /\ \A b \in Bands : b.order \in Int
ASSUME OrdersDiffer ==
  \A j, k \in DOMAIN Questions :
     j < k => Questions[j].order < Questions[k].order

VARIABLES
  answer,     \* answer[k]: selectedOptionId for question k, or None
  submitted,  \* the attempt is finalized
  result,     \* the scoring in its row of placement_results
  final,      \* finalPlacementLabel of that row, None when null
  lateSaves   \* history: the questions whose answer was written afterwards

resultVars == <<answer, submitted, result, final, lateSaves>>

Ids   == DOMAIN Questions
Total == Len(Questions)

-----------------------------------------------------------------------------
(* domain/scoring/engine.ts.                                               *)

Answered(a)        == {k \in Ids : a[k] # None}
CorrectAnswers(a)  == {k \in Answered(a) : a[k] = Questions[k].correct}
WrongAnswers(a)    == Answered(a) \ CorrectAnswers(a)

(* (The variant counts what was answered.)                                 *)
ComputeAnsweredScore(a) == Cardinality(Answered(a))
ComputeRawScore(a)      == Cardinality(CorrectAnswers(a))

(* The labels of a list of questions in the order of their first           *)
(* occurrence, and the counts of each: one bucket per label, a missing     *)
(* label counting as "Unspecified".  (The variant drops those.)            *)
OrUnspecified(label) == IF label = None THEN "Unspecified" ELSE label

NamedOccurrences(labels) ==
  FoldLeft(LAMBDA seen, l : IF Contains(seen, l) \/ l = "Unspecified"
                            THEN seen ELSE Append(seen, l),
           <<>>, labels)

FirstOccurrences(labels) ==
  FoldLeft(LAMBDA seen, l : IF Contains(seen, l) THEN seen ELSE Append(seen, l),
           <<>>, labels)

Buckets(labels, a) ==
  LET names == FirstOccurrences(labels)
      In(n) == {k \in Ids : labels[k] = names[n]}
  IN  [n \in DOMAIN names |->
         [label   |-> names[n],
          correct |-> Cardinality(In(n) \cap CorrectAnswers(a)),
          total   |-> Cardinality(In(n))]]

ComputeDifficultyProgression(a) ==
  Buckets([k \in Ids |-> OrUnspecified(Questions[k].difficulty)], a)

ComputeTopicPerformance(a) ==
  Buckets([k \in Ids |-> OrUnspecified(Questions[k].topic)], a)

ComputeScoring(a) ==
  [rawScore              |-> ComputeRawScore(a),
   totalQuestions        |-> Total,
   difficultyProgression |-> ComputeDifficultyProgression(a),
   topicPerformance      |-> ComputeTopicPerformance(a),
   placementBand         |-> MatchPlacementBand(ComputeRawScore(a), Total, Bands)]

-----------------------------------------------------------------------------
(* domain/placement/progression.ts.                                        *)

InBand(k, b) == Questions[k].order \in b.minQuestion .. b.maxQuestion

HighestCorrect(a) ==
  LET orders == {Questions[k].order : k \in CorrectAnswers(a)}
  IN  IF orders = {} THEN None ELSE CHOOSE o \in orders : \A x \in orders : x <= o

ComputeAnswerBreakdown(a) ==
  LET answered == Cardinality(Answered(a))
      correct  == Cardinality(CorrectAnswers(a))
      highest  == HighestCorrect(a)
  IN  [answered       |-> answered,
       correct        |-> correct,
       incorrect      |-> answered - correct,
       unanswered     |-> Total - answered,
       highestCorrect |-> highest,
       band |-> IF highest = None THEN None ELSE FindProgressionBand(highest)]

-----------------------------------------------------------------------------
(* domain/placement/course-level-performance.ts.  Accuracies are compared  *)
(* as the fractions they are; accuracy is null when nothing was answered.  *)

ComputeCourseLevelPerformance(a) ==
  [n \in DOMAIN ProgressionBands |->
     LET here == {k \in Ids : InBand(k, ProgressionBands[n])}
     IN  [label      |-> ProgressionBands[n].label,
          correct    |-> Cardinality(here \cap CorrectAnswers(a)),
          incorrect  |-> Cardinality(here \cap WrongAnswers(a)),
          unanswered |-> Cardinality(here \ Answered(a)),
          total      |-> Cardinality(here)]]

AnsweredIn(e)   == e.correct + e.incorrect
MoreAccurate(e, f) == e.correct * AnsweredIn(f) > f.correct * AnsweredIn(e)

QualitativeLabelFor(e) ==
  CASE AnsweredIn(e) = 0                      -> None
    [] 100 * e.correct >= 80 * AnsweredIn(e)  -> "Strong"
    [] 100 * e.correct < 50 * AnsweredIn(e)   -> "Needs improvement"
    [] OTHER                                  -> "Developing"

(* MIN_ANSWERED_FOR_EVIDENCE and MIN_ANSWERED_RATIO_FOR_EVIDENCE.          *)
HasEvidence(e) ==
  /\ AnsweredIn(e) >= 3
  /\ e.total # 0
  /\ 2 * AnsweredIn(e) >= e.total

(* A stable sort by falling accuracy: the strongest is the first of the    *)
(* most accurate entries, the weakest the last of the least accurate ones. *)
(* (The variant needs one answer only.)                                    *)
SummarizeAnyAnswer(entries) ==
  LET eligible  == {n \in DOMAIN entries : AnsweredIn(entries[n]) > 0}
      strongest == CHOOSE n \in eligible :
                     \A m \in eligible : ~ MoreAccurate(entries[m], entries[n])
  IN  [strongest |-> IF eligible = {} THEN None ELSE entries[strongest].label,
       weakest |-> None, hasSufficientEvidence |-> eligible # {}]

SummarizeCourseLevelStrengthWeakness(entries) ==
  LET eligible  == {n \in DOMAIN entries : HasEvidence(entries[n])}
      strongest == CHOOSE n \in eligible : \A m \in eligible :
                     \/ MoreAccurate(entries[n], entries[m])
                     \/ ~ MoreAccurate(entries[m], entries[n]) /\ n <= m
      weakest   == CHOOSE n \in eligible : \A m \in eligible :
                     \/ MoreAccurate(entries[m], entries[n])
                     \/ ~ MoreAccurate(entries[n], entries[m]) /\ n >= m
  IN  [strongest |-> IF eligible = {} THEN None ELSE entries[strongest].label,
       weakest   |-> IF Cardinality(eligible) > 1 THEN entries[weakest].label
                                                  ELSE None,
       hasSufficientEvidence |-> eligible # {}]

-----------------------------------------------------------------------------
(* domain/results/question-analysis.ts: one entry for each question, and   *)
(* what of it the student sees, by order.                                  *)

BuildQuestionAnalysis(a) ==
  [k \in Ids |-> [order      |-> Questions[k].order,
                  selected   |-> a[k],
                  correct    |-> Questions[k].correct,
                  isAnswered |-> k \in Answered(a),
                  isCorrect  |-> k \in CorrectAnswers(a)]]

ToStudentQuestionReview(a) ==
  LET analysis == BuildQuestionAnalysis(a)
  IN  [k \in Ids |->
         [order    |-> analysis[k].order,
          status   |-> CASE ~ analysis[k].isAnswered -> "UNANSWERED"
                         [] analysis[k].isCorrect    -> "CORRECT"
                         [] OTHER                    -> "INCORRECT",
          selected |-> analysis[k].selected,
          correct  |-> analysis[k].correct]]

-----------------------------------------------------------------------------
(* domain/results/present.ts.                                              *)

(* STRONGEST_TOPICS_COUNT of a stable sort by falling percentage.          *)
StrongestTopics(topics) ==
  LET Better(i, j) ==
        \/ topics[i].correct * topics[j].total > topics[j].correct * topics[i].total
        \/ /\ topics[i].correct * topics[j].total = topics[j].correct * topics[i].total
           /\ i < j
  IN  {topics[i].label : i \in {i \in DOMAIN topics :
         Cardinality({j \in DOMAIN topics : Better(j, i)}) < 3}}

(* LIMITED_COVERAGE_ANSWERED_RATIO.                                        *)
LimitedCoverage(total, answered) == total # 0 /\ 2 * answered < total

(* The report of a finished attempt: `scored` is what finalizeAttempt      *)
(* computed or, on a later visit, what it stored; the rest is derived from *)
(* the answers again.                                                      *)
BuildStudentResultSummary(scored, level, a) ==
  LET levels    == ComputeCourseLevelPerformance(a)
      breakdown == ComputeAnswerBreakdown(a)
  IN  [level            |-> level,
       rawScore         |-> scored.rawScore,
       totalQuestions   |-> scored.totalQuestions,
       strongestTopics  |-> StrongestTopics(scored.topicPerformance),
       progression      |-> breakdown,
       courseLevels     |-> levels,
       strengthWeakness |-> SummarizeCourseLevelStrengthWeakness(levels),
       questionReview   |-> ToStudentQuestionReview(a),
       limitedCoverage  |-> LimitedCoverage(scored.totalQuestions, breakdown.answered)]

(* The admin's decision, or the recommended level where there is none.     *)
FinalPlacement(level, override) ==
  [label        |-> IF override = None THEN level ELSE override,
   isOverridden |-> override # None]

BuildAdminResultDetail(scored, level, override, a) ==
  LET levels == ComputeCourseLevelPerformance(a)
  IN  [level                 |-> level,
       finalPlacement        |-> FinalPlacement(level, override),
       rawScore              |-> scored.rawScore,
       totalQuestions        |-> scored.totalQuestions,
       difficultyProgression |-> scored.difficultyProgression,
       topicPerformance      |-> scored.topicPerformance,
       progression           |-> ComputeAnswerBreakdown(a),
       courseLevels          |-> levels,
       strengthWeakness      |-> SummarizeCourseLevelStrengthWeakness(levels),
       questionAnalysis      |-> BuildQuestionAnalysis(a)]

(* What the student's pages show: a badge for each course level, and the   *)
(* disclosures and gaps that stand for missing evidence.                   *)
DetailedAnalysis(r) ==
  [badges    |-> [n \in DOMAIN r.courseLevels |-> QualitativeLabelFor(r.courseLevels[n])],
   strongest |-> r.strengthWeakness.strongest,
   weakest   |-> r.strengthWeakness.weakest,
   limited   |-> r.limitedCoverage]

-----------------------------------------------------------------------------
(* buildStudentResultSummaryFromCompletedAttempt and getAdminResultDetail. *)
StoredLevel ==
  IF result.placementBand = None THEN None ELSE result.placementBand.label

StudentReport == BuildStudentResultSummary(result, StoredLevel, answer)
AdminReport   == BuildAdminResultDetail(result, StoredLevel, final, answer)

InitResults ==
  /\ answer = [k \in Ids |-> None]
  /\ submitted = FALSE
  /\ result = None
  /\ final = None
  /\ lateSaves = {}

(* The upsert of submitAnswer: an option, another one, or null to clear    *)
(* the answer.  Its check of the attempt is a read of its own, which the   *)
(* finalization may overtake.                                              *)
SubmitAnswer(k, o) ==
  /\ submitted => Cardinality(lateSaves \cup {k}) <= MaxLate
  /\ answer' = [answer EXCEPT ![k] = o]
  /\ lateSaves' = IF submitted THEN lateSaves \cup {k} ELSE lateSaves
  /\ UNCHANGED <<submitted, result, final>>

(* finalizeAttempt reads the answers, scores them and commits: nobody sees *)
(* the score before it is stored, so a save that is written in between is  *)
(* one that is written after.                                              *)
SubmitAttempt ==
  /\ ~ submitted
  /\ submitted' = TRUE
  /\ result' = ComputeScoring(answer)
  /\ UNCHANGED <<answer, final, lateSaves>>

(* setFinalPlacement: a standard level, or the recommended level again.    *)
SetFinalPlacement(label) ==
  /\ submitted
  /\ label = None \/ IsStandardPlacementLevel(label)
  /\ final' = label
  /\ UNCHANGED <<answer, submitted, result, lateSaves>>

NextResults ==
  \/ \E k \in Ids, o \in Options \cup {None} : SubmitAnswer(k, o)
  \/ SubmitAttempt
  \/ \E label \in Decisions \cup {None} : SetFinalPlacement(label)

ResultsSpec == InitResults /\ [][NextResults]_resultVars

-----------------------------------------------------------------------------
(* Properties.                                                             *)

SumOver(entries, field) ==
  FoldLeft(LAMBDA sum, e : sum + e[field], 0, entries)

WithStatus(review, s) == Cardinality({k \in Ids : review[k].status = s})

(* A report shows the stored score, and its buckets, beside what is        *)
(* derived from the answers again.  The two halves each agree in           *)
(* themselves: the buckets with the score, the progression, the review and *)
(* the performance by level with each other, although each walks the       *)
(* questions on its own and treats a missing answer, a missing label and a *)
(* position outside every range differently.  And the score is off the     *)
(* answers shown beside it by no more than the answers written after it    *)
(* was computed: without such a save they are the same.                    *)
ReportsAgree ==
  LET s == StudentReport
      d == AdminReport
      InRanges(S) == {k \in S : FindProgressionBand(Questions[k].order) # None}
  IN  submitted =>
        /\ s.rawScore <= s.progression.correct + Cardinality(lateSaves)
        /\ s.progression.correct <= s.rawScore + Cardinality(lateSaves)
        /\ SumOver(d.difficultyProgression, "correct") = s.rawScore
        /\ SumOver(d.topicPerformance, "correct") = s.rawScore
        /\ s.progression.correct = WithStatus(s.questionReview, "CORRECT")
        /\ s.progression.incorrect = WithStatus(s.questionReview, "INCORRECT")
        /\ s.progression.unanswered = WithStatus(s.questionReview, "UNANSWERED")
        /\ SumOver(d.courseLevels, "correct")
             = Cardinality(InRanges(CorrectAnswers(answer)))
        /\ SumOver(d.courseLevels, "total") = Cardinality(InRanges(Ids))

(* The strengths and weaknesses a student is told of rest on evidence: a   *)
(* level that is named had three answers and half of its questions, none   *)
(* with that much was more accurate than the strongest or less accurate    *)
(* than the weakest, they differ, and a level with a Strong badge is never *)
(* the weakest beside one that needs improvement.                          *)
StrengthIsEvidenced ==
  LET r == StudentReport
      shown == DetailedAnalysis(r)
      Named(l) == {n \in DOMAIN r.courseLevels : r.courseLevels[n].label = l}
      Evident  == {n \in DOMAIN r.courseLevels : HasEvidence(r.courseLevels[n])}
  IN  submitted =>
        /\ (shown.strongest = None) = (Evident = {})
        /\ shown.weakest # None => shown.weakest # shown.strongest
        /\ Named(shown.strongest) \cup Named(shown.weakest) \subseteq Evident
        /\ \A n \in Named(shown.strongest), m \in Evident :
              ~ MoreAccurate(r.courseLevels[m], r.courseLevels[n])
        /\ \A n \in Named(shown.weakest), m \in Evident :
              /\ ~ MoreAccurate(r.courseLevels[n], r.courseLevels[m])
              /\ shown.badges[n] = "Strong" => shown.badges[m] = "Strong"

(* As long as every band of the test is higher than the bands before it,   *)
(* a student who keeps the correct answers and changes anything else is    *)
(* never placed lower.  Bands that share a boundary are decided by order   *)
(* and may leave a gap; what is checked is that nothing but the number of  *)
(* correct answers moves the level.                                        *)
BandOf(a) == MatchPlacementBand(ComputeRawScore(a), Total, Bands)

BandsRise ==
  \A b, c \in Bands : \A low, high \in 0 .. Total :
     Covers(b, high, Total) /\ Covers(c, low, Total) /\ b.order < c.order
       => high <= low

LevelNeverFalls ==
  [][(BandsRise /\ CorrectAnswers(answer) \subseteq CorrectAnswers(answer')
        /\ BandOf(answer) # None /\ BandOf(answer') # None)
       => BandOf(answer).order <= BandOf(answer').order]_answer
=============================================================================
