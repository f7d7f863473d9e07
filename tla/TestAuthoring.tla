---------------------------- MODULE TestAuthoring ----------------------------
(* Authoring a placement test: the life of a test (DRAFT, PUBLISHED,       *)
(* ARCHIVED), its questions and their options, and the one test that is    *)
(* public; src/src/server/services/placement-test.service.ts and           *)
(* question.service.ts.                                                    *)
(*                                                                         *)
(* Every edit first reads the status of the test in a query of its own and *)
(* writes later, so edits of several admins, a publication and an archival *)
(* interleave between the two.  One step is one query, or one transaction; *)
(* a transaction whose statements see different snapshots (READ COMMITTED) *)
(* is a step that remembers what it saw and a step that commits.           *)
EXTENDS Integers, FiniteSets

CONSTANTS
  Admins,         \* requests of admins that overlap
  Tests,          \* ids of placement_tests
  Questions,      \* ids of questions; an id is used once
  Durations,      \* the column of a test that updatePlacementTest may set
  OptionPositions,\* the form numbers the options of a question 1..n
  MaxEdits,       \* bound: sets of options ever written
  None

ASSUME OptionAssumption == OptionPositions # {} /\ OptionPositions \subseteq Nat
ASSUME AdminsAssumption == IsFiniteSet(Admins) /\ Admins # {}
ASSUME EditsAssumption  == MaxEdits \in Nat
ASSUME QuestionsAssumption == IsFiniteSet(Questions)
ASSUME NoneIsNoId       == None \notin Tests \cup Questions \cup Durations

VARIABLES
  status,         \* placement_tests.status, or ABSENT
  duration,       \* placement_tests.durationSeconds
  public,         \* the tests with isPublicSelfService
  question,       \* the table questions
  options,        \* the table options
  edits,          \* the ids of rows of options are (edit, order)
  attempted,      \* the tests some attempt was started on
  answered,       \* the questions with a row in placement_answers
  late,           \* history: writes meant for a DRAFT that missed it
  req             \* the requests of admins

testVars     == <<status, duration, public>>
questionVars == <<question, options, edits>>
studentVars  == <<attempted, answered>>
vars == <<testVars, questionVars, studentVars, late, req>>

TestStatus     == {"DRAFT", "PUBLISHED", "ARCHIVED"}
QuestionStatus == {"DRAFT", "PUBLISHED"}

OptionRow == [question: Questions, edit: Nat \ {0}, order: OptionPositions,
              isCorrect: BOOLEAN]

(* The places a request of an admin can stand, by the query it makes next. *)
(* Those of DraftOnly have read that the test was DRAFT.                   *)
DraftOnly == {"updateTest", "countQuestions", "publishTest", "createQuestion",
              "deleteOptions", "createOptions", "publishQuestion",
              "deleteQuestion", "listQuestions", "reorder"}
Places    == DraftOnly \cup {"idle", "form", "archive", "unmark", "mark"}

Idle == [at |-> "idle", test |-> None, question |-> None, order |-> 0, seen |-> {}]

(* What a question knows of itself before it exists.                       *)
NoQuestion == [test |-> None, order |-> 0, status |-> "ABSENT"]

-----------------------------------------------------------------------------
(* Tables                                                                  *)

QuestionsOf(t) == {q \in Questions : question[q].test = t}
OptionsOf(q)   == {o \in options : o.question = q}

ExactlyOneCorrect(rows) == Cardinality({o \in rows : o.isCorrect}) = 1

(* The rows a submitted form becomes; one option is correct.               *)
NewRows(q, correct) ==
  {[question |-> q, edit |-> edits + 1, order |-> n, isCorrect |-> n = correct] :
     n \in OptionPositions}

(* The unique index on (testId, order).  (Here and below, a variant that   *)
(* precedes a definition is a plausible mistake in the code it models, and *)
(* no step uses it.)                                                       *)
OrderUnchecked(t, n) == TRUE
OrderFree(t, n) == \A q \in QuestionsOf(t) : question[q].order # n

(* The unique index on (questionId, order): the rows a request wants to    *)
(* insert meet the rows that are there when it commits.                    *)
OptionOrdersUnchecked(q, gone) == TRUE
OptionOrdersFree(q, gone) ==
  \A o \in OptionsOf(q) \ gone : o.order \notin OptionPositions

(* The foreign key of placement_answers: no row refers to the question.    *)
AnswersCascade(q) == TRUE
Unanswered(q) == q \notin answered

(* The partial unique index on isPublicSelfService.                        *)
PublicAllowed(tests) == \A t, u \in tests : t = u

-----------------------------------------------------------------------------
(* Requests                                                                *)

Finish(p) == req' = [req EXCEPT ![p] = Idle]
Advance(p, to) == req' = [req EXCEPT ![p].at = to]

(* A write that assumed a DRAFT and may not have found one.                *)
DraftWrite(p) ==
  LET t == req[p].test
  IN  late' = [late EXCEPT ![t] = IF status[t] = "DRAFT" THEN @ ELSE @ + 1]

(* A request ends without a write: a rejection, an error, a crash; an open *)
(* transaction rolls back.                                                 *)
GiveUp(p) ==
  /\ req[p].at # "idle"
  /\ Finish(p)
  /\ UNCHANGED <<testVars, questionVars, studentVars, late>>

(* The check of an operation on a test; it is DRAFT.                       *)
CheckTest(p, t, to) ==
  /\ req[p] = Idle
  /\ status[t] = "DRAFT"
  /\ req' = [req EXCEPT ![p] = [Idle EXCEPT !.at = to, !.test = t]]
  /\ UNCHANGED <<testVars, questionVars, studentVars, late>>

CheckExistence(p, q, to) ==
  LET t == question[q].test
  IN  /\ req[p] = Idle
      /\ t # None
      /\ to = "publishQuestion" => ExactlyOneCorrect(OptionsOf(q))
      /\ req' = [req EXCEPT ![p] =
                   [Idle EXCEPT !.at = to, !.test = t, !.question = q]]
      /\ UNCHANGED <<testVars, questionVars, studentVars, late>>

(* The check of an operation on a question; its test is DRAFT, and         *)
(* publishQuestion looks at the options it read along.                     *)
CheckQuestion(p, q, to) ==
  LET t == question[q].test
  IN  /\ req[p] = Idle
      /\ t # None
      /\ status[t] = "DRAFT"
      /\ to = "publishQuestion" => ExactlyOneCorrect(OptionsOf(q))
      /\ req' = [req EXCEPT ![p] =
                   [Idle EXCEPT !.at = to, !.test = t, !.question = q]]
      /\ UNCHANGED <<testVars, questionVars, studentVars, late>>

-----------------------------------------------------------------------------
(* Tests                                                                   *)

CreateTest(t, d) ==
  /\ status[t] = "ABSENT"
  /\ status' = [status EXCEPT ![t] = "DRAFT"]
  /\ duration' = [duration EXCEPT ![t] = d]
  /\ UNCHANGED <<public, questionVars, studentVars, late, req>>

(* persistImportedTest: a DRAFT test with PUBLISHED questions 1..n.        *)
ImportTest(t, d, imported, pos, correct) ==
  /\ status[t] = "ABSENT"
  /\ \A q \in imported : question[q] = NoQuestion
  /\ edits < MaxEdits
  /\ status' = [status EXCEPT ![t] = "DRAFT"]
  /\ duration' = [duration EXCEPT ![t] = d]
  /\ question' = [q \in Questions |->
                    IF q \in imported
                    THEN [test |-> t, order |-> pos[q], status |-> "PUBLISHED"]
                    ELSE question[q]]
  /\ options' = options \cup UNION {NewRows(q, correct[q]) : q \in imported}
  /\ edits' = edits + 1
  /\ UNCHANGED <<public, studentVars, late, req>>

UpdateTest(p, d) ==
  /\ req[p].at = "updateTest"
  /\ duration' = [duration EXCEPT ![req[p].test] = d]
  /\ DraftWrite(p)
  /\ Finish(p)
  /\ UNCHANGED <<status, public, questionVars, studentVars>>

CountQuestions(p) ==
  /\ req[p].at = "countQuestions"
  /\ \E q \in QuestionsOf(req[p].test) : question[q].status = "PUBLISHED"
  /\ Advance(p, "publishTest")
  /\ UNCHANGED <<testVars, questionVars, studentVars, late>>

PublishTest(p) ==
  /\ req[p].at = "publishTest"
  /\ status' = [status EXCEPT ![req[p].test] = "PUBLISHED"]
  /\ DraftWrite(p)
  /\ Finish(p)
  /\ UNCHANGED <<duration, public, questionVars, studentVars>>

CheckArchivable(p, t) ==
  /\ req[p] = Idle
  /\ status[t] \in {"DRAFT", "PUBLISHED"}
  /\ req' = [req EXCEPT ![p] = [Idle EXCEPT !.at = "archive", !.test = t]]
  /\ UNCHANGED <<testVars, questionVars, studentVars, late>>

ArchiveTest(p) ==
  /\ req[p].at = "archive"
  /\ status' = [status EXCEPT ![req[p].test] = "ARCHIVED"]
  /\ Finish(p)
  /\ UNCHANGED <<duration, public, questionVars, studentVars, late>>

CheckPublished(p, t) ==
  /\ req[p] = Idle
  /\ status[t] = "PUBLISHED"
  /\ req' = [req EXCEPT ![p] = [Idle EXCEPT !.at = "unmark", !.test = t]]
  /\ UNCHANGED <<testVars, questionVars, studentVars, late>>

(* The first statement of the transaction of setPublicSelfServiceTest: the *)
(* tests it unmarks are those it sees.                                     *)
UnmarkOthers(p) ==
  /\ req[p].at = "unmark"
  /\ req' = [req EXCEPT ![p].at = "mark", ![p].seen = public \ {req[p].test}]
  /\ UNCHANGED <<testVars, questionVars, studentVars, late>>

(* The second statement and the commit, or a unique violation.             *)
MarkPublic(p) ==
  LET marked == (public \ req[p].seen) \cup {req[p].test}
  IN  /\ req[p].at = "mark"
      /\ public' = IF PublicAllowed(marked) THEN marked ELSE public
      /\ Finish(p)
      /\ UNCHANGED <<status, duration, questionVars, studentVars, late>>

ClearPublic(t) ==
  /\ t \in public
  /\ public' = public \ {t}
  /\ UNCHANGED <<status, duration, questionVars, studentVars, late, req>>

-----------------------------------------------------------------------------
(* Questions                                                               *)

(* The page with the form for a new question; it is numbered as the last.  *)
OpenForm(p, t) ==
  /\ req[p] = Idle
  /\ status[t] = "DRAFT"
  /\ req' = [req EXCEPT ![p] = [Idle EXCEPT !.at = "form", !.test = t,
                                  !.order = Cardinality(QuestionsOf(t)) + 1]]
  /\ UNCHANGED <<testVars, questionVars, studentVars, late>>

SubmitForm(p) ==
  /\ req[p].at = "form"
  /\ status[req[p].test] = "DRAFT"
  /\ Advance(p, "createQuestion")
  /\ UNCHANGED <<testVars, questionVars, studentVars, late>>

(* A violation of the unique index is an error: GiveUp.                    *)
CreateQuestion(p, q, correct) ==
  LET r == req[p]
  IN  /\ r.at = "createQuestion"
      /\ question[q] = NoQuestion
      /\ edits < MaxEdits
      /\ OrderFree(r.test, r.order)
      /\ question' = [question EXCEPT ![q] =
                        [test |-> r.test, order |-> r.order, status |-> "DRAFT"]]
      /\ options' = options \cup NewRows(q, correct)
      /\ edits' = edits + 1
      /\ DraftWrite(p)
      /\ Finish(p)
      /\ UNCHANGED <<testVars, studentVars>>

(* The transaction of updateQuestion: deleteMany removes the rows that are *)
(* there, createMany inserts the new ones.                                 *)
DeleteOptions(p) ==
  /\ req[p].at = "deleteOptions"
  /\ req' = [req EXCEPT ![p].at = "createOptions",
                        ![p].seen = OptionsOf(req[p].question)]
  /\ UNCHANGED <<testVars, questionVars, studentVars, late>>

CreateOptions(p, correct) ==
  LET q == req[p].question
  IN  /\ req[p].at = "createOptions"
      /\ question[q].test # None
      /\ OptionOrdersFree(q, req[p].seen)
      /\ edits < MaxEdits
      /\ options' = (options \ req[p].seen) \cup NewRows(q, correct)
      /\ edits' = edits + 1
      /\ DraftWrite(p)
      /\ Finish(p)
      /\ UNCHANGED <<testVars, question, studentVars>>

PublishQuestion(p) ==
  LET q == req[p].question
  IN  /\ req[p].at = "publishQuestion"
      /\ question[q].test # None
      /\ question' = [question EXCEPT ![q].status = "PUBLISHED"]
      /\ DraftWrite(p)
      /\ Finish(p)
      /\ UNCHANGED <<testVars, options, edits, studentVars>>

(* Options go with their question; answers keep it from going.             *)
DeleteQuestion(p) ==
  LET q == req[p].question
  IN  /\ req[p].at = "deleteQuestion"
      /\ question[q].test # None
      /\ Unanswered(q)
      /\ question' = [question EXCEPT ![q] =
                        [test |-> None, order |-> 0, status |-> "DELETED"]]
      /\ options' = options \ OptionsOf(q)
      /\ DraftWrite(p)
      /\ Finish(p)
      /\ UNCHANGED <<testVars, edits, studentVars>>

(* The given ids are those of the test, or the request is rejected.        *)
ListQuestions(p) ==
  /\ req[p].at = "listQuestions"
  /\ req' = [req EXCEPT ![p].at = "reorder", ![p].seen = QuestionsOf(req[p].test)]
  /\ UNCHANGED <<testVars, questionVars, studentVars, late>>

Numberings(qs) ==
  {pos \in [qs -> 1..Cardinality(qs)] : \A q, r \in qs : pos[q] = pos[r] => q = r}

(* Both passes in one transaction: it fails if a listed question is gone,  *)
(* or if one that is not listed has a position that is given out.          *)
ReorderAllowed(t, listed) ==
  /\ \A q \in listed : question[q].test = t
  /\ \A q \in QuestionsOf(t) \ listed : question[q].order \notin 1..Cardinality(listed)

Reorder(p, pos) ==
  LET listed == req[p].seen
  IN  /\ req[p].at = "reorder"
      /\ ReorderAllowed(req[p].test, listed)
      /\ question' = [q \in Questions |->
                        IF q \in listed THEN [question[q] EXCEPT !.order = pos[q]]
                                        ELSE question[q]]
      /\ DraftWrite(p)
      /\ Finish(p)
      /\ UNCHANGED <<testVars, options, edits, studentVars>>

-----------------------------------------------------------------------------
(* Students                                                                *)

StartUnchecked(t) ==
  /\ \E q \in QuestionsOf(t) : question[q].status = "PUBLISHED"
  /\ attempted' = attempted \cup {t}
  /\ UNCHANGED <<testVars, questionVars, answered, late, req>>

(* createNewAttempt wants a PUBLISHED test with a PUBLISHED question.      *)
StartAttempt(t) ==
  /\ status[t] = "PUBLISHED"
  /\ \E q \in QuestionsOf(t) : question[q].status = "PUBLISHED"
  /\ attempted' = attempted \cup {t}
  /\ UNCHANGED <<testVars, questionVars, answered, late, req>>

(* submitAnswer accepts a question of the attempt's test.                  *)
AnswerQuestion(q) ==
  /\ question[q].test \in attempted
  /\ answered' = answered \cup {q}
  /\ UNCHANGED <<testVars, questionVars, attempted, late, req>>

-----------------------------------------------------------------------------
Init ==
  /\ status    = [t \in Tests |-> "ABSENT"]
  /\ duration  = [t \in Tests |-> None]
  /\ public    = {}
  /\ question  = [q \in Questions |-> NoQuestion]
  /\ options   = {}
  /\ edits     = 0
  /\ attempted = {}
  /\ answered  = {}
  /\ late      = [t \in Tests |-> 0]
  /\ req       = [p \in Admins |-> Idle]

Import(t) ==
  \E d \in Durations, qs \in SUBSET Questions :
    \E pos \in Numberings(qs), correct \in [qs -> OptionPositions] :
      qs # {} /\ ImportTest(t, d, qs, pos, correct)

TestStep(p) ==
  \/ \E t \in Tests : \/ CheckTest(p, t, "updateTest")
                      \/ CheckTest(p, t, "countQuestions")
                      \/ CheckArchivable(p, t)
                      \/ CheckPublished(p, t)
  \/ \E d \in Durations : UpdateTest(p, d)
  \/ CountQuestions(p) \/ PublishTest(p) \/ ArchiveTest(p)
  \/ UnmarkOthers(p) \/ MarkPublic(p)

QuestionStep(p) ==
  \/ \E t \in Tests : OpenForm(p, t) \/ CheckTest(p, t, "listQuestions")
  \/ \E q \in Questions : \/ CheckQuestion(p, q, "deleteOptions")
                          \/ CheckQuestion(p, q, "publishQuestion")
                          \/ CheckQuestion(p, q, "deleteQuestion")
  \/ SubmitForm(p)
  \/ \E q \in Questions, c \in OptionPositions : CreateQuestion(p, q, c)
  \/ DeleteOptions(p)
  \/ \E c \in OptionPositions : CreateOptions(p, c)
  \/ PublishQuestion(p) \/ DeleteQuestion(p) \/ ListQuestions(p)
  \/ \E pos \in Numberings(req[p].seen) : Reorder(p, pos)

Next ==
  \/ \E t \in Tests : \/ \E d \in Durations : CreateTest(t, d)
                      \/ Import(t)
                      \/ ClearPublic(t)
                      \/ StartAttempt(t)
  \/ \E q \in Questions : AnswerQuestion(q)
  \/ \E p \in Admins : TestStep(p) \/ QuestionStep(p) \/ GiveUp(p)

Spec == Init /\ [][Next]_vars

-----------------------------------------------------------------------------
(* Properties                                                              *)

(* The columns' types; rows of options belong to questions that exist.     *)
TypeOK ==
  /\ status \in [Tests -> TestStatus \cup {"ABSENT"}]
  /\ duration \in [Tests -> Durations \cup {None}]
  /\ \A t \in Tests : duration[t] = None <=> status[t] = "ABSENT"
  /\ public \subseteq {t \in Tests : status[t] # "ABSENT"}
  /\ question \in [Questions ->
       [test: Tests, order: Nat \ {0}, status: QuestionStatus]
         \cup [test: {None}, order: {0}, status: {"ABSENT", "DELETED"}]]
  /\ options \subseteq OptionRow
  /\ \A o \in options : question[o.question].test # None
  /\ edits \in 0..MaxEdits
  /\ attempted \subseteq Tests
  /\ answered \subseteq Questions
  /\ late \in [Tests -> Nat]
  /\ req \in [Admins ->
       [at: Places, test: Tests \cup {None}, question: Questions \cup {None},
        order: Nat, seen: SUBSET (OptionRow \cup Questions \cup Tests)]]

(* Scoring looks for the one correct option of a question: however two     *)
(* edits of it overlap, it never has two, and never none.                  *)
OneCorrectOption ==
  \A q \in Questions :
     question[q].test # None => ExactlyOneCorrect(OptionsOf(q))

(* Question.order is a sequence: no two questions of a test share a place, *)
(* whatever reorderings, deletions and new questions overlap.              *)
OrdersDiffer ==
  \A q, r \in Questions :
     /\ q # r
     /\ question[q].test # None
     /\ question[q].test = question[r].test
     => question[q].order # question[r].order

(* A deletion that passed its check while the test was DRAFT runs, it may  *)
(* be, when the test is out and students answer: the question of an answer *)
(* stays, and stays in a test somebody attempts.                           *)
AnswersKeepTheirQuestion ==
  \A q \in answered : question[q].test \in attempted

(* A test that left DRAFT is still changed by the requests that had        *)
(* checked it before, once each, the publication being one of them: fewer  *)
(* changes than overlapping requests.                                      *)
LateWritesAreBounded ==
  \A t \in Tests : late[t] < Cardinality(Admins)

(* While a test is DRAFT nobody attempts it, so nothing refers to its      *)
(* questions.                                                              *)
DraftIsUnattempted == \A t \in attempted : status[t] # "DRAFT"
=============================================================================
