------------------------ MODULE TestAuthoring_proofs ------------------------
(***************************************************************************)
(* Theorems about TestAuthoring for every finite set of overlapping        *)
(* admins and every number of tests, questions and options: what the       *)
(* unique indexes, and the checks before them, leave standing.             *)
(***************************************************************************)
EXTENDS TestAuthoring, FiniteSetTheorems, TLAPS

USE DEF vars, testVars, questionVars, studentVars

-----------------------------------------------------------------------------
(* The inductive invariant.                                                *)

Exists      == [test: Tests, order: Nat \ {0}, status: QuestionStatus]
Missing     == [test: {None}, order: {0}, status: {"ABSENT", "DELETED"}]
QuestionRow == Exists \cup Missing
Request     == [at: Places, test: Tests \cup {None}, question: Questions \cup {None},
                order: Nat, seen: SUBSET (OptionRow \cup Questions \cup Tests)]

NotOut == {"ABSENT", "DRAFT"}

TestRows ==
  /\ status \in [Tests -> TestStatus \cup {"ABSENT"}]
  /\ duration \in [Tests -> Durations \cup {None}]
  /\ \A t \in Tests : duration[t] = None <=> status[t] = "ABSENT"
  /\ public \subseteq {t \in Tests : status[t] # "ABSENT"}

QuestionRows ==
  /\ question \in [Questions -> QuestionRow]
  /\ options \subseteq OptionRow
  /\ \A o \in options : question[o.question].test # None
  /\ edits \in 0..MaxEdits
  /\ OneCorrectOption
  /\ OrdersDiffer

StudentRows ==
  /\ attempted \subseteq {t \in Tests : status[t] \notin NotOut}
  /\ answered \subseteq Questions

QuestionsLinked == \A q \in Questions :
  question[q].test # None => status[question[q].test] # "ABSENT"

(* What a request holds exists, for each place it can stand.               *)
OfQuestion == {"deleteOptions", "createOptions", "publishQuestion", "deleteQuestion"}

Linked(r) ==
  /\ r.at # "idle" => r.test \in Tests /\ status[r.test] # "ABSENT"
  /\ r.at \in OfQuestion => r.question \in Questions
  /\ r.at \in {"form", "createQuestion"} => r.order \in Nat \ {0}
  /\ r.at = "createOptions" => \A o \in r.seen : o.question = r.question
  /\ r.at = "reorder" => r.seen \subseteq Questions

RequestRows == /\ req \in [Admins -> Request]
               /\ \A p \in Admins : Linked(req[p])

(* The requests that may still write to t as if it were a DRAFT.           *)
Pending(t) == {p \in Admins : req[p].at \in DraftOnly /\ req[p].test = t}

LateRows ==
  /\ late \in [Tests -> Nat]
  /\ \A t \in Tests : status[t] \in NotOut => late[t] = 0
  /\ \A t \in Tests : status[t] \notin NotOut =>
        late[t] + Cardinality(Pending(t)) < Cardinality(Admins)

IInv == /\ TestRows /\ QuestionRows /\ QuestionsLinked /\ StudentRows
        /\ AnswersKeepTheirQuestion /\ RequestRows /\ LateRows

-----------------------------------------------------------------------------
(* Options and orders.                                                     *)

LEMMA OneIsCorrect ==
  ASSUME NEW q \in Questions, NEW c \in OptionPositions
  PROVE  ExactlyOneCorrect(NewRows(q, c))
<1> DEFINE row == [question |-> q, edit |-> edits + 1, order |-> c, isCorrect |-> TRUE]
<1>1. {o \in NewRows(q, c) : o.isCorrect} = {row}
  <2>1. ASSUME NEW o \in NewRows(q, c), o.isCorrect PROVE o = row
    <3>1. PICK n \in OptionPositions :
            o = [question |-> q, edit |-> edits + 1, order |-> n, isCorrect |-> n = c]
      BY <2>1 DEF NewRows
    <3>2. n = c
      BY <2>1, <3>1
    <3> QED
      BY <3>1, <3>2
  <2>2. row \in NewRows(q, c)
    <3>1. (c = c) = TRUE
      OBVIOUS
    <3> QED
      BY <3>1 DEF NewRows
  <2>3. row.isCorrect
    OBVIOUS
  <2> HIDE DEF row
  <2> QED
    BY <2>1, <2>2, <2>3
<1>2. Cardinality({row}) = 1
  BY FS_Singleton
<1> QED
  BY <1>1, <1>2 DEF ExactlyOneCorrect

LEMMA NewRowsType ==
  ASSUME QuestionRows, edits < MaxEdits, NEW q \in Questions, NEW c \in OptionPositions
  PROVE  /\ NewRows(q, c) \subseteq OptionRow
         /\ \A o \in NewRows(q, c) : o.question = q
         /\ edits + 1 \in 0..MaxEdits
<1>1. edits + 1 \in Nat \ {0} /\ edits + 1 \in 0..MaxEdits
  BY EditsAssumption DEF QuestionRows
<1>2. ASSUME NEW o \in NewRows(q, c) PROVE o \in OptionRow /\ o.question = q
  <2>1. PICK n \in OptionPositions :
          o = [question |-> q, edit |-> edits + 1, order |-> n, isCorrect |-> n = c]
    BY DEF NewRows
  <2>2. (n = c) \in BOOLEAN
    OBVIOUS
  <2>3. \A b \in BOOLEAN :
          [question |-> q, edit |-> edits + 1, order |-> n, isCorrect |-> b] \in OptionRow
    BY <1>1 DEF OptionRow
  <2> QED
    BY <2>1, <2>2, <2>3
<1> QED
  BY <1>1, <1>2

(* A question has a test or has no options and no order to differ.         *)
LEMMA NoRowsOfMissing ==
  ASSUME QuestionRows, NEW q \in Questions, question[q].test = None
  PROVE  OptionsOf(q) = {}
BY DEF QuestionRows, OptionsOf

LEMMA QuestionCases ==
  ASSUME QuestionRows, NEW q \in Questions
  PROVE  /\ question[q] \in QuestionRow
         /\ question[q].test # None => question[q] \in Exists
         /\ question[q].test = None => question[q] \in Missing
BY NoneIsNoId DEF QuestionRows, QuestionRow, Exists, Missing

LEMMA SameQuestions == QuestionRows /\ UNCHANGED questionVars => QuestionRows'
BY DEF QuestionRows, OneCorrectOption, OrdersDiffer, ExactlyOneCorrect, OptionsOf

-----------------------------------------------------------------------------
(* Each write to questions and options.                                    *)

LEMMA ImportRows ==
  ASSUME QuestionRows, NEW t \in Tests, \A q \in Questions : question[q].test # t,
         NEW d, NEW qs \in SUBSET Questions, NEW pos \in Numberings(qs),
         NEW correct \in [qs -> OptionPositions],
         ImportTest(t, d, qs, pos, correct)
  PROVE  QuestionRows'
<1>1. IsFiniteSet(qs) /\ Cardinality(qs) \in Nat
  BY QuestionsAssumption, FS_Subset, FS_CardinalityType
<1>2. /\ \A q \in qs : pos[q] \in Nat \ {0}
      /\ \A q, r \in qs : pos[q] = pos[r] => q = r
  BY <1>1 DEF Numberings
<1>3. t # None
  BY NoneIsNoId
<1>4. /\ \A q \in qs : question'[q] = [test |-> t, order |-> pos[q], status |-> "PUBLISHED"]
      /\ \A q \in Questions \ qs : question'[q] = question[q]
      /\ question' \in [Questions -> QuestionRow]
  <2>1. \A q \in qs : [test |-> t, order |-> pos[q], status |-> "PUBLISHED"] \in QuestionRow
    BY <1>2 DEF QuestionRow, Exists, QuestionStatus
  <2>2. \A q \in Questions : question[q] \in QuestionRow
    BY DEF QuestionRows
  <2> QED
    BY <2>1, <2>2 DEF ImportTest
<1>13. ASSUME NEW q \in qs PROVE question'[q].test = t /\ question'[q].order = pos[q]
  <2>1. question'[q] = [test |-> t, order |-> pos[q], status |-> "PUBLISHED"]
    BY <1>4
  <2> QED
    BY <2>1
<1> DEFINE new == UNION {NewRows(q, correct[q]) : q \in qs}
<1>5. /\ options' = options \cup new
      /\ edits < MaxEdits /\ edits' = edits + 1
      /\ \A q \in qs : question[q] = NoQuestion
  BY DEF ImportTest
<1>6. /\ new \subseteq OptionRow
      /\ \A o \in new : o.question \in qs
      /\ \A q \in qs : {o \in new : o.question = q} = NewRows(q, correct[q])
  BY <1>5, NewRowsType
<1>7. edits' \in 0..MaxEdits
  BY <1>5, EditsAssumption DEF QuestionRows
<1>8. \A q \in qs : OptionsOf(q) = {}
  BY <1>5, NoRowsOfMissing DEF NoQuestion
<1>9. /\ \A q \in qs : OptionsOf(q)' = NewRows(q, correct[q])
      /\ \A q \in Questions \ qs : OptionsOf(q)' = OptionsOf(q)
  BY <1>5, <1>6, <1>8 DEF OptionsOf
<1> HIDE DEF new
<1>10. OneCorrectOption'
  <2> SUFFICES ASSUME NEW q \in Questions, question'[q].test # None
               PROVE  ExactlyOneCorrect(OptionsOf(q)')
    BY DEF OneCorrectOption, ExactlyOneCorrect
  <2>1. CASE q \in qs
    BY <1>9, <2>1, OneIsCorrect
  <2>2. CASE q \notin qs
    BY <1>4, <1>9, <2>2 DEF QuestionRows, OneCorrectOption
  <2> QED
    BY <2>1, <2>2
<1>11. OrdersDiffer'
  <2> SUFFICES ASSUME NEW q \in Questions, NEW r \in Questions, q # r,
                      question'[q].test # None, question'[q].test = question'[r].test
               PROVE  question'[q].order # question'[r].order
    BY DEF OrdersDiffer
  <2>1. CASE q \in qs /\ r \in qs
    BY <1>2, <1>13, <2>1
  <2>2. CASE q \notin qs /\ r \notin qs
    BY <1>4, <2>2 DEF QuestionRows, OrdersDiffer
  <2>3. CASE q \in qs /\ r \notin qs
    BY <1>4, <1>13, <2>3
  <2>4. CASE q \notin qs /\ r \in qs
    BY <1>4, <1>13, <2>4
  <2> QED
    BY <2>1, <2>2, <2>3, <2>4
<1>12. options' \subseteq OptionRow /\ \A o \in options' : question'[o.question].test # None
  <2>1. \A o \in options : o.question \in Questions \ qs
    BY <1>5 DEF QuestionRows, OptionRow, NoQuestion
  <2>2. \A o \in options : question'[o.question].test # None
    BY <1>4, <2>1 DEF QuestionRows
  <2>3. \A o \in new : question'[o.question].test # None
    BY <1>3, <1>6, <1>13
  <2> QED
    BY <1>5, <1>6, <2>2, <2>3 DEF QuestionRows
<1> QED
  BY <1>4, <1>7, <1>10, <1>11, <1>12 DEF QuestionRows

(* One question gets a new set of options, and nobody keeps an old one.    *)
LEMMA OptionsReplaced ==
  ASSUME QuestionRows, NEW q \in Questions, NEW c \in OptionPositions,
         NEW gone, edits < MaxEdits,
         \A o \in gone : o.question = q,
         OptionOrdersFree(q, gone),
         options' = (options \ gone) \cup NewRows(q, c)
  PROVE  /\ OptionsOf(q)' = NewRows(q, c)
         /\ \A r \in Questions \ {q} : OptionsOf(r)' = OptionsOf(r)
         /\ options' \subseteq OptionRow
         /\ \A o \in options' : o \in options \/ o.question = q
<1>1. /\ NewRows(q, c) \subseteq OptionRow
      /\ \A o \in NewRows(q, c) : o.question = q
  BY NewRowsType
<1>2. \A o \in options : o.order \in OptionPositions
  BY DEF QuestionRows, OptionRow
<1>3. OptionsOf(q) \subseteq gone
  BY <1>2 DEF OptionOrdersFree, OptionsOf
<1>4. OptionsOf(q)' = NewRows(q, c)
  BY <1>1, <1>3 DEF OptionsOf
<1>5. \A r \in Questions \ {q} : OptionsOf(r)' = OptionsOf(r)
  BY <1>1 DEF OptionsOf
<1> QED
  BY <1>1, <1>4, <1>5 DEF QuestionRows

LEMMA CreateQuestionRows ==
  ASSUME QuestionRows, RequestRows, NEW p \in Admins, NEW q \in Questions,
         NEW c \in OptionPositions, CreateQuestion(p, q, c)
  PROVE  QuestionRows'
<1> DEFINE t == req[p].test
           n == req[p].order
           row == [test |-> t, order |-> n, status |-> "DRAFT"]
<1>1. t \in Tests /\ n \in Nat \ {0} /\ t # None
  BY NoneIsNoId DEF CreateQuestion, RequestRows, Linked
<1>2. /\ question[q] = NoQuestion /\ edits < MaxEdits /\ OrderFree(t, n)
      /\ question' = [question EXCEPT ![q] = row]
      /\ options' = options \cup NewRows(q, c) /\ edits' = edits + 1
  BY DEF CreateQuestion
<1> HIDE DEF t, n
<1>3. row \in QuestionRow /\ row.test = t /\ row.order = n
  BY <1>1 DEF QuestionRow, Exists, QuestionStatus
<1> HIDE DEF row
<1>4. /\ question' \in [Questions -> QuestionRow] /\ question'[q] = row
      /\ \A r \in Questions \ {q} : question'[r] = question[r]
  BY <1>2, <1>3 DEF QuestionRows
<1>5. question[q].test = None
  BY <1>2 DEF NoQuestion
<1>6. OptionsOf(q) = {}
  BY <1>5, NoRowsOfMissing
<1>7. /\ OptionsOf(q)' = NewRows(q, c)
      /\ \A r \in Questions \ {q} : OptionsOf(r)' = OptionsOf(r)
      /\ options' \subseteq OptionRow
      /\ \A o \in options' : o \in options \/ o.question = q
  <2>1. OptionOrdersFree(q, {})
    BY <1>6 DEF OptionOrdersFree
  <2>2. options' = (options \ {}) \cup NewRows(q, c)
    BY <1>2
  <2> QED
    BY <1>2, <2>1, <2>2, OptionsReplaced
<1>8. \A o \in options' : question'[o.question].test # None
  <2>1. \A o \in options : o.question \in Questions \ {q}
    BY <1>5 DEF QuestionRows, OptionRow
  <2>2. \A o \in options : question'[o.question].test # None
    BY <1>4, <2>1 DEF QuestionRows
  <2> QED
    BY <1>1, <1>3, <1>4, <1>7, <2>2
<1>9. OneCorrectOption'
  <2> SUFFICES ASSUME NEW r \in Questions, question'[r].test # None
               PROVE  ExactlyOneCorrect(OptionsOf(r)')
    BY DEF OneCorrectOption, ExactlyOneCorrect
  <2>1. CASE r = q
    BY <1>7, <2>1, OneIsCorrect
  <2>2. CASE r # q
    BY <1>4, <1>7, <2>2 DEF QuestionRows, OneCorrectOption
  <2> QED
    BY <2>1, <2>2
<1>10. OrdersDiffer'
  <2>1. ASSUME NEW r \in Questions \ {q}, question'[r].test = t
        PROVE  question'[r].order # n
    <3>1. question'[r] = question[r]
      BY <1>4
    <3> QED
      BY <1>2, <2>1, <3>1 DEF OrderFree, QuestionsOf
  <2> SUFFICES ASSUME NEW r \in Questions, NEW s \in Questions, r # s,
                      question'[r].test # None, question'[r].test = question'[s].test
               PROVE  question'[r].order # question'[s].order
    BY DEF OrdersDiffer
  <2>2. CASE r # q /\ s # q
    BY <1>4, <2>2 DEF QuestionRows, OrdersDiffer
  <2>3. CASE r = q \/ s = q
    BY <1>3, <1>4, <2>1, <2>3
  <2> QED
    BY <2>2, <2>3
<1>11. edits' \in 0..MaxEdits
  BY <1>2, EditsAssumption DEF QuestionRows
<1> QED
  BY <1>4, <1>7, <1>8, <1>9, <1>10, <1>11 DEF QuestionRows

LEMMA CreateOptionsRows ==
  ASSUME QuestionRows, RequestRows, NEW p \in Admins,
         NEW c \in OptionPositions, CreateOptions(p, c)
  PROVE  QuestionRows'
<1>0. PICK q \in Questions, gone \in SUBSET (OptionRow \cup Questions \cup Tests) :
         q = req[p].question /\ gone = req[p].seen
  BY DEF CreateOptions, RequestRows, Request, Linked, OfQuestion
<1>1. \A o \in gone : o.question = q
  BY <1>0 DEF CreateOptions, RequestRows, Linked, OfQuestion
<1>2. /\ question[q].test # None /\ edits < MaxEdits /\ OptionOrdersFree(q, gone)
      /\ options' = (options \ gone) \cup NewRows(q, c) /\ edits' = edits + 1
      /\ question' = question
  BY <1>0 DEF CreateOptions
<1>3. /\ OptionsOf(q)' = NewRows(q, c)
      /\ \A r \in Questions \ {q} : OptionsOf(r)' = OptionsOf(r)
      /\ options' \subseteq OptionRow
      /\ \A o \in options' : o \in options \/ o.question = q
  BY <1>1, <1>2, OptionsReplaced
<1>4. OneCorrectOption'
  <2> SUFFICES ASSUME NEW r \in Questions, question[r].test # None
               PROVE  ExactlyOneCorrect(OptionsOf(r)')
    BY <1>2 DEF OneCorrectOption, ExactlyOneCorrect
  <2>1. CASE r = q
    BY <1>1, <1>3, <2>1, OneIsCorrect
  <2>2. CASE r # q
    BY <1>3, <2>2 DEF QuestionRows, OneCorrectOption
  <2> QED
    BY <2>1, <2>2
<1>5. edits' \in 0..MaxEdits
  BY <1>2, EditsAssumption DEF QuestionRows
<1>6. OrdersDiffer'
  BY <1>2 DEF QuestionRows, OrdersDiffer
<1> QED
  BY <1>2, <1>3, <1>4, <1>5, <1>6 DEF QuestionRows

LEMMA PublishQuestionRows ==
  ASSUME QuestionRows, RequestRows, NEW p \in Admins, PublishQuestion(p)
  PROVE  QuestionRows'
<1> DEFINE q == req[p].question
<1>1. q \in Questions
  BY DEF PublishQuestion, RequestRows, Linked, OfQuestion
<1>2. /\ question[q].test # None
      /\ question' = [question EXCEPT ![q].status = "PUBLISHED"]
      /\ UNCHANGED <<options, edits>>
  BY DEF PublishQuestion
<1> HIDE DEF q
<1>3. question[q] \in Exists
  BY <1>1, <1>2, QuestionCases
<1> DEFINE row == [question[q] EXCEPT !.status = "PUBLISHED"]
<1>4. row \in QuestionRow /\ row.test = question[q].test /\ row.order = question[q].order
  BY <1>3 DEF Exists, QuestionRow, QuestionStatus
<1>5. question' = [question EXCEPT ![q] = row]
  BY <1>2
<1> HIDE DEF row
<1>6. /\ question' \in [Questions -> QuestionRow]
      /\ \A r \in Questions : /\ question'[r].test = question[r].test
                              /\ question'[r].order = question[r].order
  BY <1>1, <1>4, <1>5 DEF QuestionRows
<1>7. OneCorrectOption'
  BY <1>2, <1>6 DEF QuestionRows, OneCorrectOption, ExactlyOneCorrect, OptionsOf
<1>8. OrdersDiffer'
  BY <1>6 DEF QuestionRows, OrdersDiffer
<1>9. \A o \in options' : question'[o.question].test # None
  BY <1>2, <1>6 DEF QuestionRows, OptionRow
<1> QED
  BY <1>2, <1>6, <1>7, <1>8, <1>9 DEF QuestionRows

LEMMA DeleteQuestionRows ==
  ASSUME QuestionRows, RequestRows, NEW p \in Admins, DeleteQuestion(p)
  PROVE  QuestionRows'
<1> DEFINE q == req[p].question
           row == [test |-> None, order |-> 0, status |-> "DELETED"]
<1>1. q \in Questions
  BY DEF DeleteQuestion, RequestRows, Linked, OfQuestion
<1>2. /\ question' = [question EXCEPT ![q] = row]
      /\ options' = options \ OptionsOf(q) /\ edits' = edits
  BY DEF DeleteQuestion
<1> HIDE DEF q
<1>3. row \in QuestionRow /\ row.test = None
  BY DEF QuestionRow, Missing
<1> HIDE DEF row
<1>4. /\ question' \in [Questions -> QuestionRow] /\ question'[q].test = None
      /\ \A r \in Questions \ {q} : question'[r] = question[r]
  BY <1>1, <1>2, <1>3 DEF QuestionRows
<1>5. \A r \in Questions \ {q} : OptionsOf(r)' = OptionsOf(r)
  BY <1>2 DEF OptionsOf
<1>6. OneCorrectOption'
  <2> SUFFICES ASSUME NEW r \in Questions, question'[r].test # None
               PROVE  ExactlyOneCorrect(OptionsOf(r)')
    BY DEF OneCorrectOption, ExactlyOneCorrect
  <2>1. r \in Questions \ {q}
    BY <1>4
  <2> QED
    BY <1>4, <1>5, <2>1 DEF QuestionRows, OneCorrectOption
<1>7. OrdersDiffer'
  <2> SUFFICES ASSUME NEW r \in Questions, NEW s \in Questions, r # s,
                      question'[r].test # None, question'[r].test = question'[s].test
               PROVE  question'[r].order # question'[s].order
    BY DEF OrdersDiffer
  <2>1. r \in Questions \ {q} /\ s \in Questions \ {q}
    BY <1>4
  <2> QED
    BY <1>4, <2>1 DEF QuestionRows, OrdersDiffer
<1>8. \A o \in options' : question'[o.question].test # None
  <2>1. \A o \in options' : o \in options /\ o.question \in Questions \ {q}
    BY <1>2 DEF OptionsOf, QuestionRows, OptionRow
  <2> QED
    BY <1>4, <2>1 DEF QuestionRows
<1> QED
  BY <1>2, <1>4, <1>6, <1>7, <1>8 DEF QuestionRows

LEMMA ReorderRows ==
  ASSUME QuestionRows, RequestRows, NEW p \in Admins,
         NEW pos \in Numberings(req[p].seen), Reorder(p, pos)
  PROVE  QuestionRows'
<1> DEFINE listed == req[p].seen
           t == req[p].test
<1>1. t \in Tests /\ listed \subseteq Questions
  BY DEF Reorder, RequestRows, Linked
<1>2. /\ \A q \in listed : question[q].test = t
      /\ \A q \in QuestionsOf(t) \ listed : question[q].order \notin 1..Cardinality(listed)
      /\ question' = [q \in Questions |->
                        IF q \in listed THEN [question[q] EXCEPT !.order = pos[q]]
                                        ELSE question[q]]
      /\ UNCHANGED <<options, edits>>
  BY DEF Reorder, ReorderAllowed
<1>3. /\ \A q \in listed : pos[q] \in 1..Cardinality(listed)
      /\ \A q, r \in listed : pos[q] = pos[r] => q = r
  BY DEF Numberings
<1> HIDE DEF listed, t
<1>4. Cardinality(listed) \in Nat
  BY <1>1, QuestionsAssumption, FS_Subset, FS_CardinalityType
<1>5. t # None
  BY <1>1, NoneIsNoId
<1>6. ASSUME NEW q \in listed
      PROVE  /\ question'[q] \in QuestionRow
             /\ question'[q].test = t /\ question'[q].order = pos[q]
  <2>1. question[q] \in Exists
    BY <1>1, <1>2, <1>5, QuestionCases
  <2>2. question'[q] = [question[q] EXCEPT !.order = pos[q]]
    BY <1>1, <1>2
  <2>3. pos[q] \in Nat \ {0}
    BY <1>3, <1>4
  <2> QED
    BY <1>2, <2>1, <2>2, <2>3 DEF Exists, QuestionRow
<1>7. \A q \in Questions \ listed : question'[q] = question[q]
  BY <1>2
<1>8. question' \in [Questions -> QuestionRow]
  <2>1. \A q \in Questions : question'[q] \in QuestionRow
    BY <1>6, <1>7, QuestionCases
  <2> QED
    BY <1>2, <2>1
<1>9. \A q \in Questions : question'[q].test = question[q].test
  BY <1>2, <1>6, <1>7
<1>10. OneCorrectOption'
  BY <1>2, <1>9 DEF QuestionRows, OneCorrectOption, ExactlyOneCorrect, OptionsOf
<1>11. OrdersDiffer'
  <2>1. ASSUME NEW q \in listed, NEW r \in Questions \ listed, question[r].test = t
        PROVE  question'[q].order # question'[r].order
    <3>1. question[r].order \notin 1..Cardinality(listed)
      BY <1>2, <2>1 DEF QuestionsOf
    <3> QED
      BY <1>3, <1>6, <1>7, <3>1
  <2> SUFFICES ASSUME NEW q \in Questions, NEW r \in Questions, q # r,
                      question[q].test # None, question[q].test = question[r].test
               PROVE  question'[q].order # question'[r].order
    BY <1>9 DEF OrdersDiffer
  <2>2. CASE q \in listed /\ r \in listed
    BY <1>3, <1>6, <2>2
  <2>3. CASE q \notin listed /\ r \notin listed
    BY <1>7, <2>3 DEF QuestionRows, OrdersDiffer
  <2>4. CASE q \in listed /\ r \notin listed
    BY <1>2, <2>1, <2>4
  <2>5. CASE q \notin listed /\ r \in listed
    BY <1>2, <2>1, <2>5
  <2> QED
    BY <2>2, <2>3, <2>4, <2>5
<1>12. \A o \in options' : question'[o.question].test # None
  BY <1>2, <1>9 DEF QuestionRows, OptionRow
<1> QED
  BY <1>2, <1>8, <1>10, <1>11, <1>12 DEF QuestionRows

-----------------------------------------------------------------------------
(* Steps that only read: a request moves, and comes to hold what is there. *)

Rows == <<testVars, questionVars, studentVars, late>>

(* A request takes the place r: it may write to a DRAFT only if it might   *)
(* before, or has just read that the test is one.                          *)
Moves(p, r) ==
  /\ req' = [req EXCEPT ![p] = r]
  /\ r.at \in DraftOnly => \/ status[r.test] = "DRAFT"
                           \/ req[p].at \in DraftOnly /\ req[p].test = r.test

Reads(p) ==
  \/ GiveUp(p)
  \/ \E t \in Tests : \/ CheckTest(p, t, "updateTest") \/ CheckTest(p, t, "countQuestions")
                      \/ CheckTest(p, t, "listQuestions")
                      \/ CheckArchivable(p, t) \/ CheckPublished(p, t) \/ OpenForm(p, t)
  \/ \E q \in Questions : \/ CheckQuestion(p, q, "deleteOptions")
                          \/ CheckQuestion(p, q, "publishQuestion")
                          \/ CheckQuestion(p, q, "deleteQuestion")
  \/ CountQuestions(p) \/ SubmitForm(p) \/ UnmarkOthers(p)
  \/ DeleteOptions(p) \/ ListQuestions(p)

LEMMA IdleRow == Idle \in Request /\ Linked(Idle) /\ Idle.at = "idle"
BY DEF Idle, Request, Places, Linked, OfQuestion

LEMMA CheckTestReads ==
  ASSUME TestRows, RequestRows, NEW p \in Admins, NEW t \in Tests,
         NEW to \in {"updateTest", "countQuestions", "listQuestions"}, CheckTest(p, t, to)
  PROVE  \E r \in Request : Linked(r) /\ Moves(p, r)
<1> DEFINE r == [Idle EXCEPT !.at = to, !.test = t]
<1>1. r \in Request /\ r.at = to /\ r.test = t
  BY DEF Idle, Request, Places, DraftOnly
<1>2. req' = [req EXCEPT ![p] = r] /\ status[t] = "DRAFT"
  BY DEF CheckTest
<1> HIDE DEF r
<1>3. Linked(r)
  BY <1>1, <1>2 DEF Linked, OfQuestion
<1> QED
  BY <1>1, <1>2, <1>3 DEF Moves

LEMMA CheckQuestionReads ==
  ASSUME TestRows, QuestionRows, RequestRows, NEW p \in Admins, NEW q \in Questions,
         NEW to \in {"deleteOptions", "publishQuestion", "deleteQuestion"},
         CheckQuestion(p, q, to)
  PROVE  \E r \in Request : Linked(r) /\ Moves(p, r)
<1> DEFINE t == question[q].test
           r == [Idle EXCEPT !.at = to, !.test = t, !.question = q]
<1>1. t \in Tests /\ status[t] = "DRAFT" /\ req' = [req EXCEPT ![p] = r]
  BY QuestionCases DEF CheckQuestion, Exists
<1> HIDE DEF t
<1>2. r \in Request /\ r.at = to /\ r.test = t /\ r.question = q
  BY <1>1 DEF Idle, Request, Places, DraftOnly
<1> HIDE DEF r
<1>3. Linked(r)
  BY <1>1, <1>2 DEF Linked
<1> QED
  BY <1>1, <1>2, <1>3 DEF Moves

LEMMA CheckLifeReads ==
  ASSUME TestRows, RequestRows, NEW p \in Admins, NEW t \in Tests,
         CheckArchivable(p, t) \/ CheckPublished(p, t)
  PROVE  \E r \in Request : Linked(r) /\ Moves(p, r)
<1> SUFFICES ASSUME NEW to \in {"archive", "unmark"}, status[t] # "ABSENT",
                    req' = [req EXCEPT ![p] = [Idle EXCEPT !.at = to, !.test = t]]
             PROVE  \E r \in Request : Linked(r) /\ Moves(p, r)
  BY DEF CheckArchivable, CheckPublished
<1> DEFINE r == [Idle EXCEPT !.at = to, !.test = t]
<1>1. r \in Request /\ r.at = to /\ r.test = t /\ req' = [req EXCEPT ![p] = r]
  BY DEF Idle, Request, Places
<1> HIDE DEF r
<1>2. Linked(r) /\ r.at \notin DraftOnly
  BY <1>1 DEF Linked, OfQuestion, DraftOnly
<1> QED
  BY <1>1, <1>2 DEF Moves

LEMMA OpenFormReads ==
  ASSUME TestRows, RequestRows, NEW p \in Admins, NEW t \in Tests, OpenForm(p, t)
  PROVE  \E r \in Request : Linked(r) /\ Moves(p, r)
<1> DEFINE n == Cardinality(QuestionsOf(t)) + 1
           r == [Idle EXCEPT !.at = "form", !.test = t, !.order = n]
<1>1. n \in Nat \ {0}
  <2>1. QuestionsOf(t) \subseteq Questions
    BY DEF QuestionsOf
  <2>2. Cardinality(QuestionsOf(t)) \in Nat
    BY <2>1, QuestionsAssumption, FS_Subset, FS_CardinalityType
  <2> QED
    BY <2>2
<1>2. req' = [req EXCEPT ![p] = r] /\ status[t] = "DRAFT"
  BY DEF OpenForm
<1> HIDE DEF n
<1>3. r \in Request /\ r.at = "form" /\ r.test = t /\ r.order = n
  BY <1>1 DEF Idle, Request, Places
<1> HIDE DEF r
<1>4. Linked(r) /\ r.at \notin DraftOnly
  BY <1>1, <1>2, <1>3 DEF Linked, OfQuestion, DraftOnly
<1> QED
  BY <1>2, <1>3, <1>4 DEF Moves

(* A request that goes on with what it holds.                              *)
LEMMA GoesOn ==
  ASSUME RequestRows, NEW p \in Admins, NEW to \in Places,
         NEW seen \in SUBSET (OptionRow \cup Questions \cup Tests),
         req[p].at # "idle",
         to \in OfQuestion => req[p].at \in OfQuestion,
         to \in {"form", "createQuestion"} => req[p].at \in {"form", "createQuestion"},
         to = "createOptions" => \A o \in seen : o.question = req[p].question,
         to = "reorder" => seen \subseteq Questions,
         to \in DraftOnly => req[p].at \in DraftOnly \/ status[req[p].test] = "DRAFT",
         req' = [req EXCEPT ![p].at = to, ![p].seen = seen]
  PROVE  \E r \in Request : Linked(r) /\ Moves(p, r)
<1> DEFINE r == [req[p] EXCEPT !.at = to, !.seen = seen]
<1>1. req[p] \in Request /\ Linked(req[p])
  BY DEF RequestRows
<1>2. /\ r \in Request /\ r.at = to /\ r.test = req[p].test
      /\ r.question = req[p].question /\ r.order = req[p].order /\ r.seen = seen
  BY <1>1 DEF Request
<1>3. req' = [req EXCEPT ![p] = r]
  OBVIOUS
<1> HIDE DEF r
<1>4. Linked(r)
  BY <1>1, <1>2 DEF Linked
<1> QED
  BY <1>2, <1>3, <1>4 DEF Moves

LEMMA AdvanceIs ==
  ASSUME RequestRows, NEW p \in Admins, NEW to, Advance(p, to)
  PROVE  req' = [req EXCEPT ![p].at = to, ![p].seen = req[p].seen]
<1>1. req[p] \in Request
  BY DEF RequestRows
<1>2. [req[p] EXCEPT !.at = to] = [req[p] EXCEPT !.at = to, !.seen = req[p].seen]
  BY <1>1 DEF Request
<1> QED
  BY <1>2 DEF Advance

LEMMA ReadsMove ==
  ASSUME TestRows, QuestionRows, RequestRows, NEW p \in Admins, Reads(p)
  PROVE  UNCHANGED Rows /\ \E r \in Request : Linked(r) /\ Moves(p, r)
<1>1. UNCHANGED Rows
  BY DEF Reads, Rows, GiveUp, CheckTest, CheckArchivable, CheckPublished, OpenForm,
     CheckQuestion, CountQuestions, SubmitForm, UnmarkOthers, DeleteOptions, ListQuestions
<1>2. req[p] \in Request /\ req[p].seen \in SUBSET (OptionRow \cup Questions \cup Tests)
  BY DEF RequestRows, Request
<1>3. CASE GiveUp(p)
  <2>1. Idle.at \notin DraftOnly
    BY IdleRow DEF DraftOnly
  <2>2. Moves(p, Idle)
    BY <1>3, <2>1 DEF GiveUp, Finish, Moves
  <2> QED
    BY <1>1, <2>2, IdleRow DEF Moves
<1>4. ASSUME NEW t \in Tests,
             \/ CheckTest(p, t, "updateTest") \/ CheckTest(p, t, "countQuestions")
             \/ CheckTest(p, t, "listQuestions")
             \/ CheckArchivable(p, t) \/ CheckPublished(p, t) \/ OpenForm(p, t)
      PROVE  \E r \in Request : Linked(r) /\ Moves(p, r)
  BY <1>4, CheckTestReads, CheckLifeReads, OpenFormReads
<1>5. ASSUME NEW q \in Questions,
             \/ CheckQuestion(p, q, "deleteOptions")
             \/ CheckQuestion(p, q, "publishQuestion")
             \/ CheckQuestion(p, q, "deleteQuestion")
      PROVE  \E r \in Request : Linked(r) /\ Moves(p, r)
  BY <1>5, CheckQuestionReads
<1>6. CASE CountQuestions(p)
  <2>1. /\ req' = [req EXCEPT ![p].at = "publishTest", ![p].seen = req[p].seen]
        /\ req[p].at = "countQuestions"
    BY <1>6, AdvanceIs DEF CountQuestions
  <2>2. /\ "publishTest" \in Places \ OfQuestion
        /\ req[p].at # "idle" /\ req[p].at \in DraftOnly
    BY <2>1 DEF Places, DraftOnly, OfQuestion
  <2> QED
    BY <1>1, <1>2, <2>1, <2>2, GoesOn DEF Moves
<1>7. CASE SubmitForm(p)
  <2>1. /\ req' = [req EXCEPT ![p].at = "createQuestion", ![p].seen = req[p].seen]
        /\ req[p].at = "form" /\ status[req[p].test] = "DRAFT"
    BY <1>7, AdvanceIs DEF SubmitForm
  <2>2. "createQuestion" \in Places \ OfQuestion /\ req[p].at # "idle"
    BY <2>1 DEF Places, DraftOnly, OfQuestion
  <2> QED
    BY <1>1, <1>2, <2>1, <2>2, GoesOn DEF Moves
<1>8. CASE UnmarkOthers(p)
  <2>1. public \ {req[p].test} \in SUBSET (OptionRow \cup Questions \cup Tests)
    BY DEF TestRows
  <2>2. /\ req[p].at = "unmark" /\ req[p].at # "idle"
        /\ req' = [req EXCEPT ![p].at = "mark", ![p].seen = public \ {req[p].test}]
    BY <1>8 DEF UnmarkOthers
  <2>3. "mark" \in Places \ (OfQuestion \cup DraftOnly)
    BY DEF Places, DraftOnly, OfQuestion
  <2> QED
    BY <1>1, <2>1, <2>2, <2>3, GoesOn DEF Moves
<1>9. CASE DeleteOptions(p)
  <2>1. /\ OptionsOf(req[p].question) \in SUBSET (OptionRow \cup Questions \cup Tests)
        /\ \A o \in OptionsOf(req[p].question) : o.question = req[p].question
    BY DEF QuestionRows, OptionsOf
  <2>2. /\ req[p].at = "deleteOptions" /\ req[p].at # "idle"
        /\ req' = [req EXCEPT ![p].at = "createOptions",
                              ![p].seen = OptionsOf(req[p].question)]
    BY <1>9 DEF DeleteOptions
  <2>3. /\ "createOptions" \in Places
        /\ req[p].at \in DraftOnly /\ req[p].at \in OfQuestion
    BY <2>2 DEF Places, DraftOnly, OfQuestion
  <2> QED
    BY <1>1, <2>1, <2>2, <2>3, GoesOn DEF Moves
<1>10. CASE ListQuestions(p)
  <2>1. QuestionsOf(req[p].test) \subseteq Questions
    BY DEF QuestionsOf
  <2>2. /\ req[p].at = "listQuestions" /\ req[p].at # "idle"
        /\ req' = [req EXCEPT ![p].at = "reorder",
                              ![p].seen = QuestionsOf(req[p].test)]
    BY <1>10 DEF ListQuestions
  <2>3. /\ "reorder" \in Places \ OfQuestion /\ req[p].at \in DraftOnly
        /\ QuestionsOf(req[p].test) \in SUBSET (OptionRow \cup Questions \cup Tests)
    BY <2>1, <2>2 DEF Places, DraftOnly, OfQuestion
  <2> QED
    BY <1>1, <2>1, <2>2, <2>3, GoesOn DEF Moves
<1> QED
  BY <1>1, <1>3, <1>4, <1>5, <1>6, <1>7, <1>8, <1>9, <1>10 DEF Reads

-----------------------------------------------------------------------------
(* What every step leaves as it is: a test that is there stays, and one    *)
(* that has left DRAFT does not come back to it.                           *)
Onward == \A t \in Tests : /\ status[t] # "ABSENT" => status'[t] # "ABSENT"
                           /\ status[t] \notin NotOut => status'[t] \notin NotOut

LEMMA LinkedOn ==
  ASSUME Onward, NEW r \in Request, Linked(r)
  PROVE  Linked(r)'
BY DEF Onward, Linked

(* A request takes a place that is linked, the others keep theirs.         *)
LEMMA RequestsMove ==
  ASSUME RequestRows, Onward, NEW p \in Admins, NEW r \in Request, Linked(r),
         req' = [req EXCEPT ![p] = r]
  PROVE  RequestRows'
<1>1. req' \in [Admins -> Request]
  BY DEF RequestRows
<1>2. ASSUME NEW x \in Admins PROVE Linked(req[x])'
  <2>1. PICK s \in Request : s = req'[x] /\ Linked(s)
    BY DEF RequestRows
  <2>2. Linked(s)'
    BY <2>1, LinkedOn
  <2> QED
    BY <2>1, <2>2 DEF Linked
<1> QED
  BY <1>1, <1>2 DEF RequestRows

LEMMA SameRequests ==
  ASSUME RequestRows, Onward, UNCHANGED req
  PROVE  RequestRows'
<1>1. ASSUME NEW x \in Admins PROVE Linked(req[x])'
  <2>1. PICK s \in Request : s = req[x] /\ Linked(s)
    BY DEF RequestRows
  <2>2. Linked(s)'
    BY <2>1, LinkedOn
  <2> QED
    BY <2>1, <2>2 DEF Linked
<1> QED
  BY <1>1 DEF RequestRows

LEMMA SameStudents ==
  ASSUME StudentRows, Onward, UNCHANGED studentVars
  PROVE  StudentRows'
BY DEF StudentRows, Onward

LEMMA PendingFinite ==
  ASSUME NEW t \in Tests
  PROVE  /\ IsFiniteSet(Pending(t)) /\ Cardinality(Pending(t)) \in Nat
         /\ IsFiniteSet(Admins) /\ Cardinality(Admins) \in Nat
BY AdminsAssumption, FS_Subset, FS_CardinalityType DEF Pending

(* Fewer requests pend after a step that adds none.                        *)
LEMMA PendingShrinks ==
  ASSUME NEW t \in Tests, Pending(t)' \subseteq Pending(t)
  PROVE  /\ Cardinality(Pending(t)') <= Cardinality(Pending(t))
         /\ Cardinality(Pending(t)') \in Nat
BY PendingFinite, FS_Subset, FS_CardinalityType

(* ... and one fewer after a step that ends one of them.                   *)
LEMMA PendingLoses ==
  ASSUME NEW t \in Tests, NEW p \in Pending(t), Pending(t)' \subseteq Pending(t) \ {p}
  PROVE  /\ Cardinality(Pending(t)') + 1 <= Cardinality(Pending(t))
         /\ Cardinality(Pending(t)') \in Nat
<1>1. IsFiniteSet(Pending(t)) /\ Cardinality(Pending(t)) \in Nat
  BY PendingFinite
<1>2. Cardinality(Pending(t) \ {p}) = Cardinality(Pending(t)) - 1
      /\ IsFiniteSet(Pending(t) \ {p})
  BY <1>1, FS_RemoveElement
<1>3. /\ Cardinality(Pending(t)') <= Cardinality(Pending(t) \ {p})
      /\ Cardinality(Pending(t)') \in Nat
  BY <1>2, FS_Subset, FS_CardinalityType
<1> QED
  BY <1>1, <1>2, <1>3

(* ... and not everyone while one of the requests is elsewhere.            *)
LEMMA NotAllPend ==
  ASSUME NEW t \in Tests, NEW p \in Admins, p \notin Pending(t)'
  PROVE  /\ Cardinality(Pending(t)') < Cardinality(Admins)
         /\ Cardinality(Pending(t)') \in Nat
<1>1. Pending(t)' \subseteq Admins \ {p}
  BY DEF Pending
<1>2. /\ IsFiniteSet(Admins \ {p})
      /\ Cardinality(Admins \ {p}) = Cardinality(Admins) - 1
      /\ Cardinality(Admins) \in Nat
  BY AdminsAssumption, FS_RemoveElement, FS_CardinalityType
<1>3. /\ Cardinality(Pending(t)') <= Cardinality(Admins \ {p})
      /\ Cardinality(Pending(t)') \in Nat
  BY <1>1, <1>2, FS_Subset, FS_CardinalityType
<1> QED
  BY <1>2, <1>3

(* Nobody new pends for a test that is out, unless it is just leaving.     *)
LEMMA LateHolds ==
  ASSUME LateRows, Onward, UNCHANGED late,
         \A t \in Tests : status'[t] \in NotOut => status[t] \in NotOut,
         \A t \in Tests : status[t] \notin NotOut => Pending(t)' \subseteq Pending(t),
         \A t \in Tests : status[t] \in NotOut /\ status'[t] \notin NotOut
                            => \E p \in Admins : p \notin Pending(t)'
  PROVE  LateRows'
<1> SUFFICES ASSUME NEW t \in Tests, status'[t] \notin NotOut
             PROVE  late[t] + Cardinality(Pending(t)') < Cardinality(Admins)
  BY DEF LateRows, Pending
<1>1. late[t] \in Nat /\ Cardinality(Admins) \in Nat /\ Cardinality(Pending(t)) \in Nat
  BY PendingFinite DEF LateRows
<1>2. CASE status[t] \notin NotOut
  <2>1. late[t] + Cardinality(Pending(t)) < Cardinality(Admins)
    BY <1>2 DEF LateRows
  <2>2. Cardinality(Pending(t)') <= Cardinality(Pending(t))
        /\ Cardinality(Pending(t)') \in Nat
    BY <1>2, PendingShrinks
  <2> QED
    BY <1>1, <2>1, <2>2
<1>3. CASE status[t] \in NotOut
  <2>1. late[t] = 0
    BY <1>3 DEF LateRows
  <2>2. Cardinality(Pending(t)') < Cardinality(Admins)
        /\ Cardinality(Pending(t)') \in Nat
    BY <1>3, NotAllPend
  <2> QED
    BY <1>1, <2>1, <2>2
<1> QED
  BY <1>2, <1>3

(* A write that assumed a DRAFT ends its request: late, or in time.        *)
LEMMA LateWrites ==
  ASSUME TestRows, RequestRows, LateRows, NEW p \in Admins,
         req[p].at \in DraftOnly, DraftWrite(p), Finish(p),
         status' = status \/ status' = [status EXCEPT ![req[p].test] = "PUBLISHED"]
  PROVE  LateRows'
<1>1. PICK t \in Tests : t = req[p].test /\ status[t] # "ABSENT"
  BY DEF RequestRows, Linked, DraftOnly
<1>2. p \in Pending(t)
  BY <1>1 DEF Pending
<1>3. \A u \in Tests : Pending(u)' \subseteq Pending(u) \ {p}
  BY IdleRow DEF Finish, Pending, RequestRows, DraftOnly
<1>4. /\ late' = [late EXCEPT ![t] = IF status[t] = "DRAFT" THEN @ ELSE @ + 1]
      /\ status' = status \/ status' = [status EXCEPT ![t] = "PUBLISHED"]
  BY <1>1 DEF DraftWrite
<1>5. late' \in [Tests -> Nat]
  BY <1>4 DEF LateRows
<1>6. ASSUME NEW u \in Tests
      PROVE  /\ status'[u] \in NotOut => late'[u] = 0
             /\ status'[u] \notin NotOut
                  => late'[u] + Cardinality(Pending(u)') < Cardinality(Admins)
  <2>1. /\ late[u] \in Nat /\ Cardinality(Admins) \in Nat
        /\ Cardinality(Pending(u)) \in Nat
    BY PendingFinite DEF LateRows
  <2>2. CASE u # t
    <3>1. late'[u] = late[u] /\ status'[u] = status[u]
      BY <1>4, <2>2 DEF LateRows, TestRows
    <3>2. Cardinality(Pending(u)') <= Cardinality(Pending(u))
          /\ Cardinality(Pending(u)') \in Nat
      BY <1>3, PendingShrinks
    <3>3. status[u] \notin NotOut
            => late[u] + Cardinality(Pending(u)) < Cardinality(Admins)
      BY DEF LateRows
    <3> QED
      BY <2>1, <3>1, <3>2, <3>3 DEF LateRows
  <2>3. CASE u = t /\ status[t] = "DRAFT"
    <3>1. late'[u] = 0
      BY <1>4, <2>3 DEF LateRows, NotOut
    <3>2. Cardinality(Pending(u)') < Cardinality(Admins)
          /\ Cardinality(Pending(u)') \in Nat
      BY <1>3, NotAllPend
    <3> QED
      BY <2>1, <3>1, <3>2
  <2>4. CASE u = t /\ status[t] # "DRAFT"
    <3>1. late'[u] = late[u] + 1
      BY <1>4, <2>4 DEF LateRows
    <3>2. Cardinality(Pending(u)') + 1 <= Cardinality(Pending(u))
          /\ Cardinality(Pending(u)') \in Nat
      BY <1>2, <1>3, <2>4, PendingLoses
    <3>3. late[u] + Cardinality(Pending(u)) < Cardinality(Admins)
      BY <1>1, <2>4 DEF LateRows, NotOut
    <3>4. status'[u] \notin NotOut
      BY <1>1, <1>4, <2>4 DEF TestRows, NotOut
    <3> QED
      BY <2>1, <3>1, <3>2, <3>3, <3>4
  <2> QED
    BY <2>2, <2>3, <2>4
<1> QED
  BY <1>5, <1>6 DEF LateRows, Pending

-----------------------------------------------------------------------------
(* Every step keeps the invariant.                                         *)

LEMMA ReadStep ==
  ASSUME IInv, NEW p \in Admins, Reads(p)
  PROVE  IInv'
<1>1. UNCHANGED Rows /\ \E r \in Request : Linked(r) /\ Moves(p, r)
  BY ReadsMove DEF IInv
<1>2. PICK r \in Request :
        /\ Linked(r) /\ req' = [req EXCEPT ![p] = r]
        /\ r.at \in DraftOnly => \/ status[r.test] = "DRAFT"
                                 \/ req[p].at \in DraftOnly /\ req[p].test = r.test
  BY <1>1 DEF Moves
<1>3. Onward
  BY <1>1 DEF Onward, Rows
<1>4. RequestRows'
  BY <1>2, <1>3, RequestsMove DEF IInv
<1>5. \A t \in Tests : status[t] \notin NotOut => Pending(t)' \subseteq Pending(t)
  BY <1>2 DEF IInv, RequestRows, Pending, NotOut
<1>6. LateRows'
  BY <1>1, <1>3, <1>5, LateHolds DEF IInv, Rows
<1>7. TestRows' /\ QuestionsLinked' /\ AnswersKeepTheirQuestion'
  BY <1>1 DEF IInv, TestRows, QuestionsLinked, AnswersKeepTheirQuestion, Rows
<1> QED
  BY <1>1, <1>3, <1>4, <1>6, <1>7, SameQuestions, SameStudents DEF IInv, Rows

(* Questions and options are written; the rest follows from the request.   *)
LEMMA ContentStep ==
  ASSUME IInv, NEW p \in Admins, req[p].at \in DraftOnly,
         DraftWrite(p), Finish(p), UNCHANGED <<testVars, studentVars>>,
         QuestionRows',
         \A q \in Questions : question'[q].test # None =>
            question'[q].test \in {question[q].test, req[p].test},
         \A q \in answered : question'[q].test = question[q].test
  PROVE  IInv'
<1>1. Onward
  BY DEF Onward
<1>2. RequestRows'
  BY <1>1, IdleRow, RequestsMove DEF IInv, Finish
<1>3. LateRows'
  BY LateWrites DEF IInv
<1>4. QuestionsLinked'
  <2>1. status[req[p].test] # "ABSENT"
    BY DEF IInv, RequestRows, Linked, DraftOnly
  <2> QED
    BY <2>1 DEF IInv, QuestionsLinked
<1>5. TestRows'
  BY DEF IInv, TestRows
<1>6. AnswersKeepTheirQuestion'
  BY DEF IInv, AnswersKeepTheirQuestion
<1> QED
  BY <1>1, <1>2, <1>3, <1>4, <1>5, <1>6, SameStudents DEF IInv

LEMMA ContentSteps ==
  ASSUME IInv, NEW p \in Admins,
         \/ \E q \in Questions, c \in OptionPositions : CreateQuestion(p, q, c)
         \/ \E c \in OptionPositions : CreateOptions(p, c)
         \/ PublishQuestion(p) \/ DeleteQuestion(p)
         \/ \E pos \in Numberings(req[p].seen) : Reorder(p, pos)
  PROVE  IInv'
<1>1. req[p].at \in DraftOnly
  BY DEF CreateQuestion, CreateOptions, PublishQuestion, DeleteQuestion, Reorder, DraftOnly
<1>2. DraftWrite(p) /\ Finish(p) /\ UNCHANGED <<testVars, studentVars>>
  BY DEF CreateQuestion, CreateOptions, PublishQuestion, DeleteQuestion, Reorder
<1>3. QuestionRows'
  BY CreateQuestionRows, CreateOptionsRows, PublishQuestionRows, DeleteQuestionRows,
     ReorderRows DEF IInv
<1>4. ASSUME NEW r \in Questions, question'[r].test # None
      PROVE  question'[r].test \in {question[r].test, req[p].test}
  <2>1. question \in [Questions -> QuestionRow] /\ question[r] \in QuestionRow
    BY DEF IInv, QuestionRows
  <2>2. ASSUME NEW q \in Questions, NEW c \in OptionPositions, CreateQuestion(p, q, c)
        PROVE  question'[r].test \in {question[r].test, req[p].test}
    <3>1. question' = [question EXCEPT ![q] =
             [test |-> req[p].test, order |-> req[p].order, status |-> "DRAFT"]]
      BY <2>2 DEF CreateQuestion
    <3> QED
      BY <2>1, <3>1
  <2>3. ASSUME NEW c \in OptionPositions, CreateOptions(p, c)
        PROVE  question'[r].test \in {question[r].test, req[p].test}
    BY <2>3 DEF CreateOptions
  <2>4. CASE PublishQuestion(p)
    <3> DEFINE q == req[p].question
    <3>1. question'[r] = IF r = q THEN [question[r] EXCEPT !.status = "PUBLISHED"]
                                  ELSE question[r]
      BY <2>1, <2>4 DEF PublishQuestion
    <3> QED
      BY <2>1, <3>1 DEF QuestionRow, Exists, Missing
  <2>5. CASE DeleteQuestion(p)
    <3> DEFINE q == req[p].question
    <3>1. question'[r] = IF r = q THEN [test |-> None, order |-> 0, status |-> "DELETED"]
                                  ELSE question[r]
      BY <2>1, <2>5 DEF DeleteQuestion
    <3> QED
      BY <1>4, <3>1
  <2>6. ASSUME NEW pos \in Numberings(req[p].seen), Reorder(p, pos)
        PROVE  question'[r].test \in {question[r].test, req[p].test}
    <3>1. question'[r] = [question[r] EXCEPT !.order = pos[r]] \/ question'[r] = question[r]
      BY <2>6 DEF Reorder
    <3> QED
      BY <2>1, <3>1 DEF QuestionRow, Exists, Missing
  <2> QED
    BY <2>2, <2>3, <2>4, <2>5, <2>6
<1>5. ASSUME NEW r \in answered PROVE question'[r].test = question[r].test
  <2>1. /\ r \in Questions /\ question \in [Questions -> QuestionRow]
        /\ question[r] \in Exists
    BY QuestionCases, NoneIsNoId
       DEF IInv, QuestionRows, StudentRows, AnswersKeepTheirQuestion
  <2>2. ASSUME NEW q \in Questions, NEW c \in OptionPositions, CreateQuestion(p, q, c)
        PROVE  question'[r].test = question[r].test
    <3>1. r # q
      BY <2>1, <2>2, NoneIsNoId DEF CreateQuestion, NoQuestion, Exists
    <3> QED
      BY <2>1, <2>2, <3>1 DEF CreateQuestion
  <2>3. ASSUME NEW c \in OptionPositions, CreateOptions(p, c)
        PROVE  question'[r].test = question[r].test
    BY <2>3 DEF CreateOptions
  <2>4. CASE PublishQuestion(p)
    BY <2>1, <2>4 DEF PublishQuestion, Exists
  <2>5. CASE DeleteQuestion(p)
    BY <2>1, <2>5 DEF DeleteQuestion, Unanswered
  <2>6. ASSUME NEW pos \in Numberings(req[p].seen), Reorder(p, pos)
        PROVE  question'[r].test = question[r].test
    <3>1. question'[r] = [question[r] EXCEPT !.order = pos[r]] \/ question'[r] = question[r]
      BY <2>1, <2>6 DEF Reorder
    <3> QED
      BY <2>1, <3>1 DEF Exists
  <2> QED
    BY <2>2, <2>3, <2>4, <2>5, <2>6
<1> QED
  BY <1>1, <1>2, <1>3, <1>4, <1>5, ContentStep

LEMMA UpdateTestStep ==
  ASSUME IInv, NEW p \in Admins, NEW d \in Durations, UpdateTest(p, d)
  PROVE  IInv'
<1>1. /\ req[p].at \in DraftOnly /\ DraftWrite(p) /\ Finish(p)
      /\ duration' = [duration EXCEPT ![req[p].test] = d]
      /\ UNCHANGED <<status, public, questionVars, studentVars>>
  BY DEF UpdateTest, DraftOnly
<1>2. req[p].test \in Tests /\ status[req[p].test] # "ABSENT" /\ d # None
  BY <1>1, NoneIsNoId DEF IInv, RequestRows, Linked, DraftOnly
<1>3. Onward
  BY <1>1 DEF Onward
<1>4. TestRows'
  BY <1>1, <1>2 DEF IInv, TestRows
<1>5. RequestRows'
  BY <1>1, <1>3, IdleRow, RequestsMove DEF IInv, Finish
<1>6. LateRows'
  BY <1>1, LateWrites DEF IInv
<1>7. QuestionsLinked' /\ AnswersKeepTheirQuestion'
  BY <1>1 DEF IInv, QuestionsLinked, AnswersKeepTheirQuestion
<1> QED
  BY <1>1, <1>3, <1>4, <1>5, <1>6, <1>7, SameQuestions, SameStudents DEF IInv

(* The status of a test that is there becomes PUBLISHED or ARCHIVED.       *)
LEMMA TestLeaves ==
  ASSUME IInv, NEW p \in Admins, NEW to \in {"PUBLISHED", "ARCHIVED"},
         req[p].at # "idle",
         status' = [status EXCEPT ![req[p].test] = to],
         UNCHANGED <<duration, public>>
  PROVE  /\ TestRows' /\ Onward
         /\ \A u \in Tests : u # req[p].test => status'[u] = status[u]
         /\ status'[req[p].test] = to
<1>1. PICK t \in Tests : t = req[p].test /\ status[t] # "ABSENT"
  BY DEF IInv, RequestRows, Linked
<1>2. /\ status \in [Tests -> TestStatus \cup {"ABSENT"}]
      /\ status' = [status EXCEPT ![t] = to]
  BY <1>1 DEF IInv, TestRows
<1>3. \A u \in Tests : status'[u] = IF u = t THEN to ELSE status[u]
  BY <1>2
<1>4. status' \in [Tests -> TestStatus \cup {"ABSENT"}]
  BY <1>2 DEF TestStatus
<1>5. \A u \in Tests : status[u] = "ABSENT" <=> status'[u] = "ABSENT"
  BY <1>1, <1>3
<1>6. TestRows'
  BY <1>4, <1>5 DEF IInv, TestRows
<1>7. Onward
  BY <1>3 DEF Onward, NotOut
<1> QED
  BY <1>1, <1>3, <1>6, <1>7

LEMMA PublishTestStep ==
  ASSUME IInv, NEW p \in Admins, PublishTest(p)
  PROVE  IInv'
<1>1. /\ req[p].at \in DraftOnly /\ DraftWrite(p) /\ Finish(p)
      /\ status' = [status EXCEPT ![req[p].test] = "PUBLISHED"]
      /\ UNCHANGED <<duration, public, questionVars, studentVars>>
  BY DEF PublishTest, DraftOnly
<1>2. TestRows' /\ Onward
  BY <1>1, TestLeaves DEF DraftOnly
<1>3. RequestRows'
  BY <1>1, <1>2, IdleRow, RequestsMove DEF IInv, Finish
<1>4. LateRows'
  BY <1>1, LateWrites DEF IInv
<1>5. QuestionsLinked' /\ AnswersKeepTheirQuestion'
  BY <1>1, <1>2, QuestionCases
     DEF IInv, QuestionsLinked, AnswersKeepTheirQuestion, Onward, Exists
<1> QED
  BY <1>1, <1>2, <1>3, <1>4, <1>5, SameQuestions, SameStudents DEF IInv

(* A request that is none of the pending ones ends.                        *)
LEMMA OtherEnds ==
  ASSUME IInv, NEW p \in Admins, req[p].at \notin DraftOnly, Finish(p)
  PROVE  \A t \in Tests : Pending(t)' \subseteq Pending(t) /\ p \notin Pending(t)'
BY IdleRow DEF IInv, RequestRows, Finish, Pending, DraftOnly

LEMMA ArchiveTestStep ==
  ASSUME IInv, NEW p \in Admins, ArchiveTest(p)
  PROVE  IInv'
<1>1. /\ req[p].at = "archive" /\ Finish(p)
      /\ status' = [status EXCEPT ![req[p].test] = "ARCHIVED"]
      /\ UNCHANGED <<duration, public, questionVars, studentVars, late>>
  BY DEF ArchiveTest
<1>2. /\ TestRows' /\ Onward
      /\ \A u \in Tests : u # req[p].test => status'[u] = status[u]
      /\ status'[req[p].test] = "ARCHIVED"
  BY <1>1, TestLeaves
<1>3. RequestRows'
  BY <1>1, <1>2, IdleRow, RequestsMove DEF IInv, Finish
<1>4. \A t \in Tests : Pending(t)' \subseteq Pending(t) /\ p \notin Pending(t)'
  BY <1>1, OtherEnds DEF DraftOnly
<1>5. \A t \in Tests : status'[t] \in NotOut => status[t] \in NotOut
  BY <1>2 DEF NotOut
<1>6. LateRows'
  BY <1>1, <1>2, <1>4, <1>5, LateHolds DEF IInv
<1>7. QuestionsLinked' /\ AnswersKeepTheirQuestion'
  BY <1>1, <1>2, QuestionCases
     DEF IInv, QuestionsLinked, AnswersKeepTheirQuestion, Onward, Exists
<1> QED
  BY <1>1, <1>2, <1>3, <1>6, <1>7, SameQuestions, SameStudents DEF IInv

LEMMA MarkPublicStep ==
  ASSUME IInv, NEW p \in Admins, MarkPublic(p)
  PROVE  IInv'
<1>1. /\ req[p].at = "mark" /\ Finish(p)
      /\ UNCHANGED <<status, duration, questionVars, studentVars, late>>
  BY DEF MarkPublic
<1>2. req[p].test \in Tests /\ status[req[p].test] # "ABSENT"
  BY <1>1 DEF IInv, RequestRows, Linked
<1>3. \/ public' = public
      \/ /\ public' = (public \ req[p].seen) \cup {req[p].test}
         /\ PublicAllowed((public \ req[p].seen) \cup {req[p].test})
  BY DEF MarkPublic
<1>4. public' \subseteq {t \in Tests : status[t] # "ABSENT"}
  BY <1>2, <1>3 DEF IInv, TestRows
<1>5. TestRows' /\ Onward /\ QuestionsLinked' /\ AnswersKeepTheirQuestion'
  BY <1>1, <1>4 DEF IInv, TestRows, Onward, QuestionsLinked, AnswersKeepTheirQuestion
<1>6. RequestRows'
  BY <1>1, <1>5, IdleRow, RequestsMove DEF IInv, Finish
<1>7. \A t \in Tests : Pending(t)' \subseteq Pending(t)
  BY <1>1, OtherEnds DEF DraftOnly
<1>8. LateRows'
  BY <1>1, <1>5, <1>7, LateHolds DEF IInv
<1> QED
  BY <1>1, <1>5, <1>6, <1>8, SameQuestions, SameStudents DEF IInv

(* A test that was not there becomes a DRAFT.                              *)
LEMMA TestArrives ==
  ASSUME IInv, NEW t \in Tests, NEW d \in Durations, status[t] = "ABSENT",
         status' = [status EXCEPT ![t] = "DRAFT"],
         duration' = [duration EXCEPT ![t] = d],
         UNCHANGED <<public, studentVars, late, req>>
  PROVE  /\ TestRows' /\ Onward /\ StudentRows' /\ RequestRows' /\ LateRows'
         /\ status'[t] # "ABSENT"
<1>1. \A u \in Tests : status'[u] = IF u = t THEN "DRAFT" ELSE status[u]
  BY DEF IInv, TestRows
<1>2. Onward
  BY <1>1 DEF Onward, NotOut
<1>3. TestRows'
  BY <1>1, NoneIsNoId DEF IInv, TestRows, TestStatus
<1>4. LateRows'
  <2>1. \A u \in Tests : Pending(u)' \subseteq Pending(u)
    BY DEF Pending
  <2>2. \A u \in Tests : status'[u] \in NotOut <=> status[u] \in NotOut
    BY <1>1 DEF NotOut
  <2> QED
    BY <1>2, <2>1, <2>2, LateHolds DEF IInv
<1> QED
  BY <1>1, <1>2, <1>3, <1>4, SameStudents, SameRequests DEF IInv

LEMMA CreateTestStep ==
  ASSUME IInv, NEW t \in Tests, NEW d \in Durations, CreateTest(t, d)
  PROVE  IInv'
<1>1. TestRows' /\ Onward /\ StudentRows' /\ RequestRows' /\ LateRows'
  BY TestArrives DEF CreateTest
<1>2. QuestionsLinked' /\ AnswersKeepTheirQuestion'
  BY <1>1, QuestionCases
     DEF CreateTest, IInv, QuestionsLinked, AnswersKeepTheirQuestion, Onward, Exists
<1> QED
  BY <1>1, <1>2, SameQuestions DEF IInv, CreateTest

LEMMA ImportTestStep ==
  ASSUME IInv, NEW t \in Tests, NEW d \in Durations, NEW qs \in SUBSET Questions,
         NEW pos \in Numberings(qs), NEW correct \in [qs -> OptionPositions],
         ImportTest(t, d, qs, pos, correct)
  PROVE  IInv'
<1>1. /\ TestRows' /\ Onward /\ StudentRows' /\ RequestRows' /\ LateRows'
      /\ status'[t] # "ABSENT"
  BY TestArrives DEF ImportTest
<1>2. \A q \in Questions : question[q].test # t
  BY NoneIsNoId DEF IInv, QuestionsLinked, ImportTest
<1>3. QuestionRows'
  BY <1>2, ImportRows DEF IInv
<1>4. QuestionsLinked'
  <2> SUFFICES ASSUME NEW q \in Questions, question'[q].test # None
               PROVE  status'[question'[q].test] # "ABSENT"
    BY DEF QuestionsLinked
  <2>1. CASE q \in qs
    <3>1. question'[q] = [test |-> t, order |-> pos[q], status |-> "PUBLISHED"]
      BY <2>1 DEF ImportTest
    <3> QED
      BY <1>1, <3>1
  <2>2. CASE q \notin qs
    <3>1. question'[q] = question[q]
      BY <2>2 DEF ImportTest
    <3> QED
      BY <1>1, <3>1, QuestionCases DEF IInv, QuestionsLinked, Onward, Exists
  <2> QED
    BY <2>1, <2>2
<1>5. AnswersKeepTheirQuestion'
  <2> SUFFICES ASSUME NEW q \in answered PROVE question'[q].test \in attempted
    BY DEF ImportTest, AnswersKeepTheirQuestion
  <2>1. question[q].test \in attempted /\ question[q].test # None /\ q \in Questions
    BY NoneIsNoId DEF IInv, StudentRows, AnswersKeepTheirQuestion
  <2>2. q \notin qs
    BY <2>1 DEF ImportTest, NoQuestion
  <2> QED
    BY <2>1, <2>2 DEF ImportTest
<1> QED
  BY <1>1, <1>3, <1>4, <1>5 DEF IInv

LEMMA OutsideStep ==
  ASSUME IInv,
         \/ \E t \in Tests : ClearPublic(t) \/ StartAttempt(t)
         \/ \E q \in Questions : AnswerQuestion(q)
  PROVE  IInv'
<1>1. UNCHANGED <<status, duration, questionVars, late, req>>
  BY DEF ClearPublic, StartAttempt, AnswerQuestion
<1>2. Onward /\ QuestionsLinked'
  BY <1>1 DEF Onward, IInv, QuestionsLinked
<1>3. TestRows'
  BY <1>1 DEF ClearPublic, StartAttempt, AnswerQuestion, IInv, TestRows
<1>4. StudentRows'
  <2>1. attempted' \subseteq attempted \cup {t \in Tests : status[t] = "PUBLISHED"}
    BY DEF ClearPublic, StartAttempt, AnswerQuestion
  <2>2. answered' \subseteq Questions
    BY DEF ClearPublic, StartAttempt, AnswerQuestion, IInv, StudentRows
  <2> QED
    BY <1>1, <2>1, <2>2 DEF IInv, StudentRows, NotOut
<1>5. LateRows'
  BY <1>1 DEF IInv, LateRows, Pending
<1>6. AnswersKeepTheirQuestion'
  BY <1>1 DEF ClearPublic, StartAttempt, AnswerQuestion, IInv, AnswersKeepTheirQuestion
<1> QED
  BY <1>1, <1>2, <1>3, <1>4, <1>5, <1>6, SameQuestions, SameRequests DEF IInv

LEMMA NextIInv == IInv /\ [Next]_vars => IInv'
<1> SUFFICES ASSUME IInv, [Next]_vars PROVE IInv'
  OBVIOUS
<1>1. CASE UNCHANGED vars
  <2>1. Onward /\ QuestionsLinked' /\ TestRows' /\ LateRows' /\ AnswersKeepTheirQuestion'
    BY <1>1 DEF Onward, IInv, QuestionsLinked, TestRows, LateRows, Pending,
                AnswersKeepTheirQuestion
  <2> QED
    BY <1>1, <2>1, SameQuestions, SameRequests, SameStudents DEF IInv
<1>2. ASSUME NEW t \in Tests, Import(t) PROVE IInv'
  BY <1>2, ImportTestStep DEF Import
<1>3. ASSUME NEW t \in Tests, NEW d \in Durations, CreateTest(t, d) PROVE IInv'
  BY <1>3, CreateTestStep
<1>4. ASSUME NEW p \in Admins, GiveUp(p) PROVE IInv'
  BY <1>4, ReadStep DEF Reads
<1>5. ASSUME NEW p \in Admins, TestStep(p) PROVE IInv'
  BY <1>5, ReadStep, UpdateTestStep, PublishTestStep, ArchiveTestStep, MarkPublicStep
     DEF TestStep, Reads
<1>6. ASSUME NEW p \in Admins, QuestionStep(p) PROVE IInv'
  BY <1>6, ReadStep, ContentSteps DEF QuestionStep, Reads
<1> QED
  BY <1>1, <1>2, <1>3, <1>4, <1>5, <1>6, OutsideStep DEF Next

LEMMA InitIInv == Init => IInv
<1> SUFFICES ASSUME Init PROVE IInv
  OBVIOUS
<1>1. TestRows
  BY DEF Init, TestRows, TestStatus
<1>2. \A q \in Questions : question[q] \in Missing /\ question[q].test = None
  BY DEF Init, NoQuestion, Missing
<1>3. QuestionRows
  BY <1>2, EditsAssumption DEF Init, QuestionRows, QuestionRow, OneCorrectOption, OrdersDiffer
<1>4. QuestionsLinked /\ StudentRows /\ AnswersKeepTheirQuestion
  BY <1>2 DEF Init, QuestionsLinked, StudentRows, AnswersKeepTheirQuestion
<1>5. RequestRows
  BY IdleRow DEF Init, RequestRows
<1>6. LateRows
  BY DEF Init, LateRows, NotOut
<1> QED
  BY <1>1, <1>3, <1>4, <1>5, <1>6 DEF IInv

-----------------------------------------------------------------------------
(* The theorems.                                                           *)

(* The invariant holds in every state overlapping admins can reach.        *)
THEOREM Invariance == Spec => []IInv
BY InitIInv, NextIInv, PTL DEF Spec

LEMMA Implied ==
  IInv => /\ TypeOK /\ OneCorrectOption /\ OrdersDiffer /\ AnswersKeepTheirQuestion
          /\ LateWritesAreBounded /\ DraftIsUnattempted
<1> SUFFICES ASSUME IInv
             PROVE  /\ TypeOK /\ OneCorrectOption /\ OrdersDiffer /\ AnswersKeepTheirQuestion
                    /\ LateWritesAreBounded /\ DraftIsUnattempted
  OBVIOUS
<1>1. TypeOK
  BY DEF IInv, TestRows, QuestionRows, StudentRows, RequestRows, LateRows, QuestionRow,
     Exists, Missing, Request, TypeOK
<1>2. LateWritesAreBounded
  <2> SUFFICES ASSUME NEW t \in Tests PROVE late[t] < Cardinality(Admins)
    BY DEF LateWritesAreBounded
  <2>1. /\ late[t] \in Nat /\ Cardinality(Pending(t)) \in Nat
        /\ Cardinality(Admins) \in Nat /\ Cardinality(Admins) # 0
    BY PendingFinite, AdminsAssumption, FS_EmptySet DEF IInv, LateRows
  <2> QED
    BY <2>1 DEF IInv, LateRows
<1> QED
  BY <1>1, <1>2 DEF IInv, TestRows, QuestionRows, StudentRows, DraftIsUnattempted, NotOut

(* Columns keep their types, and options belong to questions that exist.   *)
THEOREM TypeCorrect == Spec => []TypeOK
BY Invariance, Implied, PTL

(* However edits of a question overlap, scoring finds one correct option.  *)
THEOREM CorrectIsOne == Spec => []OneCorrectOption
BY Invariance, Implied, PTL

(* No two questions of a test share a place.                               *)
THEOREM PlacesDiffer == Spec => []OrdersDiffer
BY Invariance, Implied, PTL

(* However late a deletion commits, the question of an answer stays.       *)
THEOREM AnswersHold == Spec => []AnswersKeepTheirQuestion
BY Invariance, Implied, PTL

(* A test that is out is changed by fewer late writes than overlapping     *)
(* admins.                                                                 *)
THEOREM LateBound == Spec => []LateWritesAreBounded
BY Invariance, Implied, PTL

(* Nobody attempts a DRAFT.                                                *)
THEOREM DraftsRest == Spec => []DraftIsUnattempted
BY Invariance, Implied, PTL
=============================================================================
