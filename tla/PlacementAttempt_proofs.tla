----------------------- MODULE PlacementAttempt_proofs -----------------------
(***************************************************************************)
(* Theorems about PlacementAttempt for every number of assignments, links, *)
(* questions and concurrent requests, every duration and every clock.      *)
(***************************************************************************)
EXTENDS PlacementAttempt, FiniteSetTheorems, TLAPS

USE DEF rows, vars

(* The steps that write a table or the clock; every other step of a        *)
(* request only reads.                                                     *)
WritingStep ==
  \/ \E p \in Requests :
        \/ CreateAttempt(p) \/ SaveAnswer(p) \/ CommitFinalize(p)
        \/ RevokeInvitation(p)
        \/ \E j \in Invitations : GenerateInvitation(p, j)
        \/ \E j \in Invitations : RegenerateInvitation(p, j)
  \/ Tick
  \/ ArchiveTest

LEMMA StepIsReadOrWrite ==
  ASSUME [Next]_vars
  PROVE  WritingStep \/ UNCHANGED <<now, rows>>
<1>1. CASE UNCHANGED vars
  BY <1>1
<1>2. CASE Tick \/ ArchiveTest
  BY <1>2 DEF WritingStep
<1>3. ASSUME NEW p \in Requests, Arrive(p)
      PROVE  UNCHANGED <<now, rows>>
  BY <1>3 DEF Arrive, ValidateToken, CheckRevocable, CheckAssignment
<1>4. ASSUME NEW p \in Requests, Progress(p)
      PROVE  WritingStep \/ UNCHANGED <<now, rows>>
  BY <1>4 DEF Progress, WritingStep, NoAttemptYet, AttemptClosed, AttemptOpen,
     CreateConflict, FinalizeRead, ReadAnswers, ReadPriorCanonical, FindActive,
     NoIdLeft
<1>5. ASSUME NEW p \in Requests, RequestDies(p)
      PROVE  UNCHANGED <<now, rows>>
  BY <1>5 DEF RequestDies
<1> QED
  BY <1>1, <1>2, <1>3, <1>4, <1>5 DEF Next

-----------------------------------------------------------------------------
(* Types.  RequestLinked makes an index read from a request an index.      *)

LEMMA IdleType == Idle \in RequestState
BY NoneAssumption DEF Idle, RequestState, StudentOps, Terminal

LEMMA NoAttemptType == NoAttempt \in AttemptRow
BY DEF NoAttempt, AttemptRow, Answers

LEMMA InitType == Init => TypeOK
BY IdleType, NoAttemptType
   DEF Init, TypeOK, AssignmentStatus, InvitationRow, NoInvitation

(* A request that ends, or becomes r, keeps its type.                      *)
LEMMA BecomeType ==
  ASSUME TypeOK, NEW p \in Requests, NEW r \in RequestState,
         req' = [req EXCEPT ![p] = r]
  PROVE  req' \in [Requests -> RequestState]
BY DEF TypeOK

LEMMA TypeArrive ==
  ASSUME TypeOK, NEW p \in Requests, Arrive(p)
  PROVE  TypeOK'
<1>1. ASSUME NEW i \in Invitations, NEW o \in StudentOps,
             NEW q \in Questions \cup {None},
             NEW c \in Options \cup {Unanswered},
             ValidateToken(p, o, i, q, c)
      PROVE  TypeOK'
  <2>1. [Idle EXCEPT !.pc = "attempt", !.op = o, !.invitation = i,
                     !.question = q, !.option = c,
                     !.published = (testStatus = "PUBLISHED")] \in RequestState
    BY IdleType DEF RequestState, Idle
  <2> QED
    BY <1>1, <2>1, BecomeType DEF ValidateToken, Become, TypeOK
<1>2. ASSUME NEW i \in Invitations, CheckRevocable(p, i)
      PROVE  TypeOK'
  <2>1. [Idle EXCEPT !.pc = "revoke", !.invitation = i] \in RequestState
    BY IdleType DEF RequestState, Idle
  <2> QED
    BY <1>2, <2>1, BecomeType DEF CheckRevocable, Become, TypeOK
<1>3. ASSUME NEW o \in {"generate", "regenerate"}, NEW a \in Assignments,
             CheckAssignment(p, o, a)
      PROVE  TypeOK'
  <2>1. [Idle EXCEPT !.pc = "find", !.op = o, !.assignment = a] \in RequestState
    BY IdleType DEF RequestState, Idle
  <2> QED
    BY <1>3, <2>1, BecomeType DEF CheckAssignment, Become, TypeOK
<1> QED
  BY <1>1, <1>2, <1>3 DEF Arrive, StudentOps

LEMMA TypeReading ==
  ASSUME TypeOK, NEW p \in Requests, RequestLinked(p),
         \/ NoAttemptYet(p) \/ AttemptClosed(p) \/ AttemptOpen(p)
         \/ CreateConflict(p) \/ FinalizeRead(p) \/ ReadAnswers(p)
         \/ ReadPriorCanonical(p) \/ FindActive(p) \/ NoIdLeft(p)
         \/ RequestDies(p)
  PROVE  TypeOK'
<1> USE IdleType
<1>1. CASE NoAttemptYet(p)
  BY <1>1 DEF NoAttemptYet, Finish, TypeOK, RequestState
<1>2. CASE AttemptClosed(p) \/ NoIdLeft(p) \/ RequestDies(p)
  BY <1>2 DEF AttemptClosed, NoIdLeft, RequestDies, Finish, TypeOK
<1>3. CASE AttemptOpen(p)
  <2> DEFINE i == req[p].invitation
  <2>1. i \in Invitations
    BY <1>3 DEF AttemptOpen, RequestLinked, IsRow
  <2>2. /\ [Idle EXCEPT !.pc = "finalize", !.invitation = i, !.trigger = "AUTO"]
             \in RequestState
        /\ [Idle EXCEPT !.pc = "finalize", !.invitation = i] \in RequestState
    BY <2>1 DEF RequestState, Idle
  <2>3. [req[p] EXCEPT !.pc = "save"] \in RequestState
    BY DEF TypeOK, RequestState
  <2>4. req' \in [Requests -> RequestState]
    BY <1>3, <2>2, <2>3 DEF AttemptOpen, Become, Finish, TypeOK
  <2> QED
    BY <1>3, <2>4 DEF AttemptOpen, TypeOK
<1>4. CASE CreateConflict(p)
  BY <1>4 DEF CreateConflict, TypeOK, RequestState
<1>5. CASE FinalizeRead(p)
  <2> DEFINE i == req[p].invitation
             s == IF req[p].trigger = "AUTO" \/ PastDeadline(i)
                  THEN "AUTO_SUBMITTED" ELSE "SUBMITTED"
             r == [Idle EXCEPT !.pc = "score", !.invitation = i,
                               !.trigger = req[p].trigger, !.at = now,
                               !.finalStatus = s]
  <2>1. i \in Invitations
    BY <1>5 DEF FinalizeRead, RequestLinked, IsRow
  <2>2. s \in Terminal /\ now \in Nat /\ req[p].trigger \in {"MANUAL", "AUTO"}
    BY DEF Terminal, TypeOK, RequestState
  <2>3. r \in RequestState
    <3> HIDE DEF i, s
    <3> QED  BY <2>1, <2>2 DEF RequestState, Idle
  <2>4. req' \in [Requests -> RequestState]
    <3>1. req' = [req EXCEPT ![p] = r] \/ req' = [req EXCEPT ![p] = Idle]
      BY <1>5 DEF FinalizeRead, Become, Finish
    <3> HIDE DEF r
    <3> QED  BY <3>1, <2>3 DEF TypeOK
  <2> QED
    BY <1>5, <2>4 DEF FinalizeRead, TypeOK
<1>6. CASE ReadAnswers(p)
  <2>1. attempt[req[p].invitation].answers \in Answers
    BY <1>6 DEF ReadAnswers, RequestLinked, IsRow, TypeOK, AttemptRow
  <2> QED
    BY <1>6, <2>1 DEF ReadAnswers, TypeOK, RequestState
<1>7. CASE ReadPriorCanonical(p)
  BY <1>7 DEF ReadPriorCanonical, TypeOK, RequestState
<1>8. CASE FindActive(p)
  BY <1>8 DEF FindActive, ActiveFor, Finish, TypeOK, RequestState
<1> QED
  BY <1>1, <1>2, <1>3, <1>4, <1>5, <1>6, <1>7, <1>8

LEMMA TypeWriting ==
  ASSUME TypeOK, \A p \in Requests : RequestLinked(p), WritingStep
  PROVE  TypeOK'
<1> USE IdleType
<1>1. ASSUME NEW p \in Requests, CreateAttempt(p)
      PROVE  TypeOK'
  <2>1. [NoAttempt EXCEPT !.status = "IN_PROGRESS",
                          !.expiresAt = req[p].at + Duration] \in AttemptRow
    <3>1. req[p].at + Duration \in Nat
      BY DurationAssumption DEF TypeOK, RequestState
    <3> QED  BY <3>1, NoAttemptType DEF AttemptRow
  <2> QED
    BY <1>1, <2>1 DEF CreateAttempt, Begun, Finish, TypeOK, AssignmentStatus
<1>2. ASSUME NEW p \in Requests, SaveAnswer(p)
      PROVE  TypeOK'
  <2> DEFINE i == req[p].invitation
  <2>1. i \in Invitations /\ req[p].question \in Questions
        /\ req[p].option \in Options \cup {Unanswered}
    BY <1>2 DEF SaveAnswer, RequestLinked, IsRow, TypeOK, RequestState
  <2>2. [attempt[i].answers EXCEPT ![req[p].question] = req[p].option] \in Answers
    BY <2>1 DEF TypeOK, AttemptRow, Answers
  <2>3. attempt' \in [Invitations -> AttemptRow]
    BY <1>2, <2>1, <2>2 DEF SaveAnswer, TypeOK, AttemptRow
  <2> QED
    BY <1>2, <2>3 DEF SaveAnswer, Finish, TypeOK
<1>3. ASSUME NEW p \in Requests, CommitFinalize(p)
      PROVE  TypeOK'
  <2> DEFINE i == req[p].invitation
  <2>1. Closed(attempt[i], req[p]) \in AttemptRow
    <3>1. i \in Invitations
      BY <1>3 DEF CommitFinalize, RequestLinked, IsRow
    <3>2. attempt[i] \in AttemptRow /\ req[p] \in RequestState
      BY <3>1 DEF TypeOK
    <3> HIDE DEF i
    <3> QED  BY <3>2 DEF Closed, AttemptRow, RequestState
  <2>2. attempt' \in [Invitations -> AttemptRow]
    BY <1>3, <2>1 DEF CommitFinalize, TypeOK
  <2>3. /\ invitation' \in [Invitations -> InvitationRow]
        /\ assignment' \in [Assignments -> AssignmentStatus]
    BY <1>3 DEF CommitFinalize, TypeOK, InvitationRow, AssignmentStatus
  <2> QED
    BY <1>3, <2>2, <2>3 DEF CommitFinalize, Finish, TypeOK
<1>4. ASSUME NEW p \in Requests, RevokeInvitation(p)
      PROVE  TypeOK'
  BY <1>4 DEF RevokeInvitation, Finish, TypeOK, InvitationRow
<1>5. ASSUME NEW p \in Requests, NEW j \in Invitations, GenerateInvitation(p, j)
      PROVE  TypeOK'
  <2>1. NewInvitation(req[p].assignment, None) \in InvitationRow
    BY <1>5 DEF GenerateInvitation, NewInvitation, InvitationRow, TypeOK,
       RequestState
  <2> QED
    BY <1>5, <2>1 DEF GenerateInvitation, Finish, TypeOK
<1>6. ASSUME NEW p \in Requests, NEW j \in Invitations, RegenerateInvitation(p, j)
      PROVE  TypeOK'
  <2>1. NewInvitation(req[p].assignment, req[p].invitation) \in InvitationRow
    BY <1>6 DEF RegenerateInvitation, NewInvitation, InvitationRow, TypeOK,
       RequestState
  <2>2. [invitation EXCEPT ![req[p].invitation].status = "REVOKED"]
           \in [Invitations -> InvitationRow]
    BY DEF TypeOK, InvitationRow
  <2> QED
    BY <1>6, <2>1, <2>2 DEF RegenerateInvitation, Finish, TypeOK
<1>7. CASE Tick \/ ArchiveTest
  BY <1>7 DEF Tick, ArchiveTest, TypeOK
<1> QED
  BY <1>1, <1>2, <1>3, <1>4, <1>5, <1>6, <1>7 DEF WritingStep

(* Who takes a step: nobody, one request, the clock or the test's owner.   *)
LEMMA TypeStep ==
  ASSUME TypeOK, \A p \in Requests : RequestLinked(p), [Next]_vars
  PROVE  TypeOK'
<1>1. CASE UNCHANGED vars
  BY <1>1 DEF TypeOK
<1>2. CASE Tick \/ ArchiveTest
  BY <1>2, TypeWriting DEF WritingStep
<1>3. ASSUME NEW p \in Requests, Arrive(p)
      PROVE  TypeOK'
  BY <1>3, TypeArrive
<1>4. ASSUME NEW p \in Requests, Progress(p) \/ RequestDies(p)
      PROVE  TypeOK'
  BY <1>4, TypeReading, TypeWriting DEF Progress, WritingStep
<1> QED
  BY <1>1, <1>2, <1>3, <1>4 DEF Next

-----------------------------------------------------------------------------
(* Links between rows, and from requests to rows.                          *)

Linked == RowsLinked /\ \A p \in Requests : RequestLinked(p)

(* Rows are inserted and updated, never deleted, and an invitation never   *)
(* moves to another assignment.                                            *)
LEMMA RowsGrow ==
  ASSUME TypeOK, Linked, [Next]_vars, NEW i \in Invitations
  PROVE  /\ IsRow(i) => IsRow(i)'
         /\ IsRow(i) => invitation'[i].assignment = invitation[i].assignment
         /\ Started(i) => Started(i)'
<1>0. WritingStep \/ UNCHANGED <<now, rows>>
  BY StepIsReadOrWrite
<1>1. CASE UNCHANGED <<now, rows>> \/ Tick \/ ArchiveTest
  BY <1>1 DEF IsRow, Started, Tick, ArchiveTest
<1>2. ASSUME NEW p \in Requests, CreateAttempt(p)
      PROVE  UNCHANGED invitation /\ (Started(i) => Started(i)')
  BY <1>2 DEF CreateAttempt, Started, TypeOK
<1>3. ASSUME NEW p \in Requests, SaveAnswer(p)
      PROVE  UNCHANGED invitation /\ (Started(i) => Started(i)')
  BY <1>3 DEF SaveAnswer, Started, TypeOK, AttemptRow
<1>4. ASSUME NEW p \in Requests, CommitFinalize(p)
      PROVE  /\ invitation[i].status # "ABSENT" => invitation'[i].status # "ABSENT"
             /\ invitation'[i].assignment = invitation[i].assignment
             /\ Started(i) => Started(i)'
  <2>1. Closed(attempt[i], req[p]).status \in Terminal
    BY DEF Closed, TypeOK, RequestState
  <2>2. Started(i) => Started(i)'
    BY <1>4, <2>1 DEF CommitFinalize, Started, TypeOK, Terminal
  <2> QED
    BY <1>4, <2>2 DEF CommitFinalize, TypeOK, InvitationRow
<1>5. ASSUME NEW p \in Requests, RevokeInvitation(p)
      PROVE  /\ invitation[i].status # "ABSENT" => invitation'[i].status # "ABSENT"
             /\ invitation'[i].assignment = invitation[i].assignment
             /\ UNCHANGED attempt
  BY <1>5 DEF RevokeInvitation, TypeOK, InvitationRow
<1>6. ASSUME NEW p \in Requests, NEW j \in Invitations, GenerateInvitation(p, j)
      PROVE  /\ invitation[i].status # "ABSENT" => invitation'[i] = invitation[i]
             /\ UNCHANGED attempt
  BY <1>6 DEF GenerateInvitation, TypeOK
<1>7. ASSUME NEW p \in Requests, NEW j \in Invitations, RegenerateInvitation(p, j)
      PROVE  /\ invitation[i].status # "ABSENT" => invitation'[i].status # "ABSENT"
             /\ invitation[i].status # "ABSENT" =>
                   invitation'[i].assignment = invitation[i].assignment
             /\ UNCHANGED attempt
  BY <1>7 DEF RegenerateInvitation, NewInvitation, TypeOK, InvitationRow
<1> QED
  BY <1>0, <1>1, <1>2, <1>3, <1>4, <1>5, <1>6, <1>7
     DEF WritingStep, IsRow, Started

(* A request keeps what it knows while others run.                         *)
LEMMA LinkStaysGood ==
  ASSUME TypeOK, Linked, [Next]_vars, NEW p \in Requests, req'[p] = req[p]
  PROVE  RequestLinked(p)'
<1>1. RequestLinked(p)
  BY DEF Linked
<1>2. \A i \in Invitations : (IsRow(i) => IsRow(i)') /\ (Started(i) => Started(i)')
  BY RowsGrow
<1>3. IsRow(req[p].invitation) => IsRow(req[p].invitation)'
  BY <1>2 DEF IsRow
<1>4. req[p].pc \in {"save", "finalize", "score"} =>
         Started(req[p].invitation) /\ Started(req[p].invitation)'
  BY <1>1, <1>2 DEF RequestLinked, IsRow
<1> QED
  BY <1>1, <1>3, <1>4 DEF RequestLinked, IsRow, Started

LEMMA IdleLinked ==
  ASSUME NEW p \in Requests, req'[p] = Idle
  PROVE  RequestLinked(p)'
BY DEF RequestLinked, Idle

(* The step of a request leaves the others as they are.                    *)
LEMMA OnlyOneMoves ==
  ASSUME TypeOK, NEW p \in Requests, Arrive(p) \/ Progress(p) \/ RequestDies(p),
         NEW r \in Requests, r # p
  PROVE  req'[r] = req[r]
BY DEF TypeOK, Arrive, Progress, RequestDies, ValidateToken, CheckRevocable,
   CheckAssignment, NoAttemptYet, AttemptClosed, AttemptOpen, CreateAttempt,
   CreateConflict, SaveAnswer, FinalizeRead, ReadAnswers, ReadPriorCanonical,
   CommitFinalize, FindActive, NoIdLeft, RevokeInvitation, GenerateInvitation,
   RegenerateInvitation, Become, Finish

LEMMA LinkAfterArrival ==
  ASSUME TypeOK, NEW p \in Requests, Arrive(p)
  PROVE  RequestLinked(p)'
<1>1. ASSUME NEW i \in Invitations, NEW o \in StudentOps,
             NEW q \in Questions \cup {None},
             NEW c \in Options \cup {Unanswered},
             ValidateToken(p, o, i, q, c),
             o = "answer" => q \in Questions
      PROVE  RequestLinked(p)'
  BY <1>1 DEF ValidateToken, Become, RequestLinked, IsRow, Idle, TypeOK
<1>2. ASSUME NEW i \in Invitations, CheckRevocable(p, i)
      PROVE  RequestLinked(p)'
  BY <1>2 DEF CheckRevocable, Become, RequestLinked, IsRow, Idle, TypeOK
<1>3. ASSUME NEW o \in {"generate", "regenerate"}, NEW a \in Assignments,
             CheckAssignment(p, o, a)
      PROVE  RequestLinked(p)'
  BY <1>3 DEF CheckAssignment, Become, RequestLinked, Idle, TypeOK
<1> QED
  BY <1>1, <1>2, <1>3 DEF Arrive, StudentOps

LEMMA LinkAfterProgress ==
  ASSUME TypeOK, Linked, NEW p \in Requests, Progress(p) \/ RequestDies(p)
  PROVE  RequestLinked(p)'
<1>0. RequestLinked(p) /\ req[p] \in RequestState
  BY DEF Linked, TypeOK
<1>1. CASE req'[p] = Idle
  BY <1>1, IdleLinked
<1>2. CASE NoAttemptYet(p) \/ CreateConflict(p)
  BY <1>0, <1>1, <1>2 DEF NoAttemptYet, CreateConflict, Finish, RequestLinked,
     IsRow, TypeOK, RequestState
<1>3. ASSUME /\ req'[p].pc \in {"finalize", "score"}
             /\ req'[p].invitation = req[p].invitation
             /\ AttemptOpen(p) \/ FinalizeRead(p)
      PROVE  RequestLinked(p)'
  <2>1. IsRow(req[p].invitation) /\ Started(req[p].invitation)
    BY <1>0, <1>3 DEF AttemptOpen, FinalizeRead, RequestLinked, Started
  <2>2. UNCHANGED rows
    BY <1>3 DEF AttemptOpen, FinalizeRead
  <2> QED
    BY <1>3, <2>1, <2>2 DEF RequestLinked, IsRow, Started
<1>4. CASE AttemptOpen(p)
  <2>1. CASE req' = [req EXCEPT ![p].pc = "save"] /\ req[p].op = "answer"
    BY <1>0, <1>4, <2>1 DEF AttemptOpen, RequestLinked, IsRow, Started, TypeOK,
       RequestState
  <2> DEFINE i    == req[p].invitation
             auto == [Idle EXCEPT !.pc = "finalize", !.invitation = i,
                                  !.trigger = "AUTO"]
             hand == [Idle EXCEPT !.pc = "finalize", !.invitation = i]
  <2>2. \/ req' = [req EXCEPT ![p].pc = "save"] /\ req[p].op = "answer"
        \/ req'[p] = Idle
        \/ req'[p] = auto
        \/ req'[p] = hand
    BY <1>4 DEF AttemptOpen, Become, Finish, TypeOK
  <2>3. /\ auto.pc = "finalize" /\ auto.invitation = i
        /\ hand.pc = "finalize" /\ hand.invitation = i
    <3> HIDE DEF i
    <3> QED  BY DEF Idle
  <2> HIDE DEF auto, hand
  <2> QED
    BY <1>1, <1>3, <1>4, <2>1, <2>2, <2>3
<1>8. CASE FinalizeRead(p)
  <2> DEFINE i == req[p].invitation
             s == IF req[p].trigger = "AUTO" \/ PastDeadline(i)
                  THEN "AUTO_SUBMITTED" ELSE "SUBMITTED"
             r == [Idle EXCEPT !.pc = "score", !.invitation = i,
                               !.trigger = req[p].trigger, !.at = now,
                               !.finalStatus = s]
  <2>1. r.pc = "score" /\ r.invitation = i
    <3> HIDE DEF s, i
    <3> QED  BY DEF Idle
  <2>2. req' = [req EXCEPT ![p] = Idle] \/ req' = [req EXCEPT ![p] = r]
    BY <1>8 DEF FinalizeRead, Become, Finish
  <2>3. req'[p] = Idle \/ req'[p] = r
    <3> HIDE DEF r
    <3> QED  BY <2>2 DEF TypeOK
  <2> HIDE DEF r
  <2> QED
    BY <1>1, <1>3, <1>8, <2>1, <2>3
<1>5. CASE ReadAnswers(p) \/ ReadPriorCanonical(p)
  BY <1>0, <1>5 DEF ReadAnswers, ReadPriorCanonical, RequestLinked, IsRow,
     Started, TypeOK, RequestState
<1>6. CASE FindActive(p)
  BY <1>0, <1>1, <1>6 DEF FindActive, ActiveFor, Finish, RequestLinked, IsRow,
     TypeOK, RequestState
<1>7. \/ AttemptClosed(p) \/ CreateAttempt(p) \/ SaveAnswer(p)
      \/ CommitFinalize(p) \/ NoIdLeft(p) \/ RevokeInvitation(p)
      \/ RequestDies(p)
      \/ \E j \in Invitations : GenerateInvitation(p, j) \/ RegenerateInvitation(p, j)
      => req'[p] = Idle
  BY DEF AttemptClosed, CreateAttempt, SaveAnswer, CommitFinalize, NoIdLeft,
     RevokeInvitation, RequestDies, GenerateInvitation, RegenerateInvitation,
     Finish, TypeOK
<1> QED
  BY <1>1, <1>2, <1>4, <1>5, <1>6, <1>7, <1>8 DEF Progress

LEMMA RowsLinkedStep ==
  ASSUME TypeOK, Linked, [Next]_vars
  PROVE  RowsLinked'
<1>0. WritingStep \/ UNCHANGED <<now, rows>>
  BY StepIsReadOrWrite
<1>1. CASE UNCHANGED <<now, rows>> \/ Tick \/ ArchiveTest
  BY <1>1 DEF Linked, RowsLinked, Started, Tick, ArchiveTest
<1>2. ASSUME NEW p \in Requests, CreateAttempt(p)
      PROVE  RowsLinked'
  BY <1>2 DEF CreateAttempt, Linked, RowsLinked, RequestLinked, IsRow, Started,
     TypeOK
<1>3. ASSUME NEW p \in Requests, SaveAnswer(p)
      PROVE  RowsLinked'
  BY <1>3 DEF SaveAnswer, Linked, RowsLinked, Started, TypeOK, AttemptRow
<1>4. ASSUME NEW p \in Requests, CommitFinalize(p)
      PROVE  RowsLinked'
  BY <1>4 DEF CommitFinalize, Linked, RowsLinked, RequestLinked, IsRow, Started,
     TypeOK, InvitationRow
<1>5. ASSUME NEW p \in Requests, RevokeInvitation(p)
      PROVE  RowsLinked'
  BY <1>5 DEF RevokeInvitation, Linked, RowsLinked, RequestLinked, IsRow,
     Started, TypeOK, InvitationRow
<1>6. ASSUME NEW p \in Requests, NEW j \in Invitations, GenerateInvitation(p, j)
      PROVE  RowsLinked'
  BY <1>6 DEF GenerateInvitation, NewInvitation, Linked, RowsLinked,
     RequestLinked, Started, TypeOK, InvitationRow
<1>7. ASSUME NEW p \in Requests, NEW j \in Invitations, RegenerateInvitation(p, j)
      PROVE  RowsLinked'
  BY <1>7 DEF RegenerateInvitation, NewInvitation, Linked, RowsLinked,
     RequestLinked, IsRow, Started, TypeOK, InvitationRow
<1> QED
  BY <1>0, <1>1, <1>2, <1>3, <1>4, <1>5, <1>6, <1>7 DEF WritingStep

LEMMA LinkedStep ==
  ASSUME TypeOK, Linked, [Next]_vars
  PROVE  Linked'
<1>1. ASSUME NEW r \in Requests
      PROVE  RequestLinked(r)'
  <2>1. CASE req'[r] = req[r]
    BY <2>1, LinkStaysGood
  <2>2. CASE Arrive(r)
    BY <2>2, LinkAfterArrival
  <2>3. CASE Progress(r) \/ RequestDies(r)
    BY <2>3, LinkAfterProgress
  <2>4. ASSUME NEW p \in Requests, Arrive(p) \/ Progress(p) \/ RequestDies(p), r # p
        PROVE  req'[r] = req[r]
    BY <2>4, OnlyOneMoves
  <2>5. UNCHANGED vars \/ Tick \/ ArchiveTest => req'[r] = req[r]
    BY DEF Tick, ArchiveTest
  <2> QED
    BY <2>1, <2>2, <2>3, <2>4, <2>5 DEF Next
<1> QED
  BY <1>1, RowsLinkedStep DEF Linked

-----------------------------------------------------------------------------
(* Effects.  As far as the attempts go, a step opens one, closes one or    *)
(* leaves them all as they are, but for an answer.                         *)

KeepsAttempts ==
  /\ assignment' = assignment
  /\ \A i \in Invitations :
        /\ attempt'[i].status = attempt[i].status
        /\ attempt'[i].expiresAt = attempt[i].expiresAt
        /\ attempt'[i].submittedAt = attempt[i].submittedAt
        /\ attempt'[i].isCanonical = attempt[i].isCanonical
        /\ attempt'[i].result = attempt[i].result
        /\ Started(i) => invitation'[i].assignment = invitation[i].assignment

OpensAttempt(i, a) ==
  /\ i \in Invitations /\ a \in Assignments
  /\ ~ Started(i)
  /\ invitation[i].assignment = a
  /\ invitation' = invitation
  /\ attempt'[i].status = "IN_PROGRESS" /\ attempt'[i].result = None
  /\ \A k \in Invitations : k # i => attempt'[k] = attempt[k]
  /\ assignment'[a] = IF assignment[a] = "PENDING" THEN "IN_PROGRESS"
                                                   ELSE assignment[a]
  /\ \A b \in Assignments : b # a => assignment'[b] = assignment[b]

ClosesAttempt(i, a, r) ==
  /\ i \in Invitations /\ a \in Assignments
  /\ attempt[i].status = "IN_PROGRESS"
  /\ invitation[i].assignment = a
  /\ r \in RequestState /\ r.scored # None /\ r.prior # "unread"
  /\ r.invitation = i /\ r.pc = "score"
  /\ attempt'[i] = Closed(attempt[i], r)
  /\ \A k \in Invitations :
        /\ k # i => attempt'[k] = attempt[k]
        /\ invitation'[k].assignment = invitation[k].assignment
  /\ assignment'[a] = "COMPLETED"
  /\ \A b \in Assignments : b # a => assignment'[b] = assignment[b]

LEMMA Effects ==
  ASSUME TypeOK, Linked, [Next]_vars
  PROVE  \/ KeepsAttempts
         \/ \E i \in Invitations, a \in Assignments : OpensAttempt(i, a)
         \/ \E i \in Invitations, a \in Assignments, p \in Requests :
               ClosesAttempt(i, a, req[p])
<1>0. WritingStep \/ UNCHANGED <<now, rows>>
  BY StepIsReadOrWrite
<1>a. \A i \in Invitations : IsRow(i) => invitation[i].assignment \in Assignments
  BY DEF Linked, RowsLinked, IsRow
<1>b. \A i \in Invitations : Started(i) => IsRow(i)
  BY DEF Linked, RowsLinked, IsRow
<1>1. CASE UNCHANGED <<now, rows>> \/ Tick \/ ArchiveTest
  BY <1>1 DEF KeepsAttempts, Tick, ArchiveTest
<1>2. ASSUME NEW p \in Requests, CreateAttempt(p)
      PROVE  OpensAttempt(req[p].invitation, invitation[req[p].invitation].assignment)
  <2> DEFINE i == req[p].invitation
             a == invitation[i].assignment
  <2>1. i \in Invitations /\ a \in Assignments
    BY <1>2, <1>a DEF CreateAttempt, Linked, RequestLinked, IsRow
  <2>2. /\ attempt'[i].status = "IN_PROGRESS" /\ attempt'[i].result = None
        /\ \A k \in Invitations : k # i => attempt'[k] = attempt[k]
    BY <1>2, <2>1 DEF CreateAttempt, NoAttempt, TypeOK
  <2>3. /\ assignment'[a] = IF assignment[a] = "PENDING" THEN "IN_PROGRESS"
                                                         ELSE assignment[a]
        /\ \A b \in Assignments : b # a => assignment'[b] = assignment[b]
    BY <1>2, <2>1 DEF CreateAttempt, Begun, TypeOK
  <2> QED
    BY <1>2, <2>1, <2>2, <2>3 DEF CreateAttempt, OpensAttempt
<1>3. ASSUME NEW p \in Requests, SaveAnswer(p)
      PROVE  KeepsAttempts
  BY <1>3 DEF SaveAnswer, KeepsAttempts, TypeOK, AttemptRow
<1>4. ASSUME NEW p \in Requests, CommitFinalize(p)
      PROVE  \/ KeepsAttempts
             \/ ClosesAttempt(req[p].invitation,
                              invitation[req[p].invitation].assignment, req[p])
  <2> DEFINE i == req[p].invitation
             a == invitation[i].assignment
  <2>1. i \in Invitations /\ a \in Assignments /\ req[p] \in RequestState
    BY <1>4, <1>a DEF CommitFinalize, StillOpen, Linked, RequestLinked, IsRow, TypeOK
  <2>2. CASE attempt[i].status # "IN_PROGRESS"
    BY <1>4, <2>2 DEF CommitFinalize, StillOpen, KeepsAttempts
  <2>3. CASE attempt[i].status = "IN_PROGRESS"
    <3>1. /\ attempt'[i] = Closed(attempt[i], req[p])
          /\ \A k \in Invitations : k # i => attempt'[k] = attempt[k]
      BY <1>4, <2>1, <2>3 DEF CommitFinalize, StillOpen, TypeOK
    <3>2. \A k \in Invitations :
             invitation'[k].assignment = invitation[k].assignment
      BY <1>4, <2>1, <2>3 DEF CommitFinalize, StillOpen, TypeOK, InvitationRow
    <3>3. /\ assignment'[a] = "COMPLETED"
          /\ \A b \in Assignments : b # a => assignment'[b] = assignment[b]
      BY <1>4, <2>1, <2>3 DEF CommitFinalize, StillOpen, TypeOK
    <3> QED
      BY <1>4, <2>1, <2>3, <3>1, <3>2, <3>3 DEF CommitFinalize, StillOpen, ClosesAttempt
  <2> QED
    BY <2>2, <2>3
<1>5. ASSUME NEW p \in Requests,
             \/ RevokeInvitation(p)
             \/ \E j \in Invitations : GenerateInvitation(p, j)
             \/ \E j \in Invitations : RegenerateInvitation(p, j)
      PROVE  KeepsAttempts
  <2>1. assignment' = assignment /\ attempt' = attempt
    BY <1>5 DEF RevokeInvitation, GenerateInvitation, RegenerateInvitation
  <2>2. \A i \in Invitations :
           Started(i) => invitation'[i].assignment = invitation[i].assignment
    BY <1>b, RowsGrow
  <2> QED
    BY <2>1, <2>2 DEF KeepsAttempts
<1>6. ASSUME NEW p \in Requests, CreateAttempt(p) \/ CommitFinalize(p)
      PROVE  req[p].invitation \in Invitations /\
             invitation[req[p].invitation].assignment \in Assignments
  BY <1>6, <1>a DEF CreateAttempt, CommitFinalize, Linked, RequestLinked, IsRow
<1> QED
  BY <1>0, <1>1, <1>2, <1>3, <1>4, <1>5, <1>6 DEF WritingStep

(* What an effect does to the sets of attempts the properties speak of.    *)
LEMMA KeepsSets ==
  ASSUME KeepsAttempts
  PROVE  /\ \A i \in Invitations : IsTerminal(i)' = IsTerminal(i)
         /\ \A a \in Assignments : AttemptsOf(a)' = AttemptsOf(a)
BY DEF KeepsAttempts, IsTerminal, AttemptsOf, Started

LEMMA OpensSets ==
  ASSUME NEW i \in Invitations, NEW a \in Assignments, OpensAttempt(i, a)
  PROVE  /\ ~ IsTerminal(i) /\ ~ IsTerminal(i)'
         /\ \A k \in Invitations : k # i => IsTerminal(k)' = IsTerminal(k)
         /\ AttemptsOf(a)' = AttemptsOf(a) \cup {i}
         /\ \A b \in Assignments : b # a => AttemptsOf(b)' = AttemptsOf(b)
BY DEF OpensAttempt, IsTerminal, Terminal, AttemptsOf, Started

LEMMA ClosesSets ==
  ASSUME NEW i \in Invitations, NEW a \in Assignments, NEW r,
         ClosesAttempt(i, a, r)
  PROVE  /\ ~ IsTerminal(i) /\ IsTerminal(i)'
         /\ \A k \in Invitations : k # i => IsTerminal(k)' = IsTerminal(k)
         /\ i \in AttemptsOf(a)
         /\ \A b \in Assignments : AttemptsOf(b)' = AttemptsOf(b)
<1>1. attempt'[i].status \in Terminal
  BY DEF ClosesAttempt, Closed, RequestState
<1> QED
  BY <1>1 DEF ClosesAttempt, IsTerminal, Terminal, AttemptsOf, Started

-----------------------------------------------------------------------------
(* The invariants about closed attempts, one effect at a time.             *)

LEMMA StatusStep ==
  ASSUME TypeOK, Linked, [Next]_vars, AssignmentMatchesAttempts
  PROVE  AssignmentMatchesAttempts'
<1>1. CASE KeepsAttempts
  <2>1. \A a \in Assignments : DerivedStatus(a)' = DerivedStatus(a)
    BY <1>1, KeepsSets DEF DerivedStatus, AttemptsOf
  <2> QED
    BY <1>1, <2>1 DEF AssignmentMatchesAttempts, KeepsAttempts
<1>2. ASSUME NEW i \in Invitations, NEW a \in Assignments, OpensAttempt(i, a)
      PROVE  AssignmentMatchesAttempts'
  <2>1. ASSUME NEW b \in Assignments, b # a
        PROVE  assignment'[b] = DerivedStatus(b)'
    <3>1. DerivedStatus(b)' = DerivedStatus(b)
      <4>1. i \notin AttemptsOf(b)
        BY <1>2 DEF OpensAttempt, AttemptsOf
      <4> QED
        BY <1>2, <2>1, <4>1, OpensSets DEF DerivedStatus, AttemptsOf
    <3> QED
      BY <1>2, <2>1, <3>1 DEF AssignmentMatchesAttempts, OpensAttempt
  <2>2. assignment'[a] = DerivedStatus(a)'
    <3>1. /\ AttemptsOf(a)' # {}
          /\ (\E k \in AttemptsOf(a)' : IsTerminal(k)')
                <=> (\E k \in AttemptsOf(a) : IsTerminal(k))
      BY <1>2, OpensSets DEF AttemptsOf
    <3> QED
      BY <1>2, <3>1 DEF AssignmentMatchesAttempts, DerivedStatus, OpensAttempt
  <2> QED
    BY <2>1, <2>2 DEF AssignmentMatchesAttempts
<1>3. ASSUME NEW i \in Invitations, NEW a \in Assignments, NEW p \in Requests,
             ClosesAttempt(i, a, req[p])
      PROVE  AssignmentMatchesAttempts'
  <2>1. ASSUME NEW b \in Assignments, b # a
        PROVE  assignment'[b] = DerivedStatus(b)'
    <3>1. DerivedStatus(b)' = DerivedStatus(b)
      <4>1. i \notin AttemptsOf(b)
        BY <1>3, <2>1 DEF ClosesAttempt, AttemptsOf
      <4> QED
        BY <1>3, <2>1, <4>1, ClosesSets DEF DerivedStatus, AttemptsOf
    <3> QED
      BY <1>3, <2>1, <3>1 DEF AssignmentMatchesAttempts, ClosesAttempt
  <2>2. assignment'[a] = DerivedStatus(a)'
    BY <1>3, ClosesSets DEF DerivedStatus, ClosesAttempt
  <2> QED
    BY <2>1, <2>2 DEF AssignmentMatchesAttempts
<1> QED
  BY <1>1, <1>2, <1>3, Effects

LEMMA ResultStep ==
  ASSUME TypeOK, Linked, [Next]_vars, ResultIffClosed
  PROVE  ResultIffClosed'
<1>1. CASE KeepsAttempts
  BY <1>1, KeepsSets DEF ResultIffClosed, KeepsAttempts
<1>2. ASSUME NEW i \in Invitations, NEW a \in Assignments, OpensAttempt(i, a)
      PROVE  ResultIffClosed'
  BY <1>2, OpensSets DEF ResultIffClosed, OpensAttempt
<1>3. ASSUME NEW i \in Invitations, NEW a \in Assignments, NEW p \in Requests,
             ClosesAttempt(i, a, req[p])
      PROVE  ResultIffClosed'
  BY <1>3, ClosesSets DEF ResultIffClosed, ClosesAttempt, Closed
<1> QED
  BY <1>1, <1>2, <1>3, Effects

LEMMA CanonicalStep ==
  ASSUME TypeOK, Linked, [Next]_vars, CompletedHasCanonical,
         \A p \in Requests : ReadsStillHold(p)
  PROVE  CompletedHasCanonical'
<1>1. CASE KeepsAttempts
  BY <1>1, KeepsSets DEF CompletedHasCanonical, KeepsAttempts, AttemptsOf
<1>2. ASSUME NEW i \in Invitations, NEW a \in Assignments, OpensAttempt(i, a)
      PROVE  CompletedHasCanonical'
  <2>1. \A b \in Assignments :
           assignment'[b] = "COMPLETED" => assignment[b] = "COMPLETED"
    BY <1>2 DEF OpensAttempt
  <2>2. \A k \in Invitations : IsTerminal(k) =>
           IsTerminal(k)' /\ attempt'[k].isCanonical = attempt[k].isCanonical
    BY <1>2, OpensSets DEF OpensAttempt
  <2>3. \A b \in Assignments : AttemptsOf(b) \subseteq AttemptsOf(b)'
    BY <1>2, OpensSets
  <2> QED
    BY <2>1, <2>2, <2>3 DEF CompletedHasCanonical, AttemptsOf
<1>3. ASSUME NEW i \in Invitations, NEW a \in Assignments, NEW p \in Requests,
             ClosesAttempt(i, a, req[p])
      PROVE  CompletedHasCanonical'
  <2>1. \A k \in Invitations : IsTerminal(k) =>
           IsTerminal(k)' /\ attempt'[k].isCanonical = attempt[k].isCanonical
    BY <1>3, ClosesSets DEF ClosesAttempt
  <2>2. \A b \in Assignments : AttemptsOf(b)' = AttemptsOf(b)
    BY <1>3, ClosesSets
  <2>3. ASSUME NEW b \in Assignments, b # a, assignment'[b] = "COMPLETED"
        PROVE  \E k \in AttemptsOf(b)' : IsTerminal(k)' /\ attempt'[k].isCanonical
    BY <1>3, <2>1, <2>2, <2>3 DEF CompletedHasCanonical, ClosesAttempt, AttemptsOf
  <2>4. \E k \in AttemptsOf(a)' : IsTerminal(k)' /\ attempt'[k].isCanonical
    <3>1. CASE req[p].prior = "none"
      <4>0. attempt'[i].isCanonical = (req[p].prior = "none")
        BY <1>3 DEF ClosesAttempt, Closed
      <4>1. attempt'[i].isCanonical
        BY <3>1, <4>0, Zenon
      <4>2. IsTerminal(i)' /\ i \in AttemptsOf(a)
        BY <1>3, ClosesSets
      <4>3. i \in AttemptsOf(a)'
        BY <2>2, <4>2
      <4> QED
        BY <4>1, <4>2, <4>3
    <3>2. CASE req[p].prior = "exists"
      <4>1. OtherCanonical(i) # {} /\ invitation[i].assignment = a
        BY <1>3, <3>2 DEF ReadsStillHold, ClosesAttempt
      <4>2. PICK k \in AttemptsOf(a) : IsTerminal(k) /\ attempt[k].isCanonical
        BY <4>1 DEF OtherCanonical
      <4>3. k \in Invitations
        BY DEF AttemptsOf
      <4>4. k \in AttemptsOf(a)'
        BY <2>2
      <4> QED
        BY <2>1, <4>2, <4>3, <4>4
    <3> QED
      BY <1>3, <3>1, <3>2 DEF ClosesAttempt, RequestState
  <2> QED
    BY <2>3, <2>4 DEF CompletedHasCanonical
<1> QED
  BY <1>1, <1>2, <1>3, Effects

LEMMA LabelStep ==
  ASSUME TypeOK, Linked, [Next]_vars, LabelMatchesDeadline,
         \A p \in Requests : ReadsStillHold(p)
  PROVE  LabelMatchesDeadline'
<1>1. CASE KeepsAttempts
  BY <1>1, KeepsSets DEF LabelMatchesDeadline, KeepsAttempts
<1>2. ASSUME NEW i \in Invitations, NEW a \in Assignments, OpensAttempt(i, a)
      PROVE  LabelMatchesDeadline'
  BY <1>2, OpensSets DEF LabelMatchesDeadline, OpensAttempt
<1>3. ASSUME NEW i \in Invitations, NEW a \in Assignments, NEW p \in Requests,
             ClosesAttempt(i, a, req[p])
      PROVE  LabelMatchesDeadline'
  <2>1. req[p].finalStatus = "AUTO_SUBMITTED" <=> req[p].at >= attempt[i].expiresAt
    BY <1>3 DEF ReadsStillHold, ClosesAttempt
  <2>2. /\ attempt'[i].status = req[p].finalStatus
        /\ attempt'[i].submittedAt = req[p].at
        /\ attempt'[i].expiresAt = attempt[i].expiresAt
    BY <1>3 DEF ClosesAttempt, Closed
  <2> QED
    BY <1>3, <2>1, <2>2, ClosesSets DEF LabelMatchesDeadline, ClosesAttempt
<1> QED
  BY <1>1, <1>2, <1>3, Effects

-----------------------------------------------------------------------------
(* The one live link, and what a request remembers.                        *)

(* A live link stays with its assignment, and only an insert that found no *)
(* live link of that assignment makes a new one.                           *)
LEMMA LinkStep ==
  ASSUME TypeOK, Linked, [Next]_vars, OneLiveLink
  PROVE  OneLiveLink'
<1>0. WritingStep \/ UNCHANGED <<now, rows>>
  BY StepIsReadOrWrite
<1>1. ASSUME \A i \in Invitations :
                invitation'[i].status = "ACTIVE" =>
                   /\ invitation[i].status = "ACTIVE"
                   /\ invitation'[i].assignment = invitation[i].assignment
      PROVE  OneLiveLink'
  BY <1>1 DEF OneLiveLink, ActiveFor
<1>2. CASE \/ UNCHANGED <<now, rows>> \/ Tick \/ ArchiveTest
           \/ \E p \in Requests : CreateAttempt(p) \/ SaveAnswer(p)
  BY <1>1, <1>2 DEF Tick, ArchiveTest, CreateAttempt, SaveAnswer
<1>3. ASSUME NEW p \in Requests, CommitFinalize(p) \/ RevokeInvitation(p)
      PROVE  OneLiveLink'
  BY <1>1, <1>3 DEF CommitFinalize, RevokeInvitation, TypeOK, InvitationRow
<1>4. ASSUME NEW table \in [Invitations -> InvitationRow],
             NEW a \in Assignments, NEW from, NEW j \in Invitations,
             InsertAllowed(table, a, from),
             invitation' = [table EXCEPT ![j] = NewInvitation(a, from)],
             \A i \in Invitations :
                table[i].status = "ACTIVE" => table[i] = invitation[i]
      PROVE  OneLiveLink'
  <2>1. \A i \in Invitations : i # j => invitation'[i] = table[i]
    BY <1>4
  <2>2. invitation'[j].assignment = a
    BY <1>4 DEF NewInvitation
  <2>3. \A i \in Invitations :
           ~ (table[i].status = "ACTIVE" /\ table[i].assignment = a)
    BY <1>4 DEF InsertAllowed
  <2>4. ASSUME NEW b \in Assignments, NEW i \in Invitations, NEW k \in Invitations,
               invitation'[i].status = "ACTIVE", invitation'[i].assignment = b,
               invitation'[k].status = "ACTIVE", invitation'[k].assignment = b
        PROVE  i = k
    <3>1. CASE i # j /\ k # j
      BY <1>4, <2>1, <2>4, <3>1 DEF OneLiveLink, ActiveFor
    <3>2. CASE i = j \/ k = j
      BY <2>1, <2>2, <2>3, <2>4, <3>2
    <3> QED
      BY <3>1, <3>2
  <2> QED
    BY <2>4 DEF OneLiveLink, ActiveFor
<1>5. ASSUME NEW p \in Requests, NEW j \in Invitations, GenerateInvitation(p, j)
      PROVE  OneLiveLink'
  <2>1. req[p].assignment \in Assignments
    BY <1>5 DEF GenerateInvitation, Linked, RequestLinked
  <2>2. CASE InsertAllowed(invitation, req[p].assignment, None)
    BY <1>4, <1>5, <2>1, <2>2 DEF GenerateInvitation, TypeOK
  <2> QED
    BY <1>1, <1>5, <2>2 DEF GenerateInvitation
<1>6. ASSUME NEW p \in Requests, NEW j \in Invitations, RegenerateInvitation(p, j)
      PROVE  OneLiveLink'
  <2> DEFINE a       == req[p].assignment
             current == req[p].invitation
             revoked == [invitation EXCEPT ![current].status = "REVOKED"]
  <2>1. a \in Assignments
    BY <1>6 DEF RegenerateInvitation, Linked, RequestLinked
  <2>2. /\ revoked \in [Invitations -> InvitationRow]
        /\ \A i \in Invitations :
              revoked[i].status = "ACTIVE" => revoked[i] = invitation[i]
    BY DEF TypeOK, InvitationRow
  <2>3. CASE InsertAllowed(revoked, a, current)
    <3>1. invitation' = [revoked EXCEPT ![j] = NewInvitation(a, current)]
      BY <1>6, <2>3 DEF RegenerateInvitation
    <3> HIDE DEF revoked
    <3> QED
      BY <1>4, <2>1, <2>2, <2>3, <3>1
  <2>4. CASE ~ InsertAllowed(revoked, a, current)
    BY <1>1, <1>6, <2>4 DEF RegenerateInvitation
  <2> QED
    BY <2>3, <2>4
<1> QED
  BY <1>0, <1>2, <1>3, <1>5, <1>6 DEF WritingStep

(* Rows and the clock move so that what a request has read stays true.     *)
LEMMA RowsMoveOn ==
  ASSUME TypeOK, Linked, [Next]_vars, NEW i \in Invitations
  PROVE  /\ Started(i) => attempt'[i].expiresAt = attempt[i].expiresAt
         /\ Started(i) => (PastDeadline(i) => PastDeadline(i)')
         /\ Started(i) => (OtherCanonical(i) # {} => OtherCanonical(i)' # {})
<1>1. now \in Nat /\ now' \in Nat /\ now' >= now
  <2>1. now' = now \/ now' = now + 1
    BY StepIsReadOrWrite DEF WritingStep, Tick, ArchiveTest, CreateAttempt,
       SaveAnswer, CommitFinalize, RevokeInvitation, GenerateInvitation,
       RegenerateInvitation
  <2> QED
    BY <2>1 DEF TypeOK
<1>2. Started(i) => attempt'[i].expiresAt = attempt[i].expiresAt
  <2>1. ASSUME NEW k \in Invitations, NEW a \in Assignments, NEW p \in Requests,
               Started(i), ClosesAttempt(k, a, req[p])
        PROVE  attempt'[i].expiresAt = attempt[i].expiresAt
    BY <2>1 DEF ClosesAttempt, Closed
  <2>2. ASSUME NEW k \in Invitations, NEW a \in Assignments,
               Started(i), OpensAttempt(k, a)
        PROVE  attempt'[i].expiresAt = attempt[i].expiresAt
    BY <2>2 DEF OpensAttempt
  <2> QED
    BY <2>1, <2>2, Effects DEF KeepsAttempts
<1>3. Started(i) => (PastDeadline(i) => PastDeadline(i)')
  <2>1. attempt[i].expiresAt \in Nat
    BY DEF TypeOK, AttemptRow
  <2> QED
    BY <1>1, <1>2, <2>1 DEF PastDeadline
<1>4. ASSUME Started(i), NEW k \in OtherCanonical(i)
      PROVE  k \in OtherCanonical(i)'
  <2>1. /\ k \in Invitations /\ k # i /\ Started(k) /\ IsTerminal(k)
        /\ attempt[k].isCanonical
        /\ invitation[k].assignment = invitation[i].assignment
    BY DEF OtherCanonical, AttemptsOf
  <2>2. \A x \in {i, k} :
           invitation'[x].assignment = invitation[x].assignment
    BY <1>4, <2>1, RowsGrow DEF Linked, RowsLinked, IsRow
  <2>3. attempt'[k].status = attempt[k].status
        /\ attempt'[k].isCanonical = attempt[k].isCanonical
    BY <2>1, Effects DEF KeepsAttempts, OpensAttempt, ClosesAttempt, Started,
       IsTerminal, Terminal
  <2> QED
    BY <2>1, <2>2, <2>3 DEF OtherCanonical, AttemptsOf, Started, IsTerminal
<1> QED
  BY <1>2, <1>3, <1>4

LEMMA ReadsAfterProgress ==
  ASSUME TypeOK, Linked, [Next]_vars, NEW p \in Requests, ReadsStillHold(p),
         Arrive(p) \/ Progress(p) \/ RequestDies(p)
  PROVE  ReadsStillHold(p)'
<1>0. req[p] \in RequestState /\ RequestLinked(p)
  BY DEF TypeOK, Linked
<1>1. CASE req'[p].pc \notin {"finalize", "score"}
  BY <1>1 DEF ReadsStillHold
<1>2. CASE AttemptOpen(p)
  <2> DEFINE i    == req[p].invitation
             auto == [Idle EXCEPT !.pc = "finalize", !.invitation = i,
                                  !.trigger = "AUTO"]
             hand == [Idle EXCEPT !.pc = "finalize", !.invitation = i]
  <2>1. /\ auto.pc = "finalize" /\ auto.invitation = i
        /\ hand.pc = "finalize" /\ hand.trigger = "MANUAL"
    <3> HIDE DEF i
    <3> QED  BY DEF Idle
  <2>2. \/ req'[p].pc \notin {"finalize", "score"}
        \/ req'[p] = auto /\ PastDeadline(i)
        \/ req'[p] = hand
    <3> HIDE DEF auto, hand
    <3>1. Idle.pc = "idle"
      BY DEF Idle
    <3>2. \/ req' = [req EXCEPT ![p].pc = "save"]
          \/ req' = [req EXCEPT ![p] = Idle]
          \/ req' = [req EXCEPT ![p] = auto] /\ PastDeadline(i)
          \/ req' = [req EXCEPT ![p] = hand]
      BY <1>2 DEF AttemptOpen, Become, Finish, auto, hand
    <3> QED
      BY <1>0, <3>1, <3>2 DEF TypeOK, RequestState
  <2>3. CASE req'[p] = auto /\ PastDeadline(i)
    <3>1. now' = now /\ attempt' = attempt
      BY <1>2 DEF AttemptOpen
    <3> HIDE DEF auto
    <3>2. /\ req'[p].pc = "finalize"
          /\ now >= attempt[req'[p].invitation].expiresAt
      BY <2>1, <2>3 DEF PastDeadline
    <3> QED
      BY <3>1, <3>2 DEF ReadsStillHold, PastDeadline
  <2>4. CASE req'[p] = hand
    <3> HIDE DEF hand
    <3> QED
      BY <2>1, <2>4 DEF ReadsStillHold
  <2> QED
    BY <1>1, <2>2, <2>3, <2>4
<1>3. CASE FinalizeRead(p)
  <2> DEFINE i == req[p].invitation
             s == IF req[p].trigger = "AUTO" \/ PastDeadline(i)
                  THEN "AUTO_SUBMITTED" ELSE "SUBMITTED"
             r == [Idle EXCEPT !.pc = "score", !.invitation = i,
                               !.trigger = req[p].trigger, !.at = now,
                               !.finalStatus = s]
  <2>1. /\ r.pc = "score" /\ r.invitation = i /\ r.at = now
        /\ r.finalStatus = s /\ r.prior = "unread"
    <3> HIDE DEF s, i
    <3> QED  BY DEF Idle
  <2>2. s = "AUTO_SUBMITTED" <=> PastDeadline(i)
    BY <1>3 DEF ReadsStillHold, FinalizeRead
  <2>3. req'[p].pc \notin {"finalize", "score"} \/ req'[p] = r
    <3> HIDE DEF r
    <3>1. Idle.pc = "idle"
      BY DEF Idle
    <3>2. req' = [req EXCEPT ![p] = Idle] \/ req' = [req EXCEPT ![p] = r]
      BY <1>3 DEF FinalizeRead, Become, Finish, r
    <3> QED
      BY <3>1, <3>2 DEF TypeOK
  <2>4. CASE req'[p] = r
    <3>1. attempt' = attempt
      BY <1>3 DEF FinalizeRead
    <3> HIDE DEF r, s
    <3> QED
      BY <2>1, <2>2, <2>4, <3>1 DEF ReadsStillHold, PastDeadline
  <2> QED
    BY <1>1, <2>3, <2>4
<1>4. CASE ReadAnswers(p)
  <2>1. /\ req'[p].pc = "score" /\ req[p].pc = "score"
        /\ req'[p].invitation = req[p].invitation
        /\ req'[p].finalStatus = req[p].finalStatus
        /\ req'[p].at = req[p].at /\ req'[p].prior = req[p].prior
    BY <1>0, <1>4 DEF ReadAnswers, TypeOK, RequestState
  <2>2. UNCHANGED rows
    BY <1>4 DEF ReadAnswers
  <2> QED
    BY <2>1, <2>2 DEF ReadsStillHold, OtherCanonical, AttemptsOf, Started, IsTerminal
<1>5. CASE ReadPriorCanonical(p)
  <2>1. /\ req'[p].pc = "score" /\ req[p].pc = "score"
        /\ req'[p].invitation = req[p].invitation
        /\ req'[p].finalStatus = req[p].finalStatus
        /\ req'[p].at = req[p].at
        /\ req'[p].prior = "exists" => OtherCanonical(req[p].invitation) # {}
    BY <1>0, <1>5 DEF ReadPriorCanonical, TypeOK, RequestState
  <2>2. UNCHANGED rows
    BY <1>5 DEF ReadPriorCanonical
  <2> QED
    BY <2>1, <2>2 DEF ReadsStillHold, OtherCanonical, AttemptsOf, Started, IsTerminal
<1>6. ASSUME NEW i \in Invitations, NEW q, NEW c, NEW o,
             \/ ValidateToken(p, o, i, q, c) \/ CheckRevocable(p, i)
             \/ \E a \in Assignments : CheckAssignment(p, o, a)
      PROVE  req'[p].pc \notin {"finalize", "score"}
  <2>1. CASE ValidateToken(p, o, i, q, c)
    BY <2>1 DEF ValidateToken, Become, Idle, TypeOK
  <2>2. CASE CheckRevocable(p, i)
    BY <2>2 DEF CheckRevocable, Become, Idle, TypeOK
  <2>3. ASSUME NEW a \in Assignments, CheckAssignment(p, o, a)
        PROVE  req'[p].pc \notin {"finalize", "score"}
    BY <2>3 DEF CheckAssignment, Become, Idle, TypeOK
  <2> QED
    BY <1>6, <2>1, <2>2, <2>3
<1>7. Idle.pc = "idle"
  BY DEF Idle
<1>8. ASSUME \/ NoAttemptYet(p) \/ AttemptClosed(p) \/ CreateAttempt(p)
             \/ CreateConflict(p) \/ SaveAnswer(p) \/ CommitFinalize(p)
             \/ FindActive(p) \/ NoIdLeft(p) \/ RevokeInvitation(p)
             \/ RequestDies(p)
             \/ \E j \in Invitations :
                   GenerateInvitation(p, j) \/ RegenerateInvitation(p, j)
      PROVE  req'[p].pc \notin {"finalize", "score"}
  BY <1>0, <1>7, <1>8 DEF NoAttemptYet, AttemptClosed, CreateAttempt,
     CreateConflict, SaveAnswer, CommitFinalize, FindActive, NoIdLeft,
     RevokeInvitation, RequestDies, GenerateInvitation, RegenerateInvitation,
     Finish, TypeOK, RequestState
<1>9. ASSUME NEW o, NEW a, CheckAssignment(p, o, a)
      PROVE  req'[p].pc \notin {"finalize", "score"}
  BY <1>9 DEF CheckAssignment, Become, Idle, TypeOK
<1>10. Arrive(p) => req'[p].pc \notin {"finalize", "score"}
  BY <1>6, <1>9 DEF Arrive
<1> QED
  BY <1>1, <1>2, <1>3, <1>4, <1>5, <1>8, <1>10 DEF Progress

LEMMA ReadsStep ==
  ASSUME TypeOK, Linked, [Next]_vars, \A p \in Requests : ReadsStillHold(p)
  PROVE  \A p \in Requests : ReadsStillHold(p)'
<1>1. ASSUME NEW r \in Requests
      PROVE  ReadsStillHold(r)'
  <2>1. CASE req'[r] = req[r]
    <3>0. ReadsStillHold(r) /\ RequestLinked(r)
      BY DEF Linked
    <3>1. CASE req[r].pc \in {"finalize", "score"}
      <4>1. PICK i \in Invitations : req[r].invitation = i /\ Started(i)
        BY <3>0, <3>1 DEF RequestLinked, IsRow
      <4>2. /\ attempt'[i].expiresAt = attempt[i].expiresAt
            /\ PastDeadline(i) => PastDeadline(i)'
            /\ OtherCanonical(i) # {} => OtherCanonical(i)' # {}
        BY <4>1, RowsMoveOn
      <4>3. /\ req[r].pc = "finalize" /\ req[r].trigger = "AUTO" => PastDeadline(i)
            /\ req[r].pc = "score" =>
                 (req[r].finalStatus = "AUTO_SUBMITTED"
                    <=> req[r].at >= attempt[i].expiresAt)
            /\ req[r].pc = "score" /\ req[r].prior = "exists" =>
                  OtherCanonical(i) # {}
        BY <3>0, <4>1 DEF ReadsStillHold
      <4> QED
        BY <2>1, <4>1, <4>2, <4>3 DEF ReadsStillHold
    <3>2. CASE req[r].pc \notin {"finalize", "score"}
      BY <2>1, <3>2 DEF ReadsStillHold
    <3> QED
      BY <3>1, <3>2
  <2>2. CASE Arrive(r) \/ Progress(r) \/ RequestDies(r)
    BY <2>2, ReadsAfterProgress
  <2>3. ASSUME NEW p \in Requests, Arrive(p) \/ Progress(p) \/ RequestDies(p), r # p
        PROVE  req'[r] = req[r]
    BY <2>3, OnlyOneMoves
  <2>4. UNCHANGED vars \/ Tick \/ ArchiveTest => req'[r] = req[r]
    BY DEF Tick, ArchiveTest
  <2> QED
    BY <2>1, <2>2, <2>3, <2>4 DEF Next
<1> QED
  BY <1>1

-----------------------------------------------------------------------------
(* The theorems.                                                           *)

LEMMA InitIInv == Init => IInv
<1> SUFFICES ASSUME Init PROVE IInv
  OBVIOUS
<1>1. TypeOK
  BY InitType
<1>2. \A i \in Invitations : attempt[i].status = "ABSENT" /\ attempt[i].result = None
  BY DEF Init, NoAttempt
<1>3. \A i \in Invitations : ~ Started(i) /\ ~ IsTerminal(i)
  BY <1>2 DEF Started, IsTerminal, Terminal
<1>4. \A a \in Assignments : AttemptsOf(a) = {} /\ ActiveFor(a) = {}
  BY <1>3 DEF AttemptsOf, ActiveFor, Init, NoInvitation
<1>5. RowsLinked
  BY <1>3 DEF RowsLinked, Init, NoInvitation
<1>6. \A p \in Requests : RequestLinked(p) /\ ReadsStillHold(p)
  BY DEF Init, Idle, RequestLinked, ReadsStillHold
<1>7. AssignmentMatchesAttempts
  BY <1>4 DEF Init, AssignmentMatchesAttempts, DerivedStatus
<1>8. ResultIffClosed /\ LabelMatchesDeadline
  BY <1>2, <1>3 DEF ResultIffClosed, LabelMatchesDeadline
<1>9. CompletedHasCanonical /\ OneLiveLink
  BY <1>4 DEF Init, CompletedHasCanonical, OneLiveLink
<1> QED
  BY <1>1, <1>5, <1>6, <1>7, <1>8, <1>9 DEF IInv

LEMMA NextIInv == IInv /\ [Next]_vars => IInv'
<1> SUFFICES ASSUME IInv, [Next]_vars PROVE IInv'
  OBVIOUS
<1>1. Linked
  BY DEF IInv, Linked
<1>2. TypeOK' /\ Linked'
  BY <1>1, TypeStep, LinkedStep DEF IInv, Linked
<1>3. \A p \in Requests : ReadsStillHold(p)'
  BY <1>1, ReadsStep DEF IInv
<1>4. AssignmentMatchesAttempts' /\ ResultIffClosed' /\ OneLiveLink'
  BY <1>1, StatusStep, ResultStep, LinkStep DEF IInv
<1>5. CompletedHasCanonical' /\ LabelMatchesDeadline'
  BY <1>1, CanonicalStep, LabelStep DEF IInv
<1> QED
  BY <1>2, <1>3, <1>4, <1>5 DEF IInv, Linked

(* The invariant is inductive: it holds in every reachable state.          *)
THEOREM Invariance == Spec => []IInv
BY InitIInv, NextIInv, PTL DEF Spec

(* Every variable keeps its type, in particular every row of a result, an  *)
(* attempt or a request that was assembled from several reads.             *)
THEOREM TypeCorrect == Spec => []TypeOK
<1>1. IInv => TypeOK
  BY DEF IInv
<1> QED
  BY <1>1, Invariance, PTL

(* PlacementAssignment.status, written by createNewAttempt and by          *)
(* finalizeAttempt, always says what the attempts of the assignment say.   *)
THEOREM StatusIsDerived == Spec => []AssignmentMatchesAttempts
<1>1. IInv => AssignmentMatchesAttempts
  BY DEF IInv
<1> QED
  BY <1>1, Invariance, PTL

(* finalizeAttempt: an attempt has a result exactly when it is closed, and *)
(* a completed assignment has an official one, whatever was read outside   *)
(* the transaction.                                                        *)
THEOREM ResultsAreComplete == Spec => [](ResultIffClosed /\ CompletedHasCanonical)
<1>1. IInv => ResultIffClosed /\ CompletedHasCanonical
  BY DEF IInv
<1> QED
  BY <1>1, Invariance, PTL

(* ... so an admin who sees COMPLETED has an official attempt to show.     *)
THEOREM CompletedIsOfficial == Spec => []CompletedHasCanonical
<1>1. IInv => CompletedHasCanonical
  BY DEF IInv
<1> QED
  BY <1>1, Invariance, PTL

(* generateInvitation and regenerateInvitation never leave two live links. *)
THEOREM LinkIsUnique == Spec => []OneLiveLink
<1>1. IInv => OneLiveLink
  BY DEF IInv
<1> QED
  BY <1>1, Invariance, PTL

(* AUTO_SUBMITTED is written exactly when the deadline had passed.         *)
THEOREM LabelIsHonest == Spec => []LabelMatchesDeadline
<1>1. IInv => LabelMatchesDeadline
  BY DEF IInv
<1> QED
  BY <1>1, Invariance, PTL

(* A closed attempt is never closed again nor changed: the guard inside    *)
(* finalizeAttempt's transaction is enough for manual and lazy submissions *)
(* that run at once.                                                       *)
THEOREM ClosingIsFinal == Spec => ClosedIsFinal
<1>1. ASSUME IInv, [Next]_vars, NEW i \in Invitations, IsTerminal(i)
      PROVE  /\ attempt'[i].status = attempt[i].status
             /\ attempt'[i].result = attempt[i].result
             /\ attempt'[i].submittedAt = attempt[i].submittedAt
             /\ attempt'[i].isCanonical = attempt[i].isCanonical
  <2>1. TypeOK /\ Linked
    BY <1>1 DEF IInv, Linked
  <2>2. CASE KeepsAttempts
    BY <2>2 DEF KeepsAttempts
  <2>3. ASSUME NEW k \in Invitations, NEW a \in Assignments, OpensAttempt(k, a)
        PROVE  attempt'[i] = attempt[i]
    BY <1>1, <2>3, OpensSets DEF OpensAttempt
  <2>4. ASSUME NEW k \in Invitations, NEW a \in Assignments, NEW p \in Requests,
               ClosesAttempt(k, a, req[p])
        PROVE  attempt'[i] = attempt[i]
    BY <1>1, <2>4, ClosesSets DEF ClosesAttempt
  <2> QED
    BY <1>1, <2>1, <2>2, <2>3, <2>4, Effects
<1>2. IInv /\ [Next]_vars =>
        [\A i \in Invitations : IsTerminal(i) =>
           /\ attempt'[i].status = attempt[i].status
           /\ attempt'[i].result = attempt[i].result
           /\ attempt'[i].submittedAt = attempt[i].submittedAt
           /\ attempt'[i].isCanonical = attempt[i].isCanonical]_vars
  BY <1>1
<1> QED
  BY <1>2, Invariance, PTL DEF Spec, ClosedIsFinal

-----------------------------------------------------------------------------
(* Refinement.                                                             *)

LEMMA PromiseStart ==
  ASSUME Init
  PROVE  Promise!PromiseInit
<1>1. \A i \in Invitations :
         ~ Started(i) /\ ~ IsTerminal(i) /\ attempt[i].result = None
  BY DEF Init, NoAttempt, Started, IsTerminal, Terminal
<1> QED
  BY <1>1 DEF Init, Promise!PromiseInit

LEMMA PromiseStep ==
  ASSUME IInv, IInv', [Next]_vars
  PROVE  [Promise!PromiseNext]_(Promise!promiseVars)
<1>0. TypeOK /\ Linked
  BY DEF IInv, Linked
<1> DEFINE ownerOf  == [i \in Invitations |->
                          IF Started(i) THEN invitation[i].assignment ELSE None]
           outcomeOf == [i \in Invitations |-> attempt[i].result]
           officials == {i \in Invitations : IsTerminal(i) /\ attempt[i].isCanonical}
<1>1. CASE KeepsAttempts
  <2>1. ownerOf' = ownerOf
    BY <1>1 DEF KeepsAttempts, Started
  <2>2. outcomeOf' = outcomeOf
    BY <1>1 DEF KeepsAttempts
  <2>3. officials' = officials
    BY <1>1 DEF KeepsAttempts, IsTerminal
  <2> QED
    BY <1>1, <2>1, <2>2, <2>3 DEF KeepsAttempts, Promise!promiseVars
<1>2. ASSUME NEW i \in Invitations, NEW a \in Assignments, OpensAttempt(i, a)
      PROVE  Promise!BeginSitting(i, a)
  <2>1. ownerOf[i] = None /\ ownerOf' = [ownerOf EXCEPT ![i] = a]
    BY <1>2 DEF OpensAttempt, Started
  <2>2. attempt[i].result = None
    BY <1>2, OpensSets DEF IInv, ResultIffClosed
  <2>3. outcomeOf' = outcomeOf
    BY <1>2, <2>2 DEF OpensAttempt
  <2>4. officials' = officials
    BY <1>2, OpensSets DEF OpensAttempt
  <2>5. assignment' = [assignment EXCEPT ![a] =
                         IF @ = "PENDING" THEN "IN_PROGRESS" ELSE @]
    BY <1>2 DEF OpensAttempt, IInv, TypeOK
  <2> QED
    BY <2>1, <2>3, <2>4, <2>5 DEF Promise!BeginSitting
<1>3. ASSUME NEW i \in Invitations, NEW a \in Assignments, NEW p \in Requests,
             ClosesAttempt(i, a, req[p])
      PROVE  \E r \in Answers : Promise!CloseSitting(i, r)
  <2>1. ownerOf' = ownerOf
    <3>1. \A k \in Invitations : Started(k)' = Started(k)
      <4>1. Started(i) /\ Started(i)'
        BY <1>3, ClosesSets DEF ClosesAttempt, Started, IsTerminal, Terminal
      <4> QED
        BY <1>3, <4>1 DEF ClosesAttempt, Started
    <3> QED
      BY <1>3, <3>1 DEF ClosesAttempt
  <2>2. ownerOf[i] = a /\ a # None
    BY <1>3, NoneAssumption DEF ClosesAttempt, Started
  <2>3. outcomeOf[i] = None
    BY <1>3, ClosesSets DEF IInv, ResultIffClosed
  <2>4. req[p].scored \in Answers
    BY <1>3 DEF ClosesAttempt, RequestState
  <2>5. outcomeOf' = [outcomeOf EXCEPT ![i] = req[p].scored]
    <3>1. attempt'[i].result = req[p].scored
      BY <1>3 DEF ClosesAttempt, Closed
    <3>2. \A k \in Invitations : k # i => attempt'[k].result = attempt[k].result
      BY <1>3 DEF ClosesAttempt
    <3> QED
      BY <3>1, <3>2
  <2>6. assignment' = [assignment EXCEPT ![a] = "COMPLETED"]
    BY <1>3 DEF ClosesAttempt, IInv, TypeOK
  <2>7. \A k \in Invitations : k # i => (k \in officials' <=> k \in officials)
    BY <1>3, ClosesSets DEF ClosesAttempt
  <2>8. attempt'[i].isCanonical = (req[p].prior = "none") /\ IsTerminal(i)'
        /\ i \notin officials
    BY <1>3, ClosesSets DEF ClosesAttempt, Closed
  <2>9. CASE req[p].prior = "none"
    <3>1. attempt'[i].isCanonical
      BY <2>8, <2>9, Zenon
    <3>2. officials' = officials \cup {i}
      BY <2>7, <2>8, <3>1
    <3> QED
      BY <2>1, <2>2, <2>3, <2>4, <2>5, <2>6, <3>2 DEF Promise!CloseSitting
  <2>10. CASE req[p].prior = "exists"
    <3>1. ~ attempt'[i].isCanonical
      <4>1. req[p].prior # "none"
        BY <2>10
      <4> QED
        BY <2>8, <4>1, Zenon
    <3>2. officials' = officials
      BY <2>7, <2>8, <3>1
    <3>3. PICK k \in OtherCanonical(i) : TRUE
      BY <1>3, <2>10 DEF IInv, ReadsStillHold, ClosesAttempt
    <3>4. k \in officials /\ ownerOf[k] = a
      BY <1>3, <3>3 DEF OtherCanonical, AttemptsOf, ClosesAttempt
    <3>5. Promise!OfficialOf(a) # {}
      BY <3>4 DEF Promise!OfficialOf
    <3> QED
      BY <2>1, <2>2, <2>3, <2>4, <2>5, <2>6, <3>2, <3>5 DEF Promise!CloseSitting
  <2> QED
    BY <1>3, <2>9, <2>10 DEF ClosesAttempt, RequestState
<1> QED
  BY <1>0, <1>1, <1>2, <1>3, Effects DEF Promise!PromiseNext

(* Links, requests and transactions implement the abstract promise.        *)
THEOREM Refinement == Spec => KeepsPromise
<1>1. Init => Promise!PromiseInit
  BY PromiseStart
<1>2. IInv /\ IInv' /\ [Next]_vars => [Promise!PromiseNext]_(Promise!promiseVars)
  BY PromiseStep
<1> QED
  BY <1>1, <1>2, Invariance, PTL DEF Spec, KeepsPromise, Promise!PromiseSpec

-----------------------------------------------------------------------------
(* What overlapping requests break and requests that follow one another    *)
(* keep, for every number of assignments, links, questions and options:    *)
(* the three invariants of the serial run.                                 *)

(* One request at a time.                                                  *)
Serial == \A p, q \in Requests : p = q

(* With nobody in between, what a request has read is still true.          *)
StillTrue(r) ==
  /\ r.pc \in {"attempt", "create", "save", "finalize", "score", "revoke"}
        => invitation[r.invitation].status = "ACTIVE"
  /\ r.pc = "save" => attempt[r.invitation].status = "IN_PROGRESS"
  /\ r.pc = "score" /\ r.scored # None => r.scored = attempt[r.invitation].answers
  /\ r.pc \in {"find", "issue"} => assignment[r.assignment] # "COMPLETED"
  /\ r.pc = "issue" /\ r.op = "regenerate"
        => invitation[r.invitation].status = "ACTIVE"

SInv == /\ \A p \in Requests : StillTrue(req[p])
        /\ ResultReflectsAnswers /\ ClosedMeansUsed /\ CompletedHasNoLiveLink

Kept == UNCHANGED <<assignment, invitation, attempt>>

-----------------------------------------------------------------------------
LEMMA IdleTrue == StillTrue(Idle) /\ StillTrue(Idle)'
BY DEF StillTrue, Idle

(* The only request is the one that moves.                                 *)
LEMMA OnlyRequest ==
  ASSUME Serial, IInv, NEW p \in Requests, NEW r, req' = [req EXCEPT ![p] = r],
         StillTrue(r)'
  PROVE  \A q \in Requests : StillTrue(req[q])'
<1>1. ASSUME NEW q \in Requests PROVE StillTrue(req[q])'
  <2>1. q = p
    BY DEF Serial
  <2>2. req'[q] = r
    BY <2>1 DEF IInv, TypeOK
  <2> QED
    BY <2>2 DEF StillTrue
<1> QED
  BY <1>1

LEMMA KeptHolds ==
  ASSUME SInv, Kept
  PROVE  ResultReflectsAnswers' /\ ClosedMeansUsed' /\ CompletedHasNoLiveLink'
BY DEF SInv, Kept, ResultReflectsAnswers, ClosedMeansUsed, CompletedHasNoLiveLink,
   IsTerminal, ActiveFor

(* A step that reads and goes on with r, or ends.                          *)
LEMMA ReadMoves ==
  ASSUME Serial, IInv, SInv, Kept, NEW p \in Requests, NEW r,
         req' = [req EXCEPT ![p] = r], StillTrue(r)
  PROVE  SInv'
<1>1. StillTrue(r)'
  BY DEF Kept, StillTrue
<1> QED
  BY <1>1, OnlyRequest, KeptHolds DEF SInv

LEMMA ReadEnds ==
  ASSUME Serial, IInv, SInv, Kept, NEW p \in Requests, Finish(p)
  PROVE  SInv'
BY IdleTrue, ReadMoves DEF Finish

LEMMA RequestRow ==
  ASSUME IInv, SInv, NEW p \in Requests
  PROVE  req[p] \in RequestState /\ StillTrue(req[p])
BY DEF IInv, TypeOK, SInv

LEMMA ArriveStep ==
  ASSUME Serial, IInv, SInv, NEW p \in Requests, Arrive(p)
  PROVE  SInv'
<1>1. ASSUME NEW o, NEW i \in Invitations, NEW q, NEW c, ValidateToken(p, o, i, q, c)
      PROVE  SInv'
  <2> DEFINE r == [Idle EXCEPT !.pc = "attempt", !.op = o, !.invitation = i,
                            !.question = q, !.option = c,
                            !.published = (testStatus = "PUBLISHED")]
  <2>1. req' = [req EXCEPT ![p] = r] /\ Kept /\ invitation[i].status = "ACTIVE"
    BY <1>1 DEF ValidateToken, Become, Kept, rows
  <2>2. r.pc = "attempt" /\ r.invitation = i
    BY DEF Idle
  <2> HIDE DEF r
  <2>3. StillTrue(r)
    BY <2>1, <2>2 DEF StillTrue
  <2> QED
    BY <2>1, <2>3, ReadMoves
<1>2. ASSUME NEW i \in Invitations, CheckRevocable(p, i)
      PROVE  SInv'
  <2> DEFINE r == [Idle EXCEPT !.pc = "revoke", !.invitation = i]
  <2>1. req' = [req EXCEPT ![p] = r] /\ Kept /\ invitation[i].status = "ACTIVE"
    BY <1>2 DEF CheckRevocable, Become, Kept, rows
  <2>2. r.pc = "revoke" /\ r.invitation = i
    BY DEF Idle
  <2> HIDE DEF r
  <2>3. StillTrue(r)
    BY <2>1, <2>2 DEF StillTrue
  <2> QED
    BY <2>1, <2>3, ReadMoves
<1>3. ASSUME NEW o, NEW a \in Assignments, CheckAssignment(p, o, a)
      PROVE  SInv'
  <2> DEFINE r == [Idle EXCEPT !.pc = "find", !.op = o, !.assignment = a]
  <2>1. req' = [req EXCEPT ![p] = r] /\ Kept /\ assignment[a] # "COMPLETED"
    BY <1>3 DEF CheckAssignment, Become, Kept, rows
  <2>2. r.pc = "find" /\ r.assignment = a
    BY DEF Idle
  <2> HIDE DEF r
  <2>3. StillTrue(r)
    BY <2>1, <2>2 DEF StillTrue
  <2> QED
    BY <2>1, <2>3, ReadMoves
<1> QED
  BY <1>1, <1>2, <1>3 DEF Arrive

LEMMA ReadingStep ==
  ASSUME Serial, IInv, SInv, NEW p \in Requests,
         \/ NoAttemptYet(p) \/ AttemptClosed(p) \/ AttemptOpen(p)
         \/ CreateConflict(p) \/ FinalizeRead(p) \/ ReadAnswers(p)
         \/ ReadPriorCanonical(p) \/ FindActive(p) \/ NoIdLeft(p) \/ RequestDies(p)
  PROVE  SInv'
<1>1. Kept
  BY DEF NoAttemptYet, AttemptClosed, AttemptOpen, CreateConflict, FinalizeRead,
     ReadAnswers, ReadPriorCanonical, FindActive, NoIdLeft, RequestDies, Kept, rows
<1>2. req[p] \in RequestState /\ StillTrue(req[p])
  BY RequestRow
<1>3. CASE Finish(p)
  BY <1>1, <1>3, ReadEnds
(* The request goes on with what it has.                                   *)
<1>4. ASSUME NEW r, req' = [req EXCEPT ![p] = r], r.invitation = req[p].invitation,
             \/ r.pc \in {"attempt", "create"} /\ req[p].pc \in {"attempt", "create"}
             \/ r.pc = "save" /\ req[p].pc = "attempt"
                /\ attempt[r.invitation].status = "IN_PROGRESS"
             \/ r.pc = "finalize" /\ req[p].pc = "attempt"
             \/ r.pc = "score" /\ req[p].pc \in {"finalize", "score"}
                /\ (r.scored = None \/ r.scored = req[p].scored
                      \/ r.scored = attempt[req[p].invitation].answers)
                /\ (req[p].pc = "finalize" => r.scored = None)
      PROVE  SInv'
  <2>1. StillTrue(r)
    BY <1>2, <1>4 DEF StillTrue
  <2> QED
    BY <1>1, <1>4, <2>1, ReadMoves
<1>5. CASE NoAttemptYet(p)
  <2>1. PICK r : r = [req[p] EXCEPT !.pc = "create", !.at = now]
    OBVIOUS
  <2>2. r.pc = "create" /\ r.invitation = req[p].invitation
    BY <1>2, <2>1 DEF RequestState
  <2>3. CASE req' = [req EXCEPT ![p] = r]
    BY <1>4, <1>5, <2>2, <2>3 DEF NoAttemptYet
  <2> QED
    BY <1>3, <1>5, <2>1, <2>3 DEF NoAttemptYet
<1>6. CASE AttemptClosed(p)
  BY <1>3, <1>6 DEF AttemptClosed
<1>7. CASE AttemptOpen(p)
  <2>1. req[p].pc = "attempt" /\ attempt[req[p].invitation].status = "IN_PROGRESS"
    BY <1>7 DEF AttemptOpen
  <2>2. ASSUME NEW r, req' = [req EXCEPT ![p] = r], r.pc \in {"finalize", "save"},
               r.invitation = req[p].invitation
        PROVE  SInv'
    BY <1>4, <2>1, <2>2
  <2>3. CASE Become(p, [Idle EXCEPT !.pc = "finalize", !.invitation = req[p].invitation,
                                    !.trigger = "AUTO"])
    <3>1. PICK r : r = [Idle EXCEPT !.pc = "finalize", !.invitation = req[p].invitation,
                                    !.trigger = "AUTO"]
      OBVIOUS
    <3>2. r.pc = "finalize" /\ r.invitation = req[p].invitation
      BY <3>1 DEF Idle
    <3> QED
      BY <2>2, <2>3, <3>1, <3>2 DEF Become
  <2>4. CASE Become(p, [Idle EXCEPT !.pc = "finalize", !.invitation = req[p].invitation])
    <3>1. PICK r : r = [Idle EXCEPT !.pc = "finalize", !.invitation = req[p].invitation]
      OBVIOUS
    <3>2. r.pc = "finalize" /\ r.invitation = req[p].invitation
      BY <3>1 DEF Idle
    <3> QED
      BY <2>2, <2>4, <3>1, <3>2 DEF Become
  <2>5. CASE req' = [req EXCEPT ![p].pc = "save"]
    <3>1. PICK r : r = [req[p] EXCEPT !.pc = "save"]
      OBVIOUS
    <3>2. r.pc = "save" /\ r.invitation = req[p].invitation
      BY <1>2, <3>1 DEF RequestState
    <3> QED
      BY <2>2, <2>5, <3>1, <3>2
  <2> QED
    BY <1>3, <1>7, <2>3, <2>4, <2>5 DEF AttemptOpen
<1>8. CASE CreateConflict(p)
  <2>1. PICK r : r = [req[p] EXCEPT !.pc = "attempt"]
    OBVIOUS
  <2>2. r.pc = "attempt" /\ r.invitation = req[p].invitation
    BY <1>2, <2>1 DEF RequestState
  <2> QED
    BY <1>4, <1>8, <2>1, <2>2 DEF CreateConflict
<1>9. CASE FinalizeRead(p)
  <2> DEFINE s == IF req[p].trigger = "AUTO" \/ PastDeadline(req[p].invitation)
                  THEN "AUTO_SUBMITTED" ELSE "SUBMITTED"
  <2>1. PICK r : r = [Idle EXCEPT !.pc = "score", !.invitation = req[p].invitation,
                            !.trigger = req[p].trigger, !.at = now, !.finalStatus = s]
    OBVIOUS
  <2>2. CASE req' = [req EXCEPT ![p] = r]
    <3>1. req[p].pc = "finalize"
      BY <1>9 DEF FinalizeRead
    <3>2. r.pc = "score" /\ r.invitation = req[p].invitation /\ r.scored = None
      <4> HIDE DEF s
      <4> QED
        BY <2>1 DEF Idle
    <3> QED
      BY <1>4, <2>2, <3>1, <3>2
  <2> QED
    BY <1>3, <1>9, <2>1, <2>2 DEF FinalizeRead, Become
<1>10. CASE ReadAnswers(p)
  <2>1. PICK r : r = [req[p] EXCEPT !.scored = attempt[req[p].invitation].answers]
    OBVIOUS
  <2>2. r.pc = "score" /\ r.invitation = req[p].invitation /\ req[p].pc = "score"
        /\ r.scored = attempt[req[p].invitation].answers
    BY <1>2, <1>10, <2>1 DEF RequestState, ReadAnswers
  <2> QED
    BY <1>4, <1>10, <2>1, <2>2 DEF ReadAnswers
<1>11. CASE ReadPriorCanonical(p)
  <2> DEFINE v == IF OtherCanonical(req[p].invitation) = {} THEN "none" ELSE "exists"
  <2>1. PICK r : r = [req[p] EXCEPT !.prior = v]
    OBVIOUS
  <2>2. r.pc = "score" /\ r.invitation = req[p].invitation /\ req[p].pc = "score"
        /\ r.scored = req[p].scored
    <3> HIDE DEF v
    <3> QED
      BY <1>2, <1>11, <2>1 DEF RequestState, ReadPriorCanonical
  <2>3. req' = [req EXCEPT ![p] = r]
    BY <1>11, <2>1 DEF ReadPriorCanonical
  <2> QED
    BY <1>4, <2>2, <2>3
<1>12. CASE FindActive(p)
  <2>1. ASSUME NEW r, req' = [req EXCEPT ![p] = r], r.pc = "issue",
               r.assignment = req[p].assignment, r.op = req[p].op,
               r.op = "regenerate" => invitation[r.invitation].status = "ACTIVE"
        PROVE  SInv'
    <3>1. StillTrue(r)
      BY <1>2, <1>12, <2>1 DEF FindActive, StillTrue
    <3> QED
      BY <1>1, <2>1, <3>1, ReadMoves
  <2>2. CASE req[p].op = "generate" /\ req' = [req EXCEPT ![p].pc = "issue"]
    <3>1. PICK r : r = [req[p] EXCEPT !.pc = "issue"]
      OBVIOUS
    <3>2. r.pc = "issue" /\ r.assignment = req[p].assignment /\ r.op = req[p].op
      BY <1>2, <3>1 DEF RequestState
    <3> QED
      BY <2>1, <2>2, <3>1, <3>2
  <2>3. ASSUME NEW i \in ActiveFor(req[p].assignment),
               req' = [req EXCEPT ![p].pc = "issue", ![p].invitation = i]
        PROVE  SInv'
    <3>1. PICK r : r = [req[p] EXCEPT !.pc = "issue", !.invitation = i]
      OBVIOUS
    <3>2. r.pc = "issue" /\ r.assignment = req[p].assignment /\ r.op = req[p].op
          /\ r.invitation = i
      BY <1>2, <3>1 DEF RequestState
    <3>3. invitation[i].status = "ACTIVE"
      BY <2>3 DEF ActiveFor
    <3>4. req' = [req EXCEPT ![p] = r]
      BY <2>3, <3>1
    <3> QED
      BY <2>1, <3>2, <3>3, <3>4
  <2> QED
    BY <1>3, <1>12, <2>2, <2>3 DEF FindActive
<1>13. CASE NoIdLeft(p) \/ RequestDies(p)
  BY <1>3, <1>13 DEF NoIdLeft, RequestDies
<1> QED
  BY <1>5, <1>6, <1>7, <1>8, <1>9, <1>10, <1>11, <1>12, <1>13

-----------------------------------------------------------------------------
(* Steps that write end the request.                                       *)

LEMMA WriteEnds ==
  ASSUME Serial, IInv, NEW p \in Requests, Finish(p),
         ResultReflectsAnswers', ClosedMeansUsed', CompletedHasNoLiveLink'
  PROVE  SInv'
BY IdleTrue, OnlyRequest DEF Finish, SInv

(* A new attempt is open, and a completed assignment stays completed.      *)
LEMMA CreateStep ==
  ASSUME Serial, IInv, SInv, NEW p \in Requests, CreateAttempt(p)
  PROVE  SInv'
<1> DEFINE i == req[p].invitation
           a == invitation[i].assignment
<1>1. i \in Invitations /\ a \in Assignments
  BY DEF IInv, RequestLinked, CreateAttempt, IsRow, RowsLinked
<1>2. PICK x : x = [NoAttempt EXCEPT !.status = "IN_PROGRESS",
                                     !.expiresAt = req[p].at + Duration]
  OBVIOUS
<1>3. x.status = "IN_PROGRESS"
  BY <1>2 DEF NoAttempt
<1>4. attempt' = [attempt EXCEPT ![i] = x] /\ invitation' = invitation
  BY <1>2 DEF CreateAttempt
<1>5. \A k \in Invitations : IsTerminal(k)' =>
         k # i /\ IsTerminal(k) /\ attempt'[k] = attempt[k]
  BY <1>1, <1>3, <1>4 DEF IInv, TypeOK, IsTerminal, Terminal
<1>6. ResultReflectsAnswers' /\ ClosedMeansUsed'
  BY <1>4, <1>5 DEF SInv, ResultReflectsAnswers, ClosedMeansUsed
<1>7. \A b \in Assignments : assignment'[b] = "COMPLETED" => assignment[b] = "COMPLETED"
  BY <1>1 DEF IInv, TypeOK, CreateAttempt, Begun
<1>8. CompletedHasNoLiveLink'
  BY <1>4, <1>7 DEF SInv, CompletedHasNoLiveLink, ActiveFor
<1> QED
  BY <1>6, <1>8, WriteEnds DEF CreateAttempt

(* The attempt an answer is saved to is still open.                        *)
LEMMA SaveStep ==
  ASSUME Serial, IInv, SInv, NEW p \in Requests, SaveAnswer(p)
  PROVE  SInv'
<1> DEFINE i == req[p].invitation
<1>1. i \in Invitations /\ attempt[i].status = "IN_PROGRESS"
  BY RequestRow DEF IInv, RequestLinked, SaveAnswer, IsRow, StillTrue
<1>2. attempt[i] \in AttemptRow
  BY <1>1 DEF IInv, TypeOK
<1>3. PICK x : x = [attempt[i] EXCEPT !.answers[req[p].question] = req[p].option]
  OBVIOUS
<1>4. x.status = "IN_PROGRESS"
  BY <1>1, <1>2, <1>3 DEF AttemptRow
<1>5. attempt' = [attempt EXCEPT ![i] = x]
  BY <1>3 DEF SaveAnswer
<1>6. UNCHANGED <<invitation, assignment>>
  BY DEF SaveAnswer
<1>7. \A k \in Invitations : IsTerminal(k)' =>
         IsTerminal(k) /\ attempt'[k] = attempt[k]
  BY <1>1, <1>4, <1>5 DEF IInv, TypeOK, IsTerminal, Terminal
<1>8. ResultReflectsAnswers' /\ ClosedMeansUsed' /\ CompletedHasNoLiveLink'
  BY <1>6, <1>7 DEF SInv, ResultReflectsAnswers, ClosedMeansUsed,
     CompletedHasNoLiveLink, ActiveFor
<1> QED
  BY <1>8, WriteEnds DEF SaveAnswer

(* The link that closes was the one live link of its assignment, and what  *)
(* was scored are still the answers.                                       *)
LEMMA CommitStep ==
  ASSUME Serial, IInv, SInv, NEW p \in Requests, CommitFinalize(p)
  PROVE  SInv'
<1> DEFINE i == req[p].invitation
           a == invitation[i].assignment
<1>1. i \in Invitations /\ a \in Assignments /\ invitation[i].status = "ACTIVE"
      /\ req[p].scored = attempt[i].answers
  BY RequestRow DEF IInv, RequestLinked, CommitFinalize, IsRow, StillTrue, RowsLinked
<1>2. CASE StillOpen(i)
  <2>1. PICK x : x = Closed(attempt[i], req[p])
    OBVIOUS
  <2>2. x.result = x.answers
    BY <1>1, <2>1 DEF Closed
  <2>3. attempt' = [attempt EXCEPT ![i] = x]
        /\ invitation' = [invitation EXCEPT ![i].status = "USED"]
        /\ assignment' = [assignment EXCEPT ![a] = "COMPLETED"]
    BY <1>2, <2>1 DEF CommitFinalize
  <2>4. /\ attempt'[i] = x
        /\ \A k \in Invitations \ {i} : attempt'[k] = attempt[k]
        /\ invitation'[i].status = "USED"
        /\ invitation[i] \in InvitationRow
        /\ \A k \in Invitations \ {i} : invitation'[k] = invitation[k]
        /\ \A b \in Assignments \ {a} : assignment'[b] = assignment[b]
    BY <1>1, <2>3 DEF IInv, TypeOK, InvitationRow
  <2>5. ResultReflectsAnswers'
    BY <2>2, <2>4 DEF SInv, ResultReflectsAnswers, IsTerminal
  <2>6. ClosedMeansUsed'
    BY <2>4 DEF SInv, ClosedMeansUsed, IsTerminal
  <2>7. ASSUME NEW b \in Assignments, assignment'[b] = "COMPLETED",
               NEW k \in ActiveFor(b)'
        PROVE  FALSE
    <3>1. k \in Invitations /\ k # i /\ k \in ActiveFor(b)
      BY <2>4, <2>7 DEF ActiveFor
    <3>2. i \in ActiveFor(a)
      BY <1>1 DEF ActiveFor
    <3>3. CASE b = a
      BY <3>1, <3>2, <3>3 DEF IInv, OneLiveLink
    <3>4. CASE b # a
      BY <2>4, <2>7, <3>1, <3>4 DEF SInv, CompletedHasNoLiveLink
    <3> QED
      BY <3>3, <3>4
  <2>8. CompletedHasNoLiveLink'
    BY <2>7 DEF CompletedHasNoLiveLink
  <2> QED
    BY <2>5, <2>6, <2>8, WriteEnds DEF CommitFinalize
<1>3. CASE ~ StillOpen(i)
  <2>1. Kept
    BY <1>3 DEF CommitFinalize, Kept
  <2> QED
    BY <2>1, ReadEnds DEF CommitFinalize
<1> QED
  BY <1>2, <1>3

(* A link is only revoked while it is live, so its attempt is not closed.  *)
LEMMA RevokeStep ==
  ASSUME Serial, IInv, SInv, NEW p \in Requests, RevokeInvitation(p)
  PROVE  SInv'
<1> DEFINE i == req[p].invitation
<1>1. i \in Invitations /\ invitation[i].status = "ACTIVE"
  BY RequestRow DEF IInv, RequestLinked, RevokeInvitation, IsRow, StillTrue
<1>2. invitation' = [invitation EXCEPT ![i].status = "REVOKED"]
      /\ UNCHANGED <<assignment, attempt>>
  BY DEF RevokeInvitation
<1>3. /\ invitation[i] \in InvitationRow
      /\ invitation'[i].status = "REVOKED"
      /\ \A k \in Invitations \ {i} : invitation'[k] = invitation[k]
  BY <1>1, <1>2 DEF IInv, TypeOK, InvitationRow
<1>4. ~ IsTerminal(i)
  BY <1>1 DEF SInv, ClosedMeansUsed
<1>5. ResultReflectsAnswers' /\ ClosedMeansUsed'
  BY <1>2, <1>3, <1>4 DEF SInv, ResultReflectsAnswers, ClosedMeansUsed, IsTerminal
<1>6. CompletedHasNoLiveLink'
  BY <1>2, <1>3 DEF SInv, CompletedHasNoLiveLink, ActiveFor
<1> QED
  BY <1>5, <1>6, WriteEnds DEF RevokeInvitation

(* A new link j of assignment a, with link old revoked on the way.         *)
LEMMA NewLinkStep ==
  ASSUME Serial, IInv, SInv, NEW p \in Requests, Finish(p),
         UNCHANGED <<assignment, attempt>>,
         NEW a \in Assignments, assignment[a] # "COMPLETED",
         NEW j \in Invitations, invitation[j].status = "ABSENT",
         NEW from, invitation'[j] = NewInvitation(a, from),
         \A k \in Invitations \ {j} :
            \/ invitation'[k] = invitation[k]
            \/ invitation[k].status = "ACTIVE" /\ invitation'[k].status = "REVOKED"
  PROVE  SInv'
<1>1. ~ IsTerminal(j)
  BY DEF IInv, RowsLinked, Started, IsTerminal, Terminal
<1>2. ResultReflectsAnswers'
  BY DEF SInv, ResultReflectsAnswers, IsTerminal
<1>3. ClosedMeansUsed'
  BY <1>1 DEF SInv, ClosedMeansUsed, IsTerminal
<1>4. ASSUME NEW b \in Assignments, assignment'[b] = "COMPLETED",
             NEW k \in ActiveFor(b)'
      PROVE  FALSE
  <2>1. k # j
    BY <1>4 DEF ActiveFor, NewInvitation
  <2>2. k \in ActiveFor(b)
    BY <1>4, <2>1 DEF ActiveFor
  <2> QED
    BY <1>4, <2>2 DEF SInv, CompletedHasNoLiveLink
<1>5. CompletedHasNoLiveLink'
  BY <1>4 DEF CompletedHasNoLiveLink
<1> QED
  BY <1>2, <1>3, <1>5, WriteEnds

LEMMA GenerateStep ==
  ASSUME Serial, IInv, SInv, NEW p \in Requests, NEW j \in Invitations,
         GenerateInvitation(p, j)
  PROVE  SInv'
<1> DEFINE a == req[p].assignment
<1>1. a \in Assignments /\ assignment[a] # "COMPLETED"
  BY RequestRow DEF IInv, RequestLinked, GenerateInvitation, StillTrue
<1>2. CASE invitation' = invitation
  BY <1>2, ReadEnds DEF GenerateInvitation, Kept
<1>3. CASE invitation' = [invitation EXCEPT ![j] = NewInvitation(a, None)]
  <2>1. invitation'[j] = NewInvitation(a, None)
        /\ \A k \in Invitations \ {j} : invitation'[k] = invitation[k]
    BY <1>3 DEF IInv, TypeOK
  <2> QED
    BY <1>1, <2>1, NewLinkStep DEF GenerateInvitation
<1> QED
  BY <1>2, <1>3 DEF GenerateInvitation

LEMMA RegenerateStep ==
  ASSUME Serial, IInv, SInv, NEW p \in Requests, NEW j \in Invitations,
         RegenerateInvitation(p, j)
  PROVE  SInv'
<1> DEFINE a == req[p].assignment
           i == req[p].invitation
           revoked == [invitation EXCEPT ![i].status = "REVOKED"]
<1>1. a \in Assignments /\ assignment[a] # "COMPLETED" /\ i \in Invitations
      /\ invitation[i].status = "ACTIVE"
  BY RequestRow DEF IInv, RequestLinked, RegenerateInvitation, StillTrue, IsRow
<1>2. CASE invitation' = invitation
  BY <1>2, ReadEnds DEF RegenerateInvitation, Kept
<1>3. CASE invitation' = [revoked EXCEPT ![j] = NewInvitation(a, i)]
  <2>1. revoked \in [Invitations -> InvitationRow] /\ revoked[i].status = "REVOKED"
        /\ \A k \in Invitations \ {i} : revoked[k] = invitation[k]
    BY <1>1 DEF IInv, TypeOK, InvitationRow
  <2>2. invitation'[j] = NewInvitation(a, i)
        /\ \A k \in Invitations \ {j} : invitation'[k] = revoked[k]
    <3> HIDE DEF revoked
    <3> QED
      BY <1>3, <2>1
  <2> HIDE DEF revoked
  <2>3. \A k \in Invitations \ {j} :
           \/ invitation'[k] = invitation[k]
           \/ invitation[k].status = "ACTIVE" /\ invitation'[k].status = "REVOKED"
    BY <1>1, <2>1, <2>2
  <2> QED
    BY <1>1, <2>2, <2>3, NewLinkStep DEF RegenerateInvitation
<1> QED
  BY <1>2, <1>3 DEF RegenerateInvitation

-----------------------------------------------------------------------------
LEMMA SInit ==
  ASSUME Init
  PROVE  SInv
<1>1. \A i \in Invitations : ~ IsTerminal(i) /\ invitation[i].status = "ABSENT"
  BY DEF Init, IsTerminal, Terminal, NoAttempt, NoInvitation
<1>2. \A p \in Requests : StillTrue(req[p])
  BY IdleTrue DEF Init
<1> QED
  BY <1>1, <1>2 DEF SInv, ResultReflectsAnswers, ClosedMeansUsed,
     CompletedHasNoLiveLink, ActiveFor

LEMMA SNext ==
  ASSUME Serial, IInv, SInv, [Next]_vars
  PROVE  SInv'
<1>1. ASSUME UNCHANGED <<assignment, invitation, attempt, req>>
      PROVE  SInv'
  <2>1. \A p \in Requests : StillTrue(req[p])'
    BY <1>1 DEF SInv, StillTrue
  <2> QED
    BY <1>1, <2>1, KeptHolds DEF Kept, SInv
<1>2. CASE Tick \/ ArchiveTest \/ UNCHANGED vars
  BY <1>1, <1>2 DEF Tick, ArchiveTest, vars, rows
<1>3. ASSUME NEW p \in Requests, Arrive(p) \/ Progress(p) \/ RequestDies(p)
      PROVE  SInv'
  BY <1>3, ArriveStep, ReadingStep, CreateStep, SaveStep, CommitStep, RevokeStep,
     GenerateStep, RegenerateStep DEF Progress
<1> QED
  BY <1>2, <1>3 DEF Next

LEMMA SerialInvariance == Serial => (Spec => []SInv)
<1> SUFFICES ASSUME Serial PROVE Spec => []SInv
  OBVIOUS
<1>1. Init => SInv
  BY SInit
<1>2. IInv /\ SInv /\ [Next]_vars => SInv'
  BY SNext
<1>3. Spec => []IInv
  BY Invariance
<1> QED
  BY <1>1, <1>2, <1>3, PTL DEF Spec

(* As long as requests do not overlap, the result of a closed attempt is   *)
(* the score of the answers that are stored with it: nobody writes an      *)
(* answer between the scoring read and the commit of finalizeAttempt.      *)
THEOREM SerialResults == Serial => (Spec => []ResultReflectsAnswers)
<1>1. SInv => ResultReflectsAnswers
  BY DEF SInv
<1> QED
  BY <1>1, SerialInvariance, PTL

(* As long as requests do not overlap, the link of a closed attempt is     *)
(* USED, as getPlacementStatus takes for granted: the unconditional update *)
(* of revokeInvitation finds it still ACTIVE.                              *)
THEOREM SerialLinks == Serial => (Spec => []ClosedMeansUsed)
<1>1. SInv => ClosedMeansUsed
  BY DEF SInv
<1> QED
  BY <1>1, SerialInvariance, PTL

(* As long as requests do not overlap, a completed assignment has no live  *)
(* link: generate and regenerate insert one only while the assignment they *)
(* read is still not completed.                                            *)
THEOREM SerialCompleted == Serial => (Spec => []CompletedHasNoLiveLink)
<1>1. SInv => CompletedHasNoLiveLink
  BY DEF SInv
<1> QED
  BY <1>1, SerialInvariance, PTL

-----------------------------------------------------------------------------
(* How far overlap can go.  A request that read "no earlier canonical      *)
(* attempt" before there was one may still commit an official attempt;     *)
(* once there is one, no further request becomes unaware of it.            *)

Unaware(a) ==
  {p \in Requests : /\ req[p].pc = "score" /\ req[p].prior = "none"
                    /\ attempt[req[p].invitation].status = "IN_PROGRESS"
                    /\ invitation[req[p].invitation].assignment = a}

OfficialBound ==
  \A a \in Assignments : /\ IsFiniteSet(OfficialAttempts(a))
                         /\ Cardinality(OfficialAttempts(a)) <= Cardinality(Requests)

(* The official attempts and those that may still join them.               *)
OInv ==
  \A a \in Assignments :
     /\ IsFiniteSet(OfficialAttempts(a))
     /\ OfficialAttempts(a) # {} =>
           Cardinality(OfficialAttempts(a)) + Cardinality(Unaware(a))
              <= Cardinality(Requests)

(* Where a request that has read "none" comes from.                        *)
ReadsNone(p) ==
  /\ req[p].pc = "score"
  /\ req'[p].invitation = req[p].invitation
  /\ req[p].prior = "none" \/ OtherCanonical(req[p].invitation) = {}

LEMMA NoneWasRead ==
  ASSUME TypeOK, [Next]_vars, NEW q \in Requests,
         req'[q].pc = "score", req'[q].prior = "none"
  PROVE  ReadsNone(q)
<1>1. CASE req'[q] = req[q]
  BY <1>1 DEF ReadsNone
<1>2. ASSUME NEW p \in Requests, Arrive(p) \/ Progress(p) \/ RequestDies(p)
      PROVE  ReadsNone(q)
  <2>0. req[p] \in RequestState /\ Idle.pc = "idle" /\ Idle.prior = "unread"
    BY DEF TypeOK, Idle
  <2>1. CASE ReadAnswers(p)
    BY <1>1, <2>0, <2>1 DEF ReadAnswers, ReadsNone, TypeOK, RequestState
  <2>2. CASE ReadPriorCanonical(p)
    BY <1>1, <2>0, <2>2 DEF ReadPriorCanonical, ReadsNone, TypeOK, RequestState
  <2>3. CASE FinalizeRead(p)
    <3> DEFINE r == [Idle EXCEPT !.pc = "score", !.invitation = req[p].invitation,
                       !.trigger = req[p].trigger, !.at = now,
                       !.finalStatus =
                          IF req[p].trigger = "AUTO" \/ PastDeadline(req[p].invitation)
                          THEN "AUTO_SUBMITTED" ELSE "SUBMITTED"]
    <3>1. r.prior = "unread"
      BY DEF Idle
    <3>2. req' = [req EXCEPT ![p] = Idle] \/ req' = [req EXCEPT ![p] = r]
      BY <2>3 DEF FinalizeRead, Finish, Become
    <3> HIDE DEF r
    <3> QED
      BY <1>1, <2>0, <3>1, <3>2 DEF TypeOK
  <2>4. CASE AttemptOpen(p)
    <3> DEFINE i    == req[p].invitation
               auto == [Idle EXCEPT !.pc = "finalize", !.invitation = i,
                                    !.trigger = "AUTO"]
               hand == [Idle EXCEPT !.pc = "finalize", !.invitation = i]
    <3>1. auto.pc = "finalize" /\ hand.pc = "finalize"
      BY DEF Idle
    <3>2. \/ req' = [req EXCEPT ![p].pc = "save"]
          \/ req' = [req EXCEPT ![p] = Idle]
          \/ req' = [req EXCEPT ![p] = auto]
          \/ req' = [req EXCEPT ![p] = hand]
      BY <2>4 DEF AttemptOpen, Become, Finish
    <3> HIDE DEF auto, hand
    <3> QED
      BY <1>1, <2>0, <3>1, <3>2 DEF TypeOK, RequestState
  <2>5. CASE \/ NoAttemptYet(p) \/ AttemptClosed(p) \/ CreateAttempt(p)
             \/ CreateConflict(p) \/ SaveAnswer(p) \/ CommitFinalize(p)
             \/ FindActive(p) \/ NoIdLeft(p) \/ RevokeInvitation(p)
             \/ RequestDies(p)
             \/ \E j \in Invitations :
                   GenerateInvitation(p, j) \/ RegenerateInvitation(p, j)
    BY <1>1, <2>0, <2>5 DEF NoAttemptYet, AttemptClosed, CreateAttempt,
       CreateConflict, SaveAnswer, CommitFinalize, FindActive, NoIdLeft,
       RevokeInvitation, RequestDies, GenerateInvitation, RegenerateInvitation,
       Finish, TypeOK, RequestState
  <2>6. CASE Arrive(p)
    <3>1. ASSUME NEW r, r.pc \in {"attempt", "revoke", "find"}, Become(p, r)
          PROVE  ReadsNone(q)
      BY <1>1, <3>1 DEF Become, TypeOK
    <3>2. ASSUME NEW o, NEW i, NEW x, NEW c, ValidateToken(p, o, i, x, c)
          PROVE  ReadsNone(q)
      <4> DEFINE r == [Idle EXCEPT !.pc = "attempt", !.op = o, !.invitation = i,
                         !.question = x, !.option = c,
                         !.published = (testStatus = "PUBLISHED")]
      <4>1. r.pc = "attempt" /\ Become(p, r)
        BY <3>2 DEF ValidateToken, Idle
      <4> HIDE DEF r
      <4> QED
        BY <3>1, <4>1
    <3>3. ASSUME NEW i, CheckRevocable(p, i)
          PROVE  ReadsNone(q)
      <4> DEFINE r == [Idle EXCEPT !.pc = "revoke", !.invitation = i]
      <4>1. r.pc = "revoke" /\ Become(p, r)
        BY <3>3 DEF CheckRevocable, Idle
      <4> HIDE DEF r
      <4> QED
        BY <3>1, <4>1
    <3>4. ASSUME NEW o, NEW a, CheckAssignment(p, o, a)
          PROVE  ReadsNone(q)
      <4> DEFINE r == [Idle EXCEPT !.pc = "find", !.op = o, !.assignment = a]
      <4>1. r.pc = "find" /\ Become(p, r)
        BY <3>4 DEF CheckAssignment, Idle
      <4> HIDE DEF r
      <4> QED
        BY <3>1, <4>1
    <3> QED
      BY <2>6, <3>2, <3>3, <3>4 DEF Arrive
  <2> QED
    BY <1>2, <2>1, <2>2, <2>3, <2>4, <2>5, <2>6 DEF Progress
<1>3. CASE UNCHANGED vars \/ Tick \/ ArchiveTest
  BY <1>1, <1>3 DEF Tick, ArchiveTest
<1> QED
  BY <1>2, <1>3 DEF Next

(* Once an assignment has an official attempt, who is unaware of it was so *)
(* before.                                                                 *)
LEMMA UnawareShrinks ==
  ASSUME TypeOK, Linked, [Next]_vars, NEW a \in Assignments,
         OfficialAttempts(a) # {}
  PROVE  Unaware(a)' \subseteq Unaware(a)
<1> SUFFICES ASSUME NEW p \in Requests, p \in Unaware(a)'
             PROVE  p \in Unaware(a)
  BY DEF Unaware
<1>1. /\ req'[p].pc = "score" /\ req'[p].prior = "none"
      /\ attempt'[req'[p].invitation].status = "IN_PROGRESS"
      /\ invitation'[req'[p].invitation].assignment = a
  BY DEF Unaware
<1>2. ReadsNone(p)
  BY <1>1, NoneWasRead
<1>3. PICK i : i = req[p].invitation
  OBVIOUS
<1>4. i \in Invitations /\ Started(i) /\ req'[p].invitation = i /\ req[p].pc = "score"
  BY <1>2, <1>3 DEF ReadsNone, Linked, RequestLinked, IsRow
<1>5. attempt[i].status = "IN_PROGRESS" /\ invitation[i].assignment = a
  <2>1. CASE KeepsAttempts
    BY <1>1, <1>4, <2>1 DEF KeepsAttempts
  <2>2. ASSUME NEW k \in Invitations, NEW b \in Assignments, OpensAttempt(k, b)
        PROVE  attempt[i].status = "IN_PROGRESS" /\ invitation[i].assignment = a
    BY <1>1, <1>4, <2>2 DEF OpensAttempt
  <2>3. ASSUME NEW k \in Invitations, NEW b \in Assignments, NEW q \in Requests,
               ClosesAttempt(k, b, req[q])
        PROVE  attempt[i].status = "IN_PROGRESS" /\ invitation[i].assignment = a
    <3>1. IsTerminal(k)'
      BY <2>3, ClosesSets
    <3>2. i # k
      BY <1>1, <1>4, <3>1 DEF IsTerminal, Terminal
    <3> QED
      BY <1>1, <1>4, <2>3, <3>2 DEF ClosesAttempt
  <2> QED
    BY <2>1, <2>2, <2>3, Effects
<1>6. OtherCanonical(i) # {}
  <2>1. i \notin OfficialAttempts(a)
    BY <1>5 DEF OfficialAttempts, IsTerminal, Terminal
  <2> QED
    BY <1>5, <2>1 DEF OfficialAttempts, OtherCanonical
<1> QED
  BY <1>2, <1>3, <1>4, <1>5, <1>6 DEF ReadsNone, Unaware

(* What a step does to the official attempts of an assignment.             *)
LEMMA OfficialStep ==
  ASSUME TypeOK, Linked, [Next]_vars, NEW a \in Assignments
  PROVE  \/ OfficialAttempts(a)' = OfficialAttempts(a)
         \/ \E i, p : /\ OfficialAttempts(a)' = OfficialAttempts(a) \cup {i}
                      /\ i \notin OfficialAttempts(a)
                      /\ p \in Unaware(a) /\ p \notin Unaware(a)'
<1>1. CASE KeepsAttempts
  <2>1. AttemptsOf(a)' = AttemptsOf(a) /\ AttemptsOf(a) \subseteq Invitations
    BY <1>1, KeepsSets DEF AttemptsOf
  <2>2. \A k \in Invitations : /\ IsTerminal(k)' = IsTerminal(k)
                               /\ attempt'[k].isCanonical = attempt[k].isCanonical
    BY <1>1, KeepsSets DEF KeepsAttempts
  <2>3. \A k : k \in OfficialAttempts(a)' <=> k \in OfficialAttempts(a)
    BY <2>1, <2>2 DEF OfficialAttempts
  <2> QED
    BY <2>3
<1>2. ASSUME NEW i \in Invitations, NEW b \in Assignments, OpensAttempt(i, b)
      PROVE  OfficialAttempts(a)' = OfficialAttempts(a)
  <2>1. \A k \in Invitations : /\ IsTerminal(k)' = IsTerminal(k)
                               /\ IsTerminal(k) => attempt'[k] = attempt[k]
    <3>1. ~ IsTerminal(i) /\ ~ IsTerminal(i)'
      BY <1>2, OpensSets
    <3>2. \A k \in Invitations : k # i =>
             IsTerminal(k)' = IsTerminal(k) /\ attempt'[k] = attempt[k]
      BY <1>2, OpensSets DEF OpensAttempt
    <3> QED
      BY <3>1, <3>2 DEF IsTerminal
  <2>2. \A k : k # i => (k \in AttemptsOf(a)' <=> k \in AttemptsOf(a))
    BY <1>2, OpensSets
  <2>3. ~ IsTerminal(i) /\ ~ IsTerminal(i)'
    BY <1>2, OpensSets
  <2>4. \A k : k \in OfficialAttempts(a)' <=> k \in OfficialAttempts(a)
    BY <2>1, <2>2, <2>3 DEF OfficialAttempts, AttemptsOf
  <2> QED
    BY <2>4
<1>3. ASSUME NEW i \in Invitations, NEW b \in Assignments, NEW p \in Requests,
             ClosesAttempt(i, b, req[p])
      PROVE  \/ OfficialAttempts(a)' = OfficialAttempts(a)
             \/ /\ OfficialAttempts(a)' = OfficialAttempts(a) \cup {i}
                /\ i \notin OfficialAttempts(a)
                /\ p \in Unaware(a) /\ p \notin Unaware(a)'
  <2>1. /\ ~ IsTerminal(i) /\ IsTerminal(i)' /\ i \in AttemptsOf(b)
        /\ \A k \in Invitations : k # i =>
              IsTerminal(k)' = IsTerminal(k) /\ attempt'[k] = attempt[k]
        /\ AttemptsOf(a)' = AttemptsOf(a)
    BY <1>3, ClosesSets DEF ClosesAttempt
  <2>2. attempt'[i].isCanonical = (req[p].prior = "none")
    BY <1>3 DEF ClosesAttempt, Closed
  <2>3. i \notin OfficialAttempts(a)
    BY <2>1 DEF OfficialAttempts
  <2>4. \A k : k # i =>
           (k \in OfficialAttempts(a)' <=> k \in OfficialAttempts(a))
    BY <2>1 DEF OfficialAttempts, AttemptsOf
  <2>5. CASE i \notin OfficialAttempts(a)'
    BY <2>3, <2>4, <2>5
  <2>6. CASE i \in OfficialAttempts(a)'
    <3>1. OfficialAttempts(a)' = OfficialAttempts(a) \cup {i}
      BY <2>3, <2>4, <2>6
    <3>2. attempt'[i].isCanonical /\ i \in AttemptsOf(a)
      BY <2>1, <2>6 DEF OfficialAttempts
    <3>3. req[p].prior = "none"
      BY <2>2, <3>2, Zenon
    <3>4. p \in Unaware(a)
      BY <1>3, <3>2, <3>3 DEF ClosesAttempt, AttemptsOf, Unaware
    <3>5. p \notin Unaware(a)'
      <4> SUFFICES ASSUME p \in Unaware(a)' PROVE FALSE
        OBVIOUS
      <4>1. /\ req'[p].pc = "score" /\ req'[p].prior = "none"
            /\ attempt'[req'[p].invitation].status = "IN_PROGRESS"
        BY DEF Unaware
      <4>2. req'[p].invitation = i
        BY <1>3, <4>1, NoneWasRead DEF ReadsNone, ClosesAttempt
      <4> QED
        BY <2>1, <4>1, <4>2 DEF IsTerminal, Terminal
    <3> QED
      BY <2>3, <3>1, <3>4, <3>5
  <2> QED
    BY <2>5, <2>6
<1> QED
  BY <1>1, <1>2, <1>3, Effects

LEMMA BoundStep ==
  ASSUME IsFiniteSet(Requests), IInv, OInv, [Next]_vars
  PROVE  OInv'
<1> SUFFICES ASSUME NEW a \in Assignments
             PROVE  /\ IsFiniteSet(OfficialAttempts(a)')
                    /\ OfficialAttempts(a)' # {} =>
                         Cardinality(OfficialAttempts(a)') + Cardinality(Unaware(a)')
                            <= Cardinality(Requests)
  BY DEF OInv
<1>1. TypeOK /\ Linked
  BY DEF IInv, Linked
<1>2. PICK old : old = OfficialAttempts(a)
  OBVIOUS
<1>3. PICK new : new = OfficialAttempts(a)'
  OBVIOUS
<1>4. PICK u : u = Unaware(a)
  OBVIOUS
<1>5. PICK v : v = Unaware(a)'
  OBVIOUS
<1>6. /\ IsFiniteSet(old)
      /\ old # {} => Cardinality(old) + Cardinality(u) <= Cardinality(Requests)
  BY <1>2, <1>4 DEF OInv
<1>7. u \in SUBSET Requests /\ v \in SUBSET Requests
  BY <1>4, <1>5 DEF Unaware
<1>8. old # {} => v \subseteq u
  BY <1>1, <1>2, <1>4, <1>5, UnawareShrinks
<1>9. \/ new = old
      \/ \E i, p : new = old \cup {i} /\ i \notin old /\ p \in u /\ p \notin v
  BY <1>1, <1>2, <1>3, <1>4, <1>5, OfficialStep
<1>10. IsFiniteSet(u) /\ IsFiniteSet(v)
  BY <1>7, FS_Subset
<1>11. /\ Cardinality(old) \in Nat /\ Cardinality(u) \in Nat /\ Cardinality(v) \in Nat
       /\ Cardinality(Requests) \in Nat
  BY <1>6, <1>10, FS_CardinalityType
<1>12. old # {} => Cardinality(v) <= Cardinality(u)
  BY <1>8, <1>10, FS_Subset
<1>13. CASE new = old
  BY <1>3, <1>5, <1>6, <1>11, <1>12, <1>13
<1>14. ASSUME NEW i, NEW p, new = old \cup {i}, i \notin old, p \in u, p \notin v
       PROVE  /\ IsFiniteSet(new)
              /\ Cardinality(new) + Cardinality(v) <= Cardinality(Requests)
  <2>1. IsFiniteSet(new) /\ Cardinality(new) = Cardinality(old) + 1
    BY <1>6, <1>14, FS_AddElement
  <2>2. CASE old # {}
    <3>1. v \subseteq u \ {p}
      BY <1>8, <1>14, <2>2
    <3>2. IsFiniteSet(u \ {p}) /\ Cardinality(u \ {p}) = Cardinality(u) - 1
      BY <1>10, <1>14, FS_RemoveElement
    <3>3. Cardinality(v) <= Cardinality(u) - 1
      BY <3>1, <3>2, FS_Subset
    <3> QED
      BY <1>6, <1>11, <2>1, <2>2, <3>3
  <2>3. CASE old = {}
    <3>1. p \in Requests /\ v \subseteq Requests \ {p}
      BY <1>7, <1>14
    <3>2. /\ IsFiniteSet(Requests \ {p})
          /\ Cardinality(Requests \ {p}) = Cardinality(Requests) - 1
      BY <3>1, FS_RemoveElement
    <3>3. Cardinality(v) <= Cardinality(Requests) - 1
      BY <3>1, <3>2, FS_Subset
    <3>4. Cardinality(old) = 0
      BY <2>3, FS_EmptySet
    <3> QED
      BY <1>11, <2>1, <3>3, <3>4
  <2> QED
    BY <2>2, <2>3
<1> QED
  BY <1>3, <1>5, <1>9, <1>13, <1>14

(* However requests interleave and wherever they die, an assignment never  *)
(* has more official attempts than requests ran at once: what the          *)
(* priorCanonical query of finalizeAttempt misses is what is in flight,    *)
(* and never what was committed before it.                                 *)
THEOREM OfficialsAreBounded == IsFiniteSet(Requests) => (Spec => []OfficialBound)
<1> SUFFICES ASSUME IsFiniteSet(Requests) PROVE Spec => []OfficialBound
  OBVIOUS
<1>1. Init => OInv
  <2> SUFFICES ASSUME Init PROVE \A a \in Assignments : OfficialAttempts(a) = {}
    BY FS_EmptySet DEF OInv
  <2> QED
    BY DEF Init, OfficialAttempts, AttemptsOf, Started, NoAttempt
<1>2. IInv /\ OInv /\ [Next]_vars => OInv'
  BY BoundStep
<1>3. OInv => OfficialBound
  <2> SUFFICES ASSUME OInv, NEW a \in Assignments
               PROVE  /\ IsFiniteSet(OfficialAttempts(a))
                      /\ Cardinality(OfficialAttempts(a)) <= Cardinality(Requests)
    BY DEF OfficialBound
  <2>1. Unaware(a) \in SUBSET Requests
    BY DEF Unaware
  <2>2. /\ IsFiniteSet(OfficialAttempts(a)) /\ IsFiniteSet(Unaware(a))
    BY <2>1, FS_Subset DEF OInv
  <2>3. /\ Cardinality(OfficialAttempts(a)) \in Nat /\ Cardinality(Unaware(a)) \in Nat
        /\ Cardinality(Requests) \in Nat
    BY <2>2, FS_CardinalityType
  <2>4. CASE OfficialAttempts(a) = {}
    BY <2>2, <2>3, <2>4, FS_EmptySet
  <2>5. CASE OfficialAttempts(a) # {}
    BY <2>2, <2>3, <2>5 DEF OInv
  <2> QED
    BY <2>4, <2>5
<1> QED
  BY <1>1, <1>2, <1>3, Invariance, PTL DEF Spec

(* As long as requests do not overlap, an assignment has one official      *)
(* attempt: the finding of the run that checks this needs two requests in  *)
(* finalizeAttempt at once.                                                *)
THEOREM SerialOfficial == Serial => (Spec => []OneOfficialAttempt)
<1> SUFFICES ASSUME Serial PROVE Spec => []OneOfficialAttempt
  OBVIOUS
<1>1. IsFiniteSet(Requests) /\ Cardinality(Requests) <= 1
  <2>1. CASE Requests = {}
    BY <2>1, FS_EmptySet
  <2>2. ASSUME NEW p \in Requests
        PROVE  IsFiniteSet(Requests) /\ Cardinality(Requests) <= 1
    <3>1. Requests = {p}
      BY DEF Serial
    <3> QED
      BY <3>1, FS_Singleton
  <2> QED
    BY <2>1, <2>2
<1>2. OfficialBound => OneOfficialAttempt
  <2> SUFFICES ASSUME OfficialBound, NEW a \in Assignments
               PROVE  Cardinality(OfficialAttempts(a)) <= 1
    BY DEF OneOfficialAttempt
  <2>1. /\ Cardinality(OfficialAttempts(a)) \in Nat /\ Cardinality(Requests) \in Nat
        /\ Cardinality(OfficialAttempts(a)) <= Cardinality(Requests)
    BY <1>1, FS_CardinalityType DEF OfficialBound
  <2> QED
    BY <1>1, <2>1
<1>3. Spec => []OfficialBound
  BY <1>1, OfficialsAreBounded
<1> QED
  BY <1>2, <1>3, PTL

-----------------------------------------------------------------------------
(* Requests end.  Fairness and ENABLED are out of the provers' reach; what *)
(* can be proved is that there is no way round: a measure of a request     *)
(* goes down with each of its steps and up with nobody's.                  *)

StepsLeft(p) ==
  LET r == req[p]
  IN  CASE r.pc = "attempt" -> IF Started(r.invitation) THEN 5 ELSE 7
        [] r.pc = "create" -> 6
        [] r.pc \in {"save", "finalize"} -> 4
        [] r.pc = "score" -> 1 + (IF r.scored = None THEN 1 ELSE 0)
                               + (IF r.prior = "unread" THEN 1 ELSE 0)
        [] r.pc = "find" -> 2
        [] r.pc \in {"issue", "revoke"} -> 1
        [] r.pc = "idle" -> 0

NoWayRound ==
  [][\A p \in Requests : req[p].pc # "idle" =>
        /\ StepsLeft(p)' <= StepsLeft(p)
        /\ Progress(p) \/ req'[p] # req[p] => StepsLeft(p)' < StepsLeft(p)]_vars

LEMMA StepsType ==
  ASSUME TypeOK, NEW p \in Requests
  PROVE  StepsLeft(p) \in 0 .. 7 /\ (req[p].pc # "idle" => StepsLeft(p) >= 1)
BY DEF TypeOK, RequestState, StepsLeft

LEMMA EndedHasNone ==
  ASSUME TypeOK', NEW p \in Requests, req'[p].pc = "idle"
  PROVE  StepsLeft(p)' = 0
BY DEF StepsLeft

LEMMA StepsGoDown ==
  ASSUME TypeOK, Linked, TypeOK', [Next]_vars, NEW p \in Requests,
         req[p].pc # "idle", Progress(p) \/ RequestDies(p)
  PROVE  StepsLeft(p)' < StepsLeft(p)
<1>0. /\ req[p] \in RequestState /\ Idle.pc = "idle"
      /\ StepsLeft(p) \in 1 .. 7
  BY StepsType DEF TypeOK, Idle
<1>1. CASE req'[p].pc = "idle"
  BY <1>0, <1>1, EndedHasNone
<1>2. CASE NoAttemptYet(p)
  <2>1. req[p].pc = "attempt" /\ ~ Started(req[p].invitation)
    BY <1>2 DEF NoAttemptYet
  <2>2. req'[p].pc \in {"create", "idle"}
    BY <1>0, <1>2 DEF NoAttemptYet, Finish, TypeOK, RequestState
  <2>3. StepsLeft(p) = 7 /\ (req'[p].pc = "create" => StepsLeft(p)' = 6)
    BY <2>1 DEF StepsLeft
  <2> QED
    BY <1>1, <2>2, <2>3
<1>3. CASE AttemptOpen(p)
  <2> DEFINE i    == req[p].invitation
             auto == [Idle EXCEPT !.pc = "finalize", !.invitation = i,
                                  !.trigger = "AUTO"]
             hand == [Idle EXCEPT !.pc = "finalize", !.invitation = i]
  <2>1. auto.pc = "finalize" /\ hand.pc = "finalize"
    BY DEF Idle
  <2>2. \/ req' = [req EXCEPT ![p].pc = "save"]
        \/ req' = [req EXCEPT ![p] = Idle]
        \/ req' = [req EXCEPT ![p] = auto]
        \/ req' = [req EXCEPT ![p] = hand]
    BY <1>3 DEF AttemptOpen, Become, Finish
  <2> HIDE DEF auto, hand
  <2>3. req'[p].pc \in {"save", "finalize", "idle"}
    BY <1>0, <2>1, <2>2 DEF TypeOK, RequestState
  <2>4. req[p].pc = "attempt" /\ Started(req[p].invitation)
    BY <1>3 DEF AttemptOpen, Started
  <2>5. StepsLeft(p) = 5
        /\ (req'[p].pc \in {"save", "finalize"} => StepsLeft(p)' = 4)
    BY <2>4 DEF StepsLeft
  <2> QED
    BY <1>1, <2>3, <2>5
<1>4. CASE CreateConflict(p)
  <2>1. /\ req[p].pc = "create" /\ Started(req[p].invitation)
        /\ req'[p].pc = "attempt" /\ req'[p].invitation = req[p].invitation
        /\ attempt' = attempt
    BY <1>0, <1>4 DEF CreateConflict, TypeOK, RequestState
  <2>2. Started(req[p].invitation)'
    BY <2>1 DEF Started
  <2> QED
    BY <2>1, <2>2 DEF StepsLeft
<1>5. CASE FinalizeRead(p)
  <2> DEFINE r == [Idle EXCEPT !.pc = "score", !.invitation = req[p].invitation,
                     !.trigger = req[p].trigger, !.at = now,
                     !.finalStatus =
                        IF req[p].trigger = "AUTO" \/ PastDeadline(req[p].invitation)
                        THEN "AUTO_SUBMITTED" ELSE "SUBMITTED"]
  <2>1. r.pc = "score"
    BY DEF Idle
  <2>2. req' = [req EXCEPT ![p] = Idle] \/ req' = [req EXCEPT ![p] = r]
    BY <1>5 DEF FinalizeRead, Finish, Become
  <2> HIDE DEF r
  <2>3. req'[p].pc \in {"score", "idle"}
    BY <1>0, <2>1, <2>2 DEF TypeOK
  <2>4. req[p].pc = "finalize"
    BY <1>5 DEF FinalizeRead
  <2>5. StepsLeft(p) = 4 /\ (req'[p].pc = "score" => StepsLeft(p)' \in 1 .. 3)
    BY <2>4 DEF StepsLeft
  <2> QED
    BY <1>1, <2>3, <2>5
<1>6. CASE ReadAnswers(p)
  <2>1. /\ req[p].pc = "score" /\ req[p].scored = None
        /\ req'[p].pc = "score" /\ req'[p].prior = req[p].prior
        /\ req'[p].scored = attempt[req[p].invitation].answers
    BY <1>0, <1>6 DEF ReadAnswers, TypeOK, RequestState
  <2>2. req[p].invitation \in Invitations
    BY <2>1 DEF Linked, RequestLinked, IsRow
  <2>3. req'[p].scored # None
    BY <2>1, <2>2, NoneAssumption DEF TypeOK, AttemptRow, Answers
  <2> QED
    BY <2>1, <2>3 DEF StepsLeft
<1>7. CASE ReadPriorCanonical(p)
  <2>1. /\ req[p].pc = "score" /\ req[p].prior = "unread"
        /\ req'[p].pc = "score" /\ req'[p].scored = req[p].scored
        /\ req'[p].prior # "unread"
    BY <1>0, <1>7 DEF ReadPriorCanonical, TypeOK, RequestState
  <2> QED
    BY <2>1 DEF StepsLeft
<1>8. CASE FindActive(p)
  <2>1. req[p].pc = "find" /\ req'[p].pc \in {"issue", "idle"}
    BY <1>0, <1>8 DEF FindActive, Finish, TypeOK, RequestState
  <2>2. StepsLeft(p) = 2 /\ (req'[p].pc = "issue" => StepsLeft(p)' = 1)
    BY <2>1 DEF StepsLeft
  <2> QED
    BY <1>1, <2>1, <2>2
<1>9. CASE \/ AttemptClosed(p) \/ CreateAttempt(p) \/ SaveAnswer(p)
           \/ CommitFinalize(p) \/ NoIdLeft(p) \/ RevokeInvitation(p)
           \/ RequestDies(p)
           \/ \E j \in Invitations :
                 GenerateInvitation(p, j) \/ RegenerateInvitation(p, j)
  <2>1. req'[p].pc = "idle"
    BY <1>0, <1>9 DEF AttemptClosed, CreateAttempt, SaveAnswer, CommitFinalize,
       NoIdLeft, RevokeInvitation, RequestDies, GenerateInvitation,
       RegenerateInvitation, Finish, TypeOK
  <2> QED
    BY <1>1, <2>1
<1> QED
  BY <1>2, <1>3, <1>4, <1>5, <1>6, <1>7, <1>8, <1>9 DEF Progress

(* Another request can only shorten the way, by creating the attempt.      *)
LEMMA StepsStayDown ==
  ASSUME TypeOK, Linked, [Next]_vars, NEW p \in Requests, req'[p] = req[p]
  PROVE  StepsLeft(p)' <= StepsLeft(p)
<1>1. CASE req[p].pc = "attempt"
  <2>1. req[p].invitation \in Invitations
    BY <1>1 DEF Linked, RequestLinked, IsRow
  <2>2. Started(req[p].invitation) => Started(req[p].invitation)'
    BY <2>1, RowsGrow
  <2>3. CASE Started(req[p].invitation)'
    <3>1. StepsLeft(p)' = 5 /\ StepsLeft(p) \in {5, 7}
      BY <1>1, <2>3 DEF StepsLeft
    <3> QED
      BY <3>1
  <2>4. CASE ~ Started(req[p].invitation)'
    <3>1. StepsLeft(p) = 7 /\ StepsLeft(p)' \in {5, 7}
      BY <1>1, <2>2, <2>4 DEF StepsLeft
    <3> QED
      BY <3>1
  <2> QED
    BY <2>3, <2>4
<1>2. CASE req[p].pc # "attempt"
  <2>1. req[p].pc \in {"idle", "create", "save", "finalize", "score", "find",
                      "issue", "revoke"}
    BY <1>2 DEF TypeOK, RequestState
  <2>2. StepsLeft(p)' = StepsLeft(p)
    BY <2>1 DEF StepsLeft
  <2> QED
    BY <2>2, StepsType
<1> QED
  BY <1>1, <1>2

LEMMA StepsStep ==
  ASSUME IInv, IInv', [Next]_vars, NEW p \in Requests, req[p].pc # "idle"
  PROVE  /\ StepsLeft(p)' <= StepsLeft(p)
         /\ Progress(p) \/ req'[p] # req[p] => StepsLeft(p)' < StepsLeft(p)
<1>0. TypeOK /\ Linked /\ TypeOK' /\ StepsLeft(p) \in 0 .. 7
  BY StepsType DEF IInv, Linked
<1>a. StepsLeft(p)' \in 0 .. 7
  BY <1>0 DEF TypeOK, RequestState, StepsLeft
<1>1. CASE Progress(p) \/ RequestDies(p)
  <2>1. StepsLeft(p)' < StepsLeft(p)
    BY <1>0, <1>1, StepsGoDown
  <2> QED
    BY <1>0, <1>a, <2>1
<1>2. CASE ~ (Progress(p) \/ RequestDies(p))
  <2>1. ~ Arrive(p)
    BY DEF Arrive, ValidateToken, CheckRevocable, CheckAssignment
  <2>2. ASSUME NEW r \in Requests, r # p, Arrive(r) \/ Progress(r) \/ RequestDies(r)
        PROVE  req'[p] = req[p]
    BY <1>0, <2>2, OnlyOneMoves
  <2>3. req'[p] = req[p]
    BY <1>2, <2>1, <2>2 DEF Next, Tick, ArchiveTest
  <2> QED
    BY <1>0, <1>2, <2>3, StepsStayDown
<1> QED
  BY <1>1, <1>2

(* Every request, of a student or an admin, ends after at most seven of    *)
(* its own steps, whatever the others do: losing the race to create the    *)
(* attempt sends a request back to reading it, but it finds it there, and  *)
(* losing the race to close it ends the request.                           *)
THEOREM RequestsWindDown == Spec => NoWayRound
<1>1. IInv /\ IInv' /\ [Next]_vars =>
        [\A p \in Requests : req[p].pc # "idle" =>
           /\ StepsLeft(p)' <= StepsLeft(p)
           /\ Progress(p) \/ req'[p] # req[p] => StepsLeft(p)' < StepsLeft(p)]_vars
  BY StepsStep
<1> QED
  BY <1>1, Invariance, PTL DEF Spec, NoWayRound
=============================================================================
