-------------------------- MODULE PlacementAttempt --------------------------
(***************************************************************************)
(* The life of placement assignments, their invitations and their attempts *)
(* (attempt.service.ts, invitation.service.ts) over the Postgres rows that *)
(* prisma/schema.prisma declares.                                          *)
(*                                                                         *)
(* Every server request is a process of Requests.  It holds, in req[p],    *)
(* what it has read so far; one step of a request is one query, or one     *)
(* whole $transaction, because those are the points where other requests   *)
(* interleave under READ COMMITTED.  A read that only rejects the request  *)
(* changes nothing, so arriving and passing the first read is one step.    *)
(*                                                                         *)
(* An attempt is identified by its invitation: invitationId is unique in   *)
(* placement_attempts.  What an answer says is an option; what a score is, *)
(* is left to module Scoring: a result remembers the answers it scored.    *)
(***************************************************************************)
EXTENDS Integers, FiniteSets

CONSTANTS
  Assignments,   \* rows of placement_assignments (created PENDING)
  Invitations,   \* ids a placement_invitations row may get
  Questions,     \* published questions of the test
  Options,       \* option ids a student may select
  Requests,      \* concurrent server requests
  Mortal,        \* the requests that may die between two queries
  Duration,      \* PlacementTest.durationSeconds
  MaxTime,       \* bound of the clock
  Unanswered,    \* no answer row, or one whose selectedOptionId is null
  None           \* SQL NULL, or "not read yet" in a request

ASSUME MortalAssumption == Mortal \subseteq Requests

ASSUME DurationAssumption == Duration \in Nat \ {0} /\ MaxTime \in Nat

(* The values of Answers a result or a request holds are never None.       *)
ASSUME NoneAssumption ==
  /\ Unanswered \notin Options
  /\ None \notin Invitations \cup Assignments
  /\ None \notin [Questions -> Options \cup {Unanswered}]

VARIABLES
  now,          \* the server's clock
  testStatus,   \* status of the one test the assignments are for
  assignment,   \* assignment[a]: AssignmentStatus
  invitation,   \* invitation[i]: the row, status ABSENT when not inserted
  attempt,      \* attempt[i]: the attempt of invitation i, with its answers
                \* and its PlacementResult
  req           \* req[p]: where request p stands and what it has read

rows == <<testStatus, assignment, invitation, attempt>>
vars == <<now, rows, req>>

-----------------------------------------------------------------------------
(* Types.                                                                  *)

AssignmentStatus == {"PENDING", "IN_PROGRESS", "COMPLETED"}
Terminal == {"SUBMITTED", "AUTO_SUBMITTED"}
Answers  == [Questions -> Options \cup {Unanswered}]

InvitationRow ==
  [status          : {"ABSENT", "ACTIVE", "USED", "REVOKED"},
   assignment      : Assignments \cup {None},
   regeneratedFrom : Invitations \cup {None}]

AttemptRow ==
  [status      : {"ABSENT", "IN_PROGRESS"} \cup Terminal,
   expiresAt   : Nat,
   submittedAt : Nat,
   isCanonical : BOOLEAN,
   answers     : Answers,
   result      : Answers \cup {None}]

NoInvitation ==
  [status |-> "ABSENT", assignment |-> None, regeneratedFrom |-> None]

NoAttempt ==
  [status |-> "ABSENT", expiresAt |-> 0, submittedAt |-> 0,
   isCanonical |-> TRUE, answers |-> [q \in Questions |-> Unanswered],
   result |-> None]

(* The five token-authorised operations of a student.                      *)
StudentOps == {"start", "status", "questions", "answer", "submit"}

RequestState ==
  [pc          : {"idle", "attempt", "create", "save", "finalize", "score",
                  "find", "issue", "revoke"},
   op          : StudentOps \cup {"generate", "regenerate", "none"},
   invitation  : Invitations \cup {None},
   assignment  : Assignments \cup {None},
   question    : Questions \cup {None},
   option      : Options \cup {Unanswered},
   published   : BOOLEAN,
   trigger     : {"MANUAL", "AUTO"},
   at          : Nat,
   finalStatus : Terminal,
   scored      : Answers \cup {None},
   prior       : {"unread", "none", "exists"}]

Idle ==
  [pc |-> "idle", op |-> "none", invitation |-> None, assignment |-> None,
   question |-> None, option |-> Unanswered, published |-> FALSE,
   trigger |-> "MANUAL", at |-> 0, finalStatus |-> "SUBMITTED",
   scored |-> None, prior |-> "unread"]

TypeOK ==
  /\ now \in Nat
  /\ testStatus \in {"PUBLISHED", "ARCHIVED"}
  /\ assignment \in [Assignments -> AssignmentStatus]
  /\ invitation \in [Invitations -> InvitationRow]
  /\ attempt \in [Invitations -> AttemptRow]
  /\ req \in [Requests -> RequestState]

-----------------------------------------------------------------------------
(* Reading the rows.                                                       *)

Started(i)    == attempt[i].status # "ABSENT"
IsTerminal(i) == attempt[i].status \in Terminal

(* isPastDeadline: the deadline instant itself is already too late.  A     *)
(* variant that lets it pass is the off-by-one next to it.                 *)
PastDeadlineStrictly(i) == now > attempt[i].expiresAt
PastDeadline(i) == now >= attempt[i].expiresAt

ActiveFor(a) ==
  {i \in Invitations : /\ invitation[i].status = "ACTIVE"
                       /\ invitation[i].assignment = a}

AttemptsOf(a) ==
  {i \in Invitations : Started(i) /\ invitation[i].assignment = a}

(* The rows the priorCanonical query of finalizeAttempt matches.  The      *)
(* status filter matters: isCanonical defaults to true at creation, so     *)
(* the variant without it also matches attempts that are still open.       *)
OtherCanonicalAnyStatus(i) ==
  {k \in AttemptsOf(invitation[i].assignment) \ {i} : attempt[k].isCanonical}
OtherCanonical(i) ==
  {k \in AttemptsOf(invitation[i].assignment) \ {i} :
      IsTerminal(k) /\ attempt[k].isCanonical}

Finish(p)   == req' = [req EXCEPT ![p] = Idle]
Become(p,r) == req' = [req EXCEPT ![p] = r]

-----------------------------------------------------------------------------
(* Student requests.                                                       *)

(* validateTokenAndLoad, the first read of every student operation.  Only  *)
(* an ACTIVE invitation passes; every other status is an error response.   *)
(* The load carries the test's status, which only "start" uses later.      *)
ValidateToken(p, o, i, q, c) ==
  /\ req[p].pc = "idle"
  /\ invitation[i].status = "ACTIVE"
  /\ Become(p, [Idle EXCEPT !.pc = "attempt", !.op = o, !.invitation = i,
                            !.question = q, !.option = c,
                            !.published = (testStatus = "PUBLISHED")])
  /\ UNCHANGED <<now, rows>>

(* The invitation has no attempt: startOrResumeAttempt goes on to create   *)
(* one if the test was PUBLISHED when it was loaded, and fixes startedAt;  *)
(* getPlacementStatus answers NOT_STARTED and the other operations fail.   *)
NoAttemptYet(p) ==
  /\ req[p].pc = "attempt"
  /\ ~ Started(req[p].invitation)
  /\ IF req[p].op = "start" /\ req[p].published
     THEN req' = [req EXCEPT ![p].pc = "create", ![p].at = now]
     ELSE Finish(p)
  /\ UNCHANGED <<now, rows>>

(* The attempt is read and is no longer IN_PROGRESS: an error, or for      *)
(* getPlacementStatus the stored result.                                   *)
AttemptClosed(p) ==
  /\ req[p].pc = "attempt"
  /\ IsTerminal(req[p].invitation)
  /\ Finish(p)
  /\ UNCHANGED <<now, rows>>

(* The attempt is read IN_PROGRESS.  Past its deadline, all five           *)
(* operations finalize it as AUTO (autoFinalizeIfExpired, resumeExisting,  *)
(* getPlacementStatus, submitAttempt's trigger).  Before it, an answer is  *)
(* saved, a submission finalizes as MANUAL, and the rest only respond.     *)
AttemptOpen(p) ==
  LET i == req[p].invitation
  IN  /\ req[p].pc = "attempt"
      /\ attempt[i].status = "IN_PROGRESS"
      /\ \/ /\ PastDeadline(i)
            /\ Become(p, [Idle EXCEPT !.pc = "finalize", !.invitation = i,
                                      !.trigger = "AUTO"])
         \/ /\ ~ PastDeadline(i)
            /\ req[p].op = "submit"
            /\ Become(p, [Idle EXCEPT !.pc = "finalize", !.invitation = i])
         \/ /\ ~ PastDeadline(i)
            /\ req[p].op = "answer"
            /\ req' = [req EXCEPT ![p].pc = "save"]
         \/ /\ ~ PastDeadline(i)
            /\ req[p].op \notin {"submit", "answer"}
            /\ Finish(p)
      /\ UNCHANGED <<now, rows>>

(* The assignment moves on when its first attempt is created; the variant  *)
(* has lost the PENDING condition of the update.                           *)
BegunAgain(s) == "IN_PROGRESS"
Begun(s)      == IF s = "PENDING" THEN "IN_PROGRESS" ELSE s

(* The transaction of createNewAttempt: insert the attempt and move the    *)
(* assignment on, but only if it is still PENDING.                         *)
CreateAttempt(p) ==
  LET i == req[p].invitation
      a == invitation[i].assignment
  IN  /\ req[p].pc = "create"
      /\ ~ Started(i)
      /\ attempt' = [attempt EXCEPT ![i] =
                       [NoAttempt EXCEPT !.status = "IN_PROGRESS",
                                         !.expiresAt = req[p].at + Duration]]
      /\ assignment' = [assignment EXCEPT ![a] = Begun(@)]
      /\ Finish(p)
      /\ UNCHANGED <<now, testStatus, invitation>>

(* P2002 on invitationId: another request created the attempt first.  The  *)
(* loser resumes it.  (The variant tries the insert again.)                *)
CreateRetried(p) ==
  /\ req[p].pc = "create"
  /\ Started(req[p].invitation)
  /\ UNCHANGED vars

CreateConflict(p) ==
  /\ req[p].pc = "create"
  /\ Started(req[p].invitation)
  /\ req' = [req EXCEPT ![p].pc = "attempt"]
  /\ UNCHANGED <<now, rows>>

(* The upsert that ends submitAnswer.  Nothing is re-checked here.         *)
SaveAnswer(p) ==
  /\ req[p].pc = "save"
  /\ attempt' = [attempt EXCEPT ![req[p].invitation].answers[req[p].question] =
                    req[p].option]
  /\ Finish(p)
  /\ UNCHANGED <<now, testStatus, assignment, invitation>>

-----------------------------------------------------------------------------
(* finalizeAttempt, the one pipeline of manual and automatic submission.   *)

(* It reads the attempt again and fixes `now` and the final status.        *)
FinalizeRead(p) ==
  LET i == req[p].invitation
  IN  /\ req[p].pc = "finalize"
      /\ \/ /\ attempt[i].status # "IN_PROGRESS"
            /\ Finish(p)
         \/ /\ attempt[i].status = "IN_PROGRESS"
            /\ Become(p, [Idle EXCEPT !.pc = "score", !.invitation = i,
                            !.trigger = req[p].trigger, !.at = now,
                            !.finalStatus =
                               IF req[p].trigger = "AUTO" \/ PastDeadline(i)
                               THEN "AUTO_SUBMITTED" ELSE "SUBMITTED"])
      /\ UNCHANGED <<now, rows>>

(* Promise.all issues the queries together: the answers and the earlier    *)
(* canonical attempt are read in either order, outside the transaction.    *)
(* (The variant has left the answers out of what it loads.)                *)
ReadNoAnswers(p) ==
  /\ req[p].pc = "score"
  /\ req[p].scored = None
  /\ req' = [req EXCEPT ![p].scored = NoAttempt.answers]
  /\ UNCHANGED <<now, rows>>

ReadAnswers(p) ==
  /\ req[p].pc = "score"
  /\ req[p].scored = None
  /\ req' = [req EXCEPT ![p].scored = attempt[req[p].invitation].answers]
  /\ UNCHANGED <<now, rows>>

ReadPriorCanonical(p) ==
  /\ req[p].pc = "score"
  /\ req[p].prior = "unread"
  /\ req' = [req EXCEPT ![p].prior =
                IF OtherCanonical(req[p].invitation) = {} THEN "none"
                                                          ELSE "exists"]
  /\ UNCHANGED <<now, rows>>

(* The attempt row x and the result of it that request r writes.  (The     *)
(* variant forgets the result.)                                            *)
ClosedWithoutResult(x, r) ==
  [status |-> r.finalStatus, expiresAt |-> x.expiresAt, submittedAt |-> r.at,
   isCanonical |-> (r.prior = "none"), answers |-> x.answers, result |-> None]

Closed(x, r) ==
  [status      |-> r.finalStatus,
   expiresAt   |-> x.expiresAt,
   submittedAt |-> r.at,
   isCanonical |-> (r.prior = "none"),
   answers     |-> x.answers,
   result      |-> r.scored]

(* The condition of the guarded updateMany.  (The variant also asks that   *)
(* the deadline is still ahead.)                                           *)
OpenAndInTime(i) ==
  attempt[i].status = "IN_PROGRESS" /\ now < attempt[i].expiresAt
StillOpen(i)    == attempt[i].status = "IN_PROGRESS"

(* The transaction.  The guarded updateMany takes the attempt from         *)
(* IN_PROGRESS or fails the whole transaction; the invitation and the      *)
(* assignment are then updated whatever their status.                      *)
CommitFinalize(p) ==
  LET i == req[p].invitation
      a == invitation[i].assignment
  IN  /\ req[p].pc = "score"
      /\ req[p].scored # None
      /\ req[p].prior # "unread"
      /\ IF StillOpen(i)
         THEN /\ attempt' = [attempt EXCEPT ![i] = Closed(@, req[p])]
              /\ invitation' = [invitation EXCEPT ![i].status = "USED"]
              /\ assignment' = [assignment EXCEPT ![a] = "COMPLETED"]
         ELSE UNCHANGED <<attempt, invitation, assignment>>
      /\ Finish(p)
      /\ UNCHANGED <<now, testStatus>>

-----------------------------------------------------------------------------
(* Admin requests on invitations.                                          *)

(* First read of generateInvitation and regenerateInvitation.  (The        *)
(* variant does not look at the status of the assignment.)                 *)
CheckNoStatus(p, o, a) ==
  /\ req[p].pc = "idle"
  /\ Become(p, [Idle EXCEPT !.pc = "find", !.op = o, !.assignment = a])
  /\ UNCHANGED <<now, rows>>

CheckAssignment(p, o, a) ==
  /\ req[p].pc = "idle"
  /\ assignment[a] # "COMPLETED"
  /\ Become(p, [Idle EXCEPT !.pc = "find", !.op = o, !.assignment = a])
  /\ UNCHANGED <<now, rows>>

(* Second read: generate wants no ACTIVE invitation, regenerate wants one. *)
FindActive(p) ==
  LET live == ActiveFor(req[p].assignment)
  IN  /\ req[p].pc = "find"
      /\ \/ /\ req[p].op = "generate" /\ live = {}
            /\ req' = [req EXCEPT ![p].pc = "issue"]
         \/ /\ req[p].op = "regenerate"
            /\ \E i \in live : req' = [req EXCEPT ![p].pc = "issue",
                                                  ![p].invitation = i]
         \/ /\ (req[p].op = "generate") # (live = {})
            /\ Finish(p)
      /\ UNCHANGED <<now, rows>>

(* The unique indexes an insert of an ACTIVE invitation j must respect:    *)
(* one ACTIVE invitation per assignment, one successor per invitation.     *)
(* (The variant is a schema without the first.)                            *)
InsertUnchecked(table, a, from) ==
  from = None \/ \A i \in Invitations : table[i].regeneratedFrom # from

InsertAllowed(table, a, from) ==
  /\ \A i \in Invitations :
        ~ (table[i].status = "ACTIVE" /\ table[i].assignment = a)
  /\ from = None \/ \A i \in Invitations : table[i].regeneratedFrom # from

NewInvitation(a, from) ==
  [status |-> "ACTIVE", assignment |-> a, regeneratedFrom |-> from]

(* generateInvitation's insert, or its P2002.                              *)
GenerateInvitation(p, j) ==
  LET a == req[p].assignment
  IN  /\ req[p].pc = "issue" /\ req[p].op = "generate"
      /\ invitation[j].status = "ABSENT"
      /\ invitation' = IF InsertAllowed(invitation, a, None)
                       THEN [invitation EXCEPT ![j] = NewInvitation(a, None)]
                       ELSE invitation
      /\ Finish(p)
      /\ UNCHANGED <<now, testStatus, assignment, attempt>>

(* regenerateInvitation's transaction: the invitation that was found goes  *)
(* to REVOKED whatever it has become since, and its successor is inserted; *)
(* a unique violation rolls both back.                                     *)
RegenerateInvitation(p, j) ==
  LET a       == req[p].assignment
      current == req[p].invitation
      revoked == [invitation EXCEPT ![current].status = "REVOKED"]
  IN  /\ req[p].pc = "issue" /\ req[p].op = "regenerate"
      /\ invitation[j].status = "ABSENT"
      /\ invitation' = IF InsertAllowed(revoked, a, current)
                       THEN [revoked EXCEPT ![j] = NewInvitation(a, current)]
                       ELSE invitation
      /\ Finish(p)
      /\ UNCHANGED <<now, testStatus, assignment, attempt>>

(* Bound: Invitations is finite here and ids are not.  An insert that      *)
(* finds no id left is dropped.                                            *)
NoIdLeft(p) ==
  /\ req[p].pc = "issue"
  /\ \A j \in Invitations : invitation[j].status # "ABSENT"
  /\ Finish(p)
  /\ UNCHANGED <<now, rows>>

(* revokeInvitation: read ACTIVE, then update by id without a condition.   *)
(* (The variant only asks that the invitation exists.)                     *)
CheckExists(p, i) ==
  /\ req[p].pc = "idle"
  /\ invitation[i].status # "ABSENT"
  /\ Become(p, [Idle EXCEPT !.pc = "revoke", !.invitation = i])
  /\ UNCHANGED <<now, rows>>

CheckRevocable(p, i) ==
  /\ req[p].pc = "idle"
  /\ invitation[i].status = "ACTIVE"
  /\ Become(p, [Idle EXCEPT !.pc = "revoke", !.invitation = i])
  /\ UNCHANGED <<now, rows>>

RevokeInvitation(p) ==
  /\ req[p].pc = "revoke"
  /\ invitation' = [invitation EXCEPT ![req[p].invitation].status = "REVOKED"]
  /\ Finish(p)
  /\ UNCHANGED <<now, testStatus, assignment, attempt>>

-----------------------------------------------------------------------------
(* Environment.                                                            *)

Tick ==
  /\ now < MaxTime
  /\ now' = now + 1
  /\ UNCHANGED <<rows, req>>

(* archivePlacementTest, seen from here as a change of the test's status.  *)
ArchiveTest ==
  /\ testStatus = "PUBLISHED"
  /\ testStatus' = "ARCHIVED"
  /\ UNCHANGED <<now, assignment, invitation, attempt, req>>

(* A request dies between two queries: the process crashed, a query timed  *)
(* out or the connection was lost.  What it committed stays.  Every request *)
(* is Mortal but in the run that asks what one undisturbed request does.   *)
RequestDies(p) ==
  /\ p \in Mortal
  /\ req[p].pc # "idle"
  /\ Finish(p)
  /\ UNCHANGED <<now, rows>>

-----------------------------------------------------------------------------
Init ==
  /\ now = 0
  /\ testStatus = "PUBLISHED"
  /\ assignment = [a \in Assignments |-> "PENDING"]
  /\ invitation = [i \in Invitations |-> NoInvitation]
  /\ attempt = [i \in Invitations |-> NoAttempt]
  /\ req = [p \in Requests |-> Idle]

(* What a request that has begun does next.                                *)
Progress(p) ==
  \/ NoAttemptYet(p) \/ AttemptClosed(p) \/ AttemptOpen(p)
  \/ CreateAttempt(p) \/ CreateConflict(p) \/ SaveAnswer(p)
  \/ FinalizeRead(p) \/ ReadAnswers(p) \/ ReadPriorCanonical(p)
  \/ CommitFinalize(p)
  \/ FindActive(p) \/ NoIdLeft(p) \/ RevokeInvitation(p)
  \/ \E j \in Invitations :
        GenerateInvitation(p, j) \/ RegenerateInvitation(p, j)

Arrive(p) ==
  \/ \E i \in Invitations :
        \/ \E o \in StudentOps \ {"answer"} :
              ValidateToken(p, o, i, None, Unanswered)
        \/ \E q \in Questions, c \in Options \cup {Unanswered} :
              ValidateToken(p, "answer", i, q, c)
        \/ CheckRevocable(p, i)
  \/ \E o \in {"generate", "regenerate"}, a \in Assignments :
        CheckAssignment(p, o, a)

Next ==
  \/ \E p \in Requests : Arrive(p) \/ Progress(p) \/ RequestDies(p)
  \/ Tick
  \/ ArchiveTest

Spec == Init /\ [][Next]_vars

-----------------------------------------------------------------------------
(* Safety.                                                                 *)

(* The status column of an assignment is denormalised: it is written by    *)
(* two transactions that also write attempts.  It always equals what the   *)
(* attempts of the assignment say, however requests interleave.            *)
DerivedStatus(a) ==
  CASE \E i \in AttemptsOf(a) : IsTerminal(i) -> "COMPLETED"
    [] AttemptsOf(a) = {}                     -> "PENDING"
    [] OTHER                                  -> "IN_PROGRESS"

AssignmentMatchesAttempts ==
  \A a \in Assignments : assignment[a] = DerivedStatus(a)

(* Two submissions, or a submission and a lazy auto-submission, may run    *)
(* finalizeAttempt at once.  An attempt has a result exactly when it is    *)
(* closed, and a completed assignment has an official result: whoever      *)
(* commits first cannot have seen an earlier canonical attempt.            *)
ResultIffClosed ==
  \A i \in Invitations : (attempt[i].result # None) <=> IsTerminal(i)

CompletedHasCanonical ==
  \A a \in Assignments : assignment[a] = "COMPLETED" =>
     \E i \in AttemptsOf(a) : IsTerminal(i) /\ attempt[i].isCanonical

(* The check-then-create of generate, regenerate and their races never     *)
(* leaves two live links for one assignment.                               *)
OneLiveLink ==
  \A a \in Assignments : \A i, k \in ActiveFor(a) : i = k

(* The label says what happened: AUTO_SUBMITTED means the deadline had     *)
(* passed at submittedAt, although the clock is read up to three times     *)
(* between the arrival of the request and the commit.                      *)
LabelMatchesDeadline ==
  \A i \in Invitations : IsTerminal(i) =>
     (attempt[i].status = "AUTO_SUBMITTED"
         <=> attempt[i].submittedAt >= attempt[i].expiresAt)

(* Once closed, an attempt keeps its status, its result, its submission    *)
(* time and its canonical flag: the losing finalizer changes nothing.      *)
ClosedIsFinal ==
  [][\A i \in Invitations : IsTerminal(i) =>
        /\ attempt'[i].status = attempt[i].status
        /\ attempt'[i].result = attempt[i].result
        /\ attempt'[i].submittedAt = attempt[i].submittedAt
        /\ attempt'[i].isCanonical = attempt[i].isCanonical]_vars

-----------------------------------------------------------------------------
(* The inductive invariant: the properties above and what a request still  *)
(* knows of the rows it has read, after other requests have run.           *)

(* A row is there before anything points to it.                            *)
RowsLinked ==
  \A i \in Invitations :
     /\ invitation[i].status # "ABSENT" => invitation[i].assignment \in Assignments
     /\ Started(i) => invitation[i].status # "ABSENT"

IsRow(i) == i \in Invitations /\ invitation[i].status # "ABSENT"

RequestLinked(p) ==
  LET r == req[p]
  IN  /\ r.pc \in {"attempt", "create", "save", "finalize", "score", "revoke"}
            => IsRow(r.invitation)
      /\ r.pc \in {"save", "finalize", "score"} => Started(r.invitation)
      /\ r.pc = "save" \/ (r.pc = "attempt" /\ r.op = "answer")
            => r.question \in Questions
      /\ r.pc = "create" => r.op = "start"
      /\ r.pc \in {"find", "issue"} => r.assignment \in Assignments
      /\ r.pc \in {"find", "issue"} => r.op \in {"generate", "regenerate"}
      /\ r.pc = "issue" /\ r.op = "regenerate" => IsRow(r.invitation)

(* What was read outside the transaction may be stale at the commit, but   *)
(* only in one direction: an overdue attempt stays overdue, the label      *)
(* chosen stays right for the instant it was chosen at, and a canonical    *)
(* attempt that was seen stays canonical.                                  *)
ReadsStillHold(p) ==
  LET r == req[p]
  IN  /\ r.pc = "finalize" /\ r.trigger = "AUTO" => PastDeadline(r.invitation)
      /\ r.pc = "score" =>
            (r.finalStatus = "AUTO_SUBMITTED"
               <=> r.at >= attempt[r.invitation].expiresAt)
      /\ r.pc = "score" /\ r.prior = "exists" =>
            OtherCanonical(r.invitation) # {}

IInv ==
  /\ TypeOK
  /\ RowsLinked
  /\ \A p \in Requests : RequestLinked(p) /\ ReadsStillHold(p)
  /\ AssignmentMatchesAttempts
  /\ ResultIffClosed
  /\ CompletedHasCanonical
  /\ OneLiveLink
  /\ LabelMatchesDeadline

-----------------------------------------------------------------------------
(* What the code's comments and docs say and overlapping requests break.   *)
(* Each holds when requests do not overlap: the first three are checked on *)
(* the serial run, the last one on a run that finds two official attempts. *)

(* The answers of a closed attempt are the ones its result was scored      *)
(* from: guidance is re-derived "from the immutable answers" on each view. *)
ResultReflectsAnswers ==
  \A i \in Invitations : IsTerminal(i) => attempt[i].result = attempt[i].answers

(* A closed attempt implies its invitation is USED; getPlacementStatus and *)
(* resumeExisting call anything else a broken invariant.                   *)
ClosedMeansUsed ==
  \A i \in Invitations : IsTerminal(i) => invitation[i].status = "USED"

(* No link of a completed assignment is live, so that no second attempt    *)
(* can be started on it.                                                   *)
CompletedHasNoLiveLink ==
  \A a \in Assignments : assignment[a] = "COMPLETED" => ActiveFor(a) = {}

(* isCanonical marks the official attempt of an assignment: at most one.   *)
OfficialAttempts(a) ==
  {i \in AttemptsOf(a) : IsTerminal(i) /\ attempt[i].isCanonical}

OneOfficialAttempt ==
  \A a \in Assignments : Cardinality(OfficialAttempts(a)) <= 1

-----------------------------------------------------------------------------
(* The promise this specification keeps.                                   *)

Promise == INSTANCE PlacementPromise WITH
  Sittings <- Invitations,
  Outcomes <- Answers,
  stage    <- assignment,
  owner    <- [i \in Invitations |->
                 IF Started(i) THEN invitation[i].assignment ELSE None],
  outcome  <- [i \in Invitations |-> attempt[i].result],
  official <- {i \in Invitations : IsTerminal(i) /\ attempt[i].isCanonical}

(* Links, requests and transactions implement the promise: every step is   *)
(* the beginning of a sitting, its one closing, or invisible.              *)
KeepsPromise == Promise!PromiseSpec

-----------------------------------------------------------------------------
(* Liveness.                                                               *)

(* A server runs the requests it has accepted.  Nothing else is fair: no   *)
(* student comes back, no page tries again, and the clock may stop.        *)
ServerFairness == \A p \in Requests : WF_vars(Progress(p))

FairSpec == Spec /\ ServerFairness

(* A student's request ends: losing the race to create the attempt, or to  *)
(* finalize it, leads to a response and not to another round.              *)
StudentRequestEnds ==
  \A p \in Requests :
     req[p].pc \in {"attempt", "create", "save", "finalize", "score"}
        ~> req[p].pc = "idle"

(* Enforcement is on access, without a sweep (ARCHITECTURE.md): nothing    *)
(* closes an attempt nobody comes back to.  But one request that reaches   *)
(* an attempt past its deadline and does not die is enough, whatever it    *)
(* came for, and whatever other requests do or leave half done meanwhile:  *)
(* the attempt is closed.                                                  *)
ReachesOverdue(p, i) ==
  /\ req[p].pc = "attempt" /\ req[p].invitation = i
  /\ attempt[i].status = "IN_PROGRESS" /\ PastDeadline(i)

OverdueIsClosed ==
  \A p \in Requests \ Mortal, i \in Invitations :
     ReachesOverdue(p, i) ~> IsTerminal(i)
=============================================================================
