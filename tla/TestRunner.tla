----------------------------- MODULE TestRunner -----------------------------
(***************************************************************************)
(* The student's page /placement/[token]: the wizard of PlacementFlow, the *)
(* test runner PlacementTestShell with its timer, and the Server Actions   *)
(* of attempt-actions.ts they call, for one link opened in several tabs.   *)
(*                                                                         *)
(* A call is validated against the link (validateTokenAndLoad), then works *)
(* on the attempt; a call that has to finish the attempt grades the        *)
(* answers it reads and then tries to close it.  The races inside a        *)
(* creation or a save are PlacementAttempt's: here each is one step.       *)
(* A reload is a new tab, and the old one is left.                         *)
(***************************************************************************)
EXTENDS Naturals, Sequences, FiniteSets

CONSTANTS
  Tabs,          \* the tabs the link is ever opened in
  QuestionIds,   \* published questions of the test
  OptionIds,     \* options of a question
  MaxQueue,      \* bound of the saves a tab has waiting
  MaxFaults,     \* bound of lost and failed calls
  NONE           \* no answer, no question

ASSUME RunnerAssumption ==
  /\ MaxQueue \in Nat \ {0} /\ MaxFaults \in Nat
  /\ NONE \notin OptionIds \cup QuestionIds

VARIABLES
  attempt,    \* of the link: "NONE", "OPEN", "CLOSED"
  late,       \* its deadline has passed, for the server
  stored,     \* its stored answers
  profile,    \* the candidate's profile is complete
  published,  \* the test is published; it stays so or not
  revoked,    \* an administrator has revoked the link
  tab,        \* tab[t]: the state of the page in tab t
  calls,      \* calls[t]: its calls; the router sends one after another
  sure,       \* sure[t]: questions nothing but t's own saves has touched
  faults      \* calls lost or failed so far

vars == <<attempt, late, stored, profile, published, revoked,
          tab, calls, sure, faults>>

server == <<attempt, late, stored, profile>>
admin  == <<published, revoked>>

-----------------------------------------------------------------------------
Answers == [QuestionIds -> OptionIds \cup {NONE}]
NoAnswers == [q \in QuestionIds |-> NONE]

Phases == {"closed", "loading", "form", "welcome", "instructions", "test",
           "result", "error", "left"}

Tab == [phase : Phases,
        busy  : BOOLEAN,       \* submitting, or starting
        ready : BOOLEAN,       \* the questions are there
        shown : Answers,       \* the selected options
        recovering : BOOLEAN,  \* finalizingRef
        rung  : BOOLEAN]       \* the timer has expired

Refusals == {"INVITATION_USED", "INVITATION_REVOKED", "ATTEMPT_EXPIRED",
             "INVALID_ATTEMPT_STATE", "DUPLICATE_SUBMISSION",
             "TEST_NOT_PUBLISHED", "SERVER_ERROR"}

Replies == Refusals \cup {"", "OK", "NEEDS_PROFILE", "NOT_STARTED",
                          "IN_PROGRESS", "COMPLETED", "TEST_UNAVAILABLE"}

Ops == {"page", "profile", "begin", "load", "save", "submit", "status"}

Call == [op : Ops, stage : {"queued", "validated", "closing", "answered"},
         question : QuestionIds \cup {NONE}, option : OptionIds \cup {NONE},
         previous : OptionIds \cup {NONE},   \* what a refused save restores
         reply : Replies, answers : Answers]

NewCall(op) ==
  [op |-> op, stage |-> "queued", question |-> NONE, option |-> NONE,
   previous |-> NONE, reply |-> "", answers |-> NoAnswers]

SaveCall(q, o, previous) ==
  [NewCall("save") EXCEPT !.question = q, !.option = o, !.previous = previous]

Closed == [phase |-> "closed", busy |-> FALSE, ready |-> FALSE,
           shown |-> NoAnswers, recovering |-> FALSE, rung |-> FALSE]

TypeOK ==
  /\ attempt \in {"NONE", "OPEN", "CLOSED"} /\ stored \in Answers
  /\ {late, profile, published, revoked} \subseteq BOOLEAN
  /\ tab \in [Tabs -> Tab]
  /\ calls \in [Tabs -> Seq(Call)]
  /\ sure \in [Tabs -> SUBSET QuestionIds]
  /\ faults \in 0 .. MaxFaults

-----------------------------------------------------------------------------
(* The calls of a tab.                                                     *)

At(t, stage)    == calls[t] # <<>> /\ Head(calls[t]).stage = stage
Working(t, ops) == At(t, "validated") /\ Head(calls[t]).op \in ops
HasAnswer(t, op) == At(t, "answered") /\ Head(calls[t]).op = op

Ask(t, c)       == calls' = [calls EXCEPT ![t] = Append(@, c)]
Receive(t)      == calls' = [calls EXCEPT ![t] = Tail(@)]
ReceiveThen(t, op) ==
  calls' = [calls EXCEPT ![t] = Append(Tail(@), NewCall(op))]

Moves(t, stage) == calls' = [calls EXCEPT ![t][1].stage = stage]
(* An answer.  Of a save that succeeded, nothing is asked any more.        *)
Reply(t, r) ==
  LET c == Head(calls[t])
      answer == [NewCall(c.op) EXCEPT !.stage = "answered", !.reply = r]
  IN  calls' = [calls EXCEPT ![t][1] =
                  IF r = "OK" THEN answer
                  ELSE [answer EXCEPT !.question = c.question,
                                      !.previous = c.previous]]

(* finalizeAttempt makes the link USED in the transaction that closes the  *)
(* attempt, whatever it was before.                                        *)
LinkStatus == CASE attempt = "CLOSED" -> "USED"
                [] attempt # "CLOSED" /\ revoked -> "REVOKED"
                [] OTHER -> "ACTIVE"

-----------------------------------------------------------------------------
(* The server.                                                             *)

(* A change in getPlacementStatus that forgets the used link.              *)
ValidateStrictly(t) ==
  /\ At(t, "queued")
  /\ CASE LinkStatus = "ACTIVE"  -> Moves(t, "validated")
       [] LinkStatus = "REVOKED" -> Reply(t, "INVITATION_REVOKED")
       [] LinkStatus = "USED"    -> Reply(t, "INVITATION_USED")
  /\ UNCHANGED <<server, admin, tab, sure, faults>>

(* validateTokenAndLoad, and getPlacementStatus's answer for a used link.  *)
Validate(t) ==
  /\ At(t, "queued")
  /\ LET status == Head(calls[t]).op \in {"page", "status"}
     IN  CASE LinkStatus = "ACTIVE"  -> Moves(t, "validated")
           [] LinkStatus = "REVOKED" -> Reply(t, "INVITATION_REVOKED")
           [] LinkStatus = "USED" ->
                Reply(t, IF status THEN "COMPLETED" ELSE "INVITATION_USED")
  /\ UNCHANGED <<server, admin, tab, sure, faults>>

(* updateCandidateForToken.                                                *)
UpdateCandidate(t) ==
  /\ Working(t, {"profile"})
  /\ profile' = TRUE
  /\ Reply(t, "OK")
  /\ UNCHANGED <<attempt, late, stored, admin, tab, sure, faults>>

(* getPlacementStatus and startOrResumeAttempt where no attempt exists.    *)
NoAttemptYet(t) ==
  /\ Working(t, {"page", "status", "begin"})
  /\ attempt = "NONE"
  /\ IF Head(calls[t]).op = "begin"
     THEN IF published
          THEN attempt' = "OPEN" /\ Reply(t, "IN_PROGRESS")
          ELSE UNCHANGED attempt /\ Reply(t, "TEST_NOT_PUBLISHED")
     ELSE /\ UNCHANGED attempt
          /\ Reply(t, CASE ~ published            -> "TEST_UNAVAILABLE"
                        [] published /\ ~ profile -> "NEEDS_PROFILE"
                        [] published /\ profile   -> "NOT_STARTED")
  /\ UNCHANGED <<late, stored, profile, admin, tab, sure, faults>>

(* An open attempt in time: the page goes on, a load reads, a save writes. *)
AttemptRuns(t) ==
  /\ Working(t, {"page", "status", "begin"})
  /\ attempt = "OPEN" /\ ~ late
  /\ Reply(t, "IN_PROGRESS")
  /\ UNCHANGED <<server, admin, tab, sure, faults>>

ReadQuestions(t) ==
  /\ Working(t, {"load"})
  /\ attempt = "OPEN" /\ ~ late
  /\ calls' = [calls EXCEPT ![t][1].stage = "answered", ![t][1].reply = "OK",
                            ![t][1].answers = stored]
  /\ sure' = [sure EXCEPT ![t] = QuestionIds]
  /\ UNCHANGED <<server, admin, tab, faults>>

StoreAnswer(t) ==
  LET c == Head(calls[t])
  IN  /\ Working(t, {"save"})
      /\ attempt = "OPEN" /\ ~ late
      /\ stored' = [stored EXCEPT ![c.question] = c.option]
      /\ sure' = [u \in Tabs |-> IF u = t THEN sure[u]
                                 ELSE sure[u] \ {c.question}]
      /\ Reply(t, "OK")
      /\ UNCHANGED <<attempt, late, profile, admin, tab, faults>>

(* An attempt that is late, or submitted: it is graded now and closed at   *)
(* the next step, if nobody has closed it in between.  (The answers remain *)
(* and the deadline too, but no operation here reads them again.)          *)
Grade(t) ==
  /\ \/ Working(t, Ops \ {"profile", "submit"}) /\ late
     \/ Working(t, {"submit"})
  /\ attempt = "OPEN"
  /\ Moves(t, "closing")
  /\ UNCHANGED <<server, admin, tab, sure, faults>>

CloseAttempt(t) ==
  /\ At(t, "closing")
  /\ attempt' = "CLOSED"
  /\ late' = FALSE /\ stored' = NoAnswers /\ sure' = [u \in Tabs |-> {}]
  /\ Reply(t, CASE attempt = "CLOSED" -> "DUPLICATE_SUBMISSION"
                [] attempt # "CLOSED" /\ Head(calls[t]).op = "submit" -> "OK"
                [] attempt # "CLOSED" /\ Head(calls[t]).op \in {"load", "save"}
                     -> "ATTEMPT_EXPIRED"
                [] OTHER -> "COMPLETED")
  /\ UNCHANGED <<profile, admin, tab, faults>>

(* The attempt was closed after the link was validated.                    *)
AttemptIsClosed(t) ==
  /\ Working(t, Ops \ {"profile"})
  /\ attempt = "CLOSED"
  /\ Reply(t, CASE Head(calls[t]).op = "submit" -> "DUPLICATE_SUBMISSION"
                [] Head(calls[t]).op \in {"page", "status"} -> "COMPLETED"
                [] OTHER -> "INVALID_ATTEMPT_STATE")
  /\ UNCHANGED <<server, admin, tab, sure, faults>>

(* runAction turns anything else that is thrown into SERVER_ERROR.         *)
FailCall(t) ==
  /\ At(t, "validated")
  /\ faults < MaxFaults
  /\ faults' = faults + 1
  /\ Reply(t, "SERVER_ERROR")
  /\ UNCHANGED <<server, admin, tab, sure>>

-----------------------------------------------------------------------------
(* What the student does.                                                  *)

OpenPage(t) ==
  /\ tab[t].phase = "closed"
  /\ tab' = [tab EXCEPT ![t].phase = "loading"]
  /\ Ask(t, NewCall("page"))
  /\ UNCHANGED <<server, admin, sure, faults>>

SubmitProfile(t) ==
  /\ tab[t].phase = "form" /\ ~ tab[t].busy
  /\ tab' = [tab EXCEPT ![t].busy = TRUE]
  /\ Ask(t, NewCall("profile"))
  /\ UNCHANGED <<server, admin, sure, faults>>

Continue(t) ==
  /\ tab[t].phase = "welcome"
  /\ tab' = [tab EXCEPT ![t].phase = "instructions"]
  /\ UNCHANGED <<server, admin, calls, sure, faults>>

Begin(t) ==
  /\ tab[t].phase = "instructions" /\ ~ tab[t].busy
  /\ tab' = [tab EXCEPT ![t].busy = TRUE]
  /\ Ask(t, NewCall("begin"))
  /\ UNCHANGED <<server, admin, sure, faults>>

(* The variant lets the selection change under a submission.               *)
SelectWhileSubmitting(t, q, o) ==
  /\ tab[t].phase = "test" /\ tab[t].ready
  /\ Len(calls[t]) < MaxQueue
  /\ tab' = [tab EXCEPT ![t].shown[q] = o]
  /\ Ask(t, SaveCall(q, o, tab[t].shown[q]))
  /\ UNCHANGED <<server, admin, sure, faults>>

(* handleSelectOption: shown at once, saved in the background.             *)
SelectOption(t, q, o) ==
  /\ tab[t].phase = "test" /\ tab[t].ready /\ ~ tab[t].busy
  /\ Len(calls[t]) < MaxQueue
  /\ tab' = [tab EXCEPT ![t].shown[q] = o]
  /\ Ask(t, SaveCall(q, o, tab[t].shown[q]))
  /\ UNCHANGED <<server, admin, sure, faults>>

RunSubmit(t) ==
  /\ tab[t].phase = "test" /\ tab[t].ready
  /\ Ask(t, NewCall("submit"))
  /\ UNCHANGED <<server, admin, sure, faults>>

ConfirmSubmit(t) ==
  /\ ~ tab[t].busy
  /\ tab' = [tab EXCEPT ![t].busy = TRUE]
  /\ RunSubmit(t)

(* PlacementTimer expires once, by the browser's clock, which may be ahead *)
(* of the server's or behind.                                              *)
TimerExpires(t) ==
  /\ ~ tab[t].rung
  /\ tab' = [tab EXCEPT ![t].rung = TRUE, ![t].busy = TRUE]
  /\ RunSubmit(t)

(* Closing or reloading the page: a call that has been sent goes on.       *)
(* Before the test and after it, leaving is like never going on.           *)
LeavePage(t) ==
  /\ tab[t].phase = "test"
  /\ tab' = [tab EXCEPT ![t] = [Closed EXCEPT !.phase = "left"]]
  /\ \E sent \in {0, 1} : /\ sent <= Len(calls[t])
                         /\ calls' = [calls EXCEPT ![t] = SubSeq(@, 1, sent)]
  /\ sure' = [sure EXCEPT ![t] = {}]
  /\ UNCHANGED <<server, admin, faults>>

-----------------------------------------------------------------------------
(* What the page does with an answer.                                      *)

Shows(t, phase) ==
  tab' = [tab EXCEPT ![t] = [Closed EXCEPT !.phase = phase,
                                           !.recovering = tab[t].recovering]]

(* The shell of the test asks for the questions when it is mounted.        *)
Mounts(t) == Shows(t, "test") /\ ReceiveThen(t, "load")

(* deriveInitialState.                                                     *)
PageShown(t) ==
  LET r == Head(calls[t]).reply
  IN  /\ HasAnswer(t, "page") /\ tab[t].phase = "loading"
      /\ IF r = "IN_PROGRESS"
         THEN Mounts(t)
         ELSE /\ Receive(t)
              /\ Shows(t, CASE r = "NEEDS_PROFILE" -> "form"
                            [] r = "NOT_STARTED"   -> "welcome"
                            [] r = "COMPLETED"     -> "result"
                            [] OTHER               -> "error")
      /\ UNCHANGED <<server, admin, sure, faults>>

ProfileSaved(t) ==
  /\ HasAnswer(t, "profile") /\ tab[t].phase = "form"
  /\ IF Head(calls[t]).reply = "OK" THEN Shows(t, "welcome")
     ELSE tab' = [tab EXCEPT ![t].busy = FALSE]
  /\ Receive(t)
  /\ UNCHANGED <<server, admin, sure, faults>>

Begun(t) ==
  LET r == Head(calls[t]).reply
  IN  /\ HasAnswer(t, "begin") /\ tab[t].phase = "instructions"
      /\ CASE r = "IN_PROGRESS" -> Mounts(t)
           [] r = "COMPLETED"   -> Shows(t, "result") /\ Receive(t)
           [] OTHER -> /\ tab' = [tab EXCEPT ![t].busy = FALSE]
                       /\ Receive(t)
      /\ UNCHANGED <<server, admin, sure, faults>>

(* handleAlreadyFinalized, once: ask for the result there must be.  (A     *)
(* variant marks it and does not ask.)                                     *)
RecoverUnasked(t, page) ==
  /\ tab' = [tab EXCEPT ![t] = [page EXCEPT !.recovering = TRUE]]
  /\ Receive(t)

Recover(t, page) ==
  IF page.recovering
  THEN tab' = [tab EXCEPT ![t] = page] /\ Receive(t)
  ELSE /\ tab' = [tab EXCEPT ![t] = [page EXCEPT !.recovering = TRUE]]
       /\ ReceiveThen(t, "status")

Loaded(t) ==
  LET c == Head(calls[t])
  IN  /\ HasAnswer(t, "load") /\ tab[t].phase \notin {"closed", "left"}
      /\ CASE tab[t].phase # "test" -> UNCHANGED tab /\ Receive(t)
           [] tab[t].phase = "test" /\ c.reply = "OK" ->
                /\ tab' = [tab EXCEPT ![t].ready = TRUE, ![t].shown = c.answers]
                /\ Receive(t)
           [] OTHER -> Recover(t, tab[t])
      /\ UNCHANGED <<server, admin, sure, faults>>

(* A refused save puts back what was shown before it.                      *)
Saved(t) ==
  LET c == Head(calls[t])
      reverted == IF tab[t].phase = "test"
                  THEN [tab[t] EXCEPT !.shown[c.question] = c.previous]
                  ELSE tab[t]
  IN  /\ HasAnswer(t, "save") /\ tab[t].phase \notin {"closed", "left"}
      /\ IF c.reply = "OK"
         THEN UNCHANGED <<tab, sure>> /\ Receive(t)
         ELSE /\ sure' = [sure EXCEPT ![t] = @ \ {c.question}]
              /\ IF c.reply \in {"ATTEMPT_EXPIRED", "INVALID_ATTEMPT_STATE"}
                 THEN Recover(t, reverted)
                 ELSE tab' = [tab EXCEPT ![t] = reverted] /\ Receive(t)
      /\ UNCHANGED <<server, admin, faults>>

(* The rest of runSubmit.                                                  *)
Resubmitting(t) ==
  \E i \in 2 .. Len(calls[t]) : calls[t][i].op = "submit"

Submitted(t) ==
  LET r == Head(calls[t]).reply
  IN  /\ HasAnswer(t, "submit") /\ tab[t].phase \notin {"closed", "left"}
      /\ CASE r = "OK" -> Shows(t, "result") /\ Receive(t)
           [] r \in {"DUPLICATE_SUBMISSION", "INVITATION_USED"} -> Recover(t, tab[t])
           [] r = "INVITATION_REVOKED" -> Shows(t, "error") /\ Receive(t)
           [] OTHER -> tab' = [tab EXCEPT ![t].busy = FALSE] /\ Receive(t)
      /\ sure' = IF r = "SERVER_ERROR" /\ Resubmitting(t)
                 THEN [sure EXCEPT ![t] = {}] ELSE sure
      /\ UNCHANGED <<server, admin, faults>>

Recovered(t) ==
  /\ HasAnswer(t, "status") /\ tab[t].phase \notin {"closed", "left"}
  /\ Shows(t, IF Head(calls[t]).reply = "COMPLETED" THEN "result" ELSE "error")
  /\ Receive(t)
  /\ UNCHANGED <<server, admin, sure, faults>>

(* Nobody waits for the answer any more.                                   *)
Ignored(t) ==
  /\ At(t, "answered") /\ tab[t].phase = "left"
  /\ Receive(t)
  /\ UNCHANGED <<server, admin, tab, sure, faults>>

(* The connection breaks before the request arrives or before the answer   *)
(* does: the promise rejects, and no handler of the page catches it.       *)
LoseCall(t) ==
  /\ At(t, "queued") \/ At(t, "answered")
  /\ tab[t].phase # "left"
  /\ faults < MaxFaults
  /\ faults' = faults + 1
  /\ sure' = [sure EXCEPT ![t] = @ \ {Head(calls[t]).question}]
  /\ Receive(t)
  /\ UNCHANGED <<server, admin, tab>>

-----------------------------------------------------------------------------
DeadlinePasses ==
  /\ attempt = "OPEN" /\ ~ late
  /\ late' = TRUE
  /\ UNCHANGED <<attempt, stored, profile, admin, tab, calls, sure, faults>>

RevokeLink ==
  /\ LinkStatus = "ACTIVE"
  /\ revoked' = TRUE
  /\ UNCHANGED <<server, published, tab, calls, sure, faults>>

Init ==
  /\ attempt = "NONE" /\ late = FALSE /\ stored = NoAnswers
  /\ profile \in BOOLEAN /\ published \in BOOLEAN /\ revoked = FALSE
  /\ tab = [t \in Tabs |-> Closed] /\ calls = [t \in Tabs |-> <<>>]
  /\ sure = [t \in Tabs |-> {}] /\ faults = 0

Server(t) ==
  \/ Validate(t) \/ UpdateCandidate(t) \/ NoAttemptYet(t) \/ AttemptRuns(t)
  \/ ReadQuestions(t) \/ StoreAnswer(t) \/ Grade(t) \/ CloseAttempt(t)
  \/ AttemptIsClosed(t)

Page(t) ==
  \/ PageShown(t) \/ ProfileSaved(t) \/ Begun(t) \/ Loaded(t) \/ Saved(t)
  \/ Submitted(t) \/ Recovered(t) \/ Ignored(t)

Student(t) ==
  \/ OpenPage(t) \/ SubmitProfile(t) \/ Continue(t) \/ Begin(t)
  \/ \E q \in QuestionIds, o \in OptionIds : SelectOption(t, q, o)
  \/ ConfirmSubmit(t) \/ LeavePage(t)

Next ==
  \/ \E t \in Tabs : \/ Server(t) \/ Page(t) \/ Student(t) \/ TimerExpires(t)
                     \/ FailCall(t) \/ LoseCall(t)
  \/ DeadlinePasses \/ RevokeLink

(* The server answers, the page handles the answer (never both at once),   *)
(* the clock runs; what the student does is up to the student.  No tab     *)
(* differs from another: this is assumed of one, and nothing of the rest.  *)
OneTab == CHOOSE t \in Tabs : TRUE

Fairness == /\ WF_vars(Server(OneTab) \/ Page(OneTab))
            /\ WF_vars(TimerExpires(OneTab))

Spec == Init /\ [][Next]_vars /\ Fairness

-----------------------------------------------------------------------------
(* Properties.                                                             *)

(* A submission grades the answers its page shows, although they are saved *)
(* in the background one by one, the page does not wait for them, and the  *)
(* timer submits in the middle of it: every question but those another tab *)
(* has saved too or one of whose saves failed in this tab, and unless a    *)
(* failed submission has unlocked the page while the timer's still waits   *)
(* (placement-test-shell.tsx, handleSelectOption and runSubmit).           *)
SubmittedAsShown ==
  [][\A t \in Tabs :
       Working(t, {"submit"}) /\ Grade(t) /\ tab[t].phase # "left" =>
         \A q \in sure[t] : stored[q] = tab[t].shown[q]]_vars

(* The error page comes up only for a link that was revoked or a test that *)
(* is not published, after a call has failed, or when the page was opened  *)
(* while another call was closing the attempt and lost against it: a test  *)
(* under way ends on its result, whoever closed it and in whatever order   *)
(* the refusals arrive (handleAlreadyFinalized recovers it "rather than    *)
(* dead-ending", placement-test-shell.tsx:97).                             *)
NoDeadEnd ==
  [][\A t \in Tabs :
       tab[t].phase # "error" /\ tab'[t].phase = "error" =>
         \/ revoked \/ ~ published \/ faults > 0
         \/ Head(calls[t]).op = "page"
              /\ Head(calls[t]).reply = "DUPLICATE_SUBMISSION"]_vars

(* A test that is opened and left alone ends, with its result or with the  *)
(* page that says the link was revoked, whatever the other tabs of the     *)
(* link do, or never do, unless a call is lost or fails: the timer         *)
(* submits, and a refusal is followed up.                                  *)
TestEnds ==
  tab[OneTab].phase = "test" ~> (tab[OneTab].phase # "test" \/ faults > 0)
=============================================================================
