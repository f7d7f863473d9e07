# Vertex Placement: a verification development

Vertex Placement is a web application (Next.js server actions and services over
Postgres through Prisma) with which a language school tests applicants. An
admin authors a test, assigns it to a candidate and hands out a link; the
student takes the timed test behind the link; the server scores it and proposes
a level. Since phase 2J a visitor can also verify an e-mail address and take
the public test twice without an admin.

This directory holds TLA+ models of that system, the TLC configurations that
check them on small instances, and TLAPS proofs of what matters most. Paths
below are relative to the repository.

## 1. The system

The server keeps all its state in Postgres (`src/prisma/schema.prisma`). It has
no background job, no queue and no lock of its own: a request reads rows, decides,
and writes rows, and two requests interleave between any two queries. What holds
them together is a few `$transaction`s (READ COMMITTED), unique columns, partial
unique indexes, and one guarded `updateMany`. Most of the questions this
development asks are of the form: *what is left of a check-then-act when other
requests run between the check and the act?*

### Inventory

| Component | State | Operations | Hard behaviour | Correct when |
|---|---|---|---|---|
| **Placement attempts** `attempt.service.ts`, `domain/attempts/timing.ts` | `placement_attempts`, `attempt_answers`, `placement_results`; the denormalised status of the assignment | start/resume, status, questions, answer, submit; finalization; lazy auto-submission | double submission, submission against auto-submission, late answers, the deadline passing between three readings of the clock, two attempts of one assignment | an attempt closes once, with one result, labelled by what happened; the assignment's status is what its attempts say; the first closed attempt is official |
| **Placement invitations** `invitation.service.ts` | `placement_invitations` (ACTIVE, USED, REVOKED; `regeneratedFromId`) | generate, regenerate, revoke, validate | two admins at once; revoke or regenerate against a submission | one live link per assignment; a closed attempt's link is USED |
| **Assignments** `assignment.service.ts` | `placement_assignments` | create (admin), create (self-service) | the status is written by two transactions of other services | status is derived; one active self-service assignment per candidate |
| **Self-service start** `self-serve.service.ts`, `self-serve-actions.ts` | `public_identities`, candidates, and the three tables above | `startPublicAttempt`, `getEligibility` | a chain of seven separate queries; stalls, double clicks, lost responses | quota respected up to a known overrun; nobody locked out but by a death or an admin |
| **Start page `/try`** `components/try`, `self-serve-session.ts`, `self-serve-actions.ts` | a wizard per tab, two cookies per browser | verify, switch address, save the profile, start, resume, reload | tabs that share cookies, answers that are lost, two queries behind one decision | nobody is led to another address's attempt; an open attempt is out of reach only after a loss |
| **Verification codes, rate limits** `self-serve.service.ts`, `rate-limit.service.ts` | `public_verification_codes`, `rate_limit_events` | request a code, verify it, check a limit | counters that are read and then written | tries, use, cooldown and window respected up to a known overrun |
| **Test authoring** `placement-test.service.ts`, `question.service.ts` | tests, questions, options | create, edit, reorder, publish, archive, choose the public test | status checked by a read of its own before every edit; two-pass renumbering; one public flag | content frozen once published but for late writes; orders unique; answers keep their question |
| **Bands, institutional bands** `placement-band.service.ts`, `language-hub-scoring.service.ts` | `placement_bands`, the level of each result | create, edit, delete, apply the institutional set, backfill | applied one by one under edits and submissions; a partial failure | a stored level is justified; an application that saw all bands leaves nobody unplaced |
| **Scoring and results** `domain/scoring`, `domain/placement`, `domain/results` | none (pure) | raw score, buckets, band match, level of progression, course performance, question analysis, reports | boundaries, gaps and overlaps of bands; the same answers counted by five modules | the modules agree; a level rests on the correct answers; a named strength on evidence |
| **Import** `domain/import`, `import.service.ts`, `import-test-dialog.tsx` | a test with its questions; the dialog's preview | choose, preview, confirm | stale previews; check-then-create on a title | only sound tests are created, the dataset not twice |
| **Student test runner** `components/placement/*`, `attempt-actions.ts` | browser state | profile, begin, choose, save, submit, timer, recovery | optimistic answers and late failures; timer against button; several tabs | what is graded is what is shown; a test under way ends on its result |
| **Accounts and sessions** `user.service.ts`, `lib/auth.ts`, `lib/actor.ts`, `proxy.ts`, the admin layout and pages, `admin-accounts-panel.tsx` | users; a JWT in the cookie of each browser; a panel per page | sign in, sign out, list, create, edit, reset a password, remove, reactivate; the guards of a page (proxy, layout, `getActorOrThrow`) | a session outlives its account; guards that check different things; a removal against a change under way | the guards never bounce a browser to and fro; a removed account changes at most what was in flight |
| **Export, e-mail delivery, candidate list, pages** | none of their own | read and render | | not modelled |

How they interact: the student's pages call server actions, which call
`attempt.service`, which loads the invitation by its token
(`validateTokenAndLoad`) and reaches the assignment and the test through it;
finalizing an attempt writes the attempt, its result, the invitation and the
assignment in one transaction and calls the scoring functions on what it read
before. Admin pages call `invitation.service` and `assignment.service` on the
same rows. `startPublicAttempt` chains the identity, the assignment, the
invitation and finally `startOrResumeAttempt`, with a transaction only around
single links of the chain. The assignment page offers an admin the same generate, regenerate and
revoke for a self-service assignment as for any other. Archiving a test is seen by everyone through the
status that is loaded with the token. In the browser, a tab's Server Actions
go out one after another (the Next.js router queues them), but tabs, and the two
cookies they share, are independent; an answer may be lost after the server has
done its work.

`PROJECT.json` lists every component with its status, and every hazard (what
is hard to test) at its line with the properties that cover it.

## 2. Modules

| Module | Models | State of the work |
|---|---|---|
| `PlacementAttempt` | attempts, admin-side invitations, submission, over the rows | modelled, checked, proved |
| `PlacementPromise` | abstract: what the service promises about sittings of a test | modelled; `PlacementAttempt` proved to implement it |
| `PlacementAttempt_proofs` | the proofs about `PlacementAttempt` | complete |
| `SelfServe` | `startPublicAttempt`, composed with `PlacementPromise` for the sitting itself | modelled, checked, proved |
| `SelfServe_proofs` | the proofs about `SelfServe` | complete |
| `VerificationCodes` | one-time codes and the rate limiter | modelled, checked, proved |
| `Accounts` | admin accounts, sessions, the guards of pages and Server Actions | modelled, checked, proved |
| `SignIn_proofs` | the proofs about `VerificationCodes` and `Accounts` | complete |
| `TryFlow` | `/try` in several tabs of one browser, cookies and Server Actions | modelled, checked, proved |
| `TryFlow_proofs` | the proofs about `TryFlow` | complete |
| `TestRunner` | `/placement/[token]` in several tabs, its calls and the server's side of them | modelled, checked, proved |
| `TestAuthoring` | tests, questions, options, the public test | modelled, checked, proved |
| `TestAuthoring_proofs` | the proofs about `TestAuthoring` | complete |
| `PlacementLevels` | the two tables a level is looked up in: bands, and the ranges of the source | operators |
| `Scoring` | everything computed from a set of answers, to the two reports | modelled, checked, proved |
| `Student_proofs` | the proofs about `Scoring` and `TestRunner` | complete |
| `PlacementBands` | bands under edits, submissions and the institutional set | modelled, checked, proved |
| `PlacementBands_proofs` | the proofs about `PlacementBands` | complete |
| `TestImport` | validation of an import, the dialog, the confirmations | modelled, checked, proved |
| `TestImport_proofs` | the proofs about `TestImport` | complete |
| `MC*` | symmetry sets and small instances for TLC | |

`TryFlow`, `SelfServe`, `TestRunner` and `PlacementAttempt` are four resolutions of one
path: a visitor's browser, the chain of a start, a student's browser, and the rows. Each
takes as one step what another one splits into queries, but for the chain of a start, whose
overlaps matter to the browser as well: `TryFlow` has its queries too. `Scoring` and `PlacementBands` share
`PlacementLevels`, and so does `TestImport` for the levels of the shipped questions.

### PlacementAttempt

*State.* `assignment`, `invitation` and `attempt` are the three tables; the
answers and the result of an attempt are columns of it, since
`attempt_answers` is keyed by attempt and question and `placement_results` has a
unique `attemptId`. `invitationId` is unique in `placement_attempts`, so an
attempt is identified by its invitation. `testStatus` is the status of the test,
`now` the server's clock. `req[p]` is a server request: where it stands and what
it has read.

*Steps.* One step of a request is one query, or one `$transaction`: these are
the points where other requests get in. Two things are merged. A read whose only
effect is to reject the request changes no row and starts nothing, so arriving
and passing the first check is one step (`ValidateToken`, `CheckAssignment`,
`CheckRevocable`). And `validateTokenAndLoad` is one query with its includes.

| Action | Code |
|---|---|
| `ValidateToken` | `validateTokenAndLoad`, the first read of the five student operations |
| `NoAttemptYet`, `AttemptClosed`, `AttemptOpen` | what each operation does with the attempt it finds: `startOrResumeAttempt`, `resumeExisting`, `getPlacementStatus`, `getAttemptQuestions`, `submitAnswer`, `submitAttempt`, `autoFinalizeIfExpired` |
| `CreateAttempt`, `CreateConflict` | `createNewAttempt`'s transaction, and P2002 with the resumption of the winner's attempt |
| `SaveAnswer` | the upsert that ends `submitAnswerByAttemptId` |
| `FinalizeRead`, `ReadAnswers`, `ReadPriorCanonical`, `CommitFinalize` | `finalizeAttempt`: the second read, the two queries of its `Promise.all` in either order, the transaction with its guarded `updateMany` |
| `CheckAssignment`, `FindActive`, `GenerateInvitation`, `RegenerateInvitation` | `generateInvitation`, `regenerateInvitation`: two reads, then the insert or the transaction |
| `CheckRevocable`, `RevokeInvitation` | `revokeInvitation`: read ACTIVE, update by id |
| `ArchiveTest`, `Tick`, `RequestDies`, `NoIdLeft` | `archivePlacementTest`; time; a crash, timeout or lost connection between two queries; the bound on ids |

*Data.* An answer is an option or `Unanswered`; what a score is belongs to
scoring, so a result remembers the answers it scored. That is exactly what
`ResultReflectsAnswers` needs. `Mortal` are the requests that may die between two queries: all of
them, but in the run that asks what one undisturbed request achieves.

### PlacementPromise

Sittings are begun for an assignment, closed once with one outcome, and the
first to close is official. `stage` is the status an admin sees. There are no
links, requests, queries or transactions. `PlacementAttempt!KeepsPromise` maps it:
a sitting is an invitation with an attempt, its outcome is the result, `stage`
is the stored status column.

The promise is deliberately weak in one place: a later sitting may *also* be
official. The code does not prevent it (section 4, `twoOfficial`).

### SelfServe

One e-mail address, its overlapping starts, and admins. One step is one query of the
chain: the public test and the identity; the transaction that creates candidate
and identity; the count of completed assignments; the insert of the assignment
or its P2002; the recovery path (`findActiveSelfServiceAssignment`,
`regenerateSelfServiceInvitation`); the insert of the invitation; the
validation of the token; the creation of the attempt; the response that delivers
the token. Beginning and closing the sitting are
`PlacementPromise!BeginSitting` and `CloseSitting`: the abstract actions that
`PlacementAttempt` is proved to implement, so `finalizeAttempt` is not modelled
again query by query. `handed` remembers which links reached a browser.

The admin's half is `CheckAssignment`, `CheckVacant`, `CheckRevocable`, `RevokeInvitation` and
`RevealToken` (the token is shown to the admin, once); inserting or replacing a link is the same
transaction as the visitor's, so `CreateInvitation`, `FindInvitation` and `RegenerateInvitation`
serve both. `OpenLink` is somebody who opens a link an admin passed on. `issued` remembers the links shown to an
admin, `withdrawn` the assignments whose live link an admin revoked.

The 15-second timeout after which `/try` enables its button again
(`try-ready-step.tsx:43`) is why starts of one address overlap without anyone
misbehaving.

### TestAuthoring

Overlapping requests of super admins on `placement_tests`, `questions` and
`options`, and the students who start and answer. An operation is a step that reads
and checks (`CheckTest`, `CheckQuestion`, `CheckArchivable`, `CheckPublished`,
`SubmitForm`) and, later, a step that writes; `req[p].at` names the next query.
The statements of a transaction see different snapshots, since Postgres runs it READ
COMMITTED, so two transactions take two steps: `updateQuestion` (`DeleteOptions` remembers the rows
that `deleteMany` saw, `CreateOptions` inserts and commits), `setPublicSelfServiceTest`
(`UnmarkOthers`, `MarkPublic`). `reorderQuestions` lists the ids in a query of its own
(`ListQuestions`); its two passes are one commit (`Reorder`), since two of them that
overlap meet on the rows' locks. The unique indexes and the foreign keys are
operators of their own (`OrderFree`, `OptionOrdersFree`, `PublicAllowed`,
`ReorderAllowed`) or guards (`q \notin answered`), checked against what is committed
when the writer commits. A rejection, a failed index and a crash are all `GiveUp`:
the request ends and its transaction leaves nothing.

The inputs are those the pages send. The form numbers the options 1..n and a new
question as the number of questions its page showed plus one (`OpenForm` reads it,
and another admin may act before it is sent); an import numbers its questions 1..n,
as its validation demands. Any renumbering of the listed questions may be asked for.

`late` is a history variable: writes by operations that only a DRAFT allows, on a
test that had left it.

### VerificationCodes

One address. `Call`, `CountEvents`, `CleanUp` are `recordAndEnforce`: the clock is read and
the event inserted, then counted, then older events deleted. `CheckCooldown`,
`CreateCode`, `SendCode` are the rest of `requestVerificationCode`, `LoadCode` with
`RecordMiss` or `ConsumeCode` the rest of `verifyCode`. There is no transaction
anywhere, so each is a step. The row stays when the delivery fails (`SendCode`). A typed code is
right only if it was delivered; its digits and hash are not modelled. `admitted` and
`granted` are history: what the limiter let through, and sessions opened by each code.

### TryFlow

`jar` holds the two cookies, `tab` what each tab shows, `calls` its queue of Server
Actions. A request carries the cookies of the moment it is sent (`Send`), and its answer sets
cookies when it arrives (`Verified`, `Switched`, `Started`): another tab acts between the two.
`ReadEligibility`, `CountCompleted`, `FindActive`, `Decide` are `getEligibility` with its two
concurrent queries. `StartPublicAttempt` (the three reads it begins with, which only ever find a
reason to refuse), `CreateAssignment`, `CreateInvitation`, `RecoverAssignment`, `FindInvitation`,
`RegenerateInvitation`, `ValidateLink` and `CreateAttempt` are one start, over `assignment` and `link`, the
latter with the attempt its `invitationId` is unique for. Two tabs run it at once, and one tab's second click
waits behind the first. The visitor's buttons are disabled while their call is under way, but those that
start or resume, which are enabled again after 15 seconds (`PressStart`, `PressResume`).

What happens outside the tabs is counted by `outside`: `LoseAnswer` loses an answer with its cookies,
`SessionExpires`, and the writes of other browsers and of admins to the same rows (`ReserveElsewhere`,
`IssueElsewhere`, `RegenerateElsewhere`, `BeginElsewhere`, `FinishElsewhere`, `RevokeElsewhere`). Those are
held only by what the database checks when they commit: whatever their request had checked before may have
changed. `dropped` remembers the tokens a browser lost for one of the known reasons.

### TestRunner

`tab` is the state of `PlacementFlow` and `PlacementTestShell` in each tab; `calls` the
queue of its Server Actions. A call is validated against the link (`Validate`), then served: one
step where it only reads or writes one row, two where it closes the attempt (`Grade`
reads the answers, `CloseAttempt` is the guarded transaction). `SelectOption` shows a choice at
once and queues its save; `Saved` reverts a refused one and `Recover` is
`handleAlreadyFinalized`. `TimerExpires` may come before or after the server's deadline, since the
two clocks differ. A reload is a new tab. `sure[t]` is history: the questions whose
stored answer nothing but the saves of this tab has written, none of which failed.

### Scoring, PlacementLevels

One attempt's answers are set and cleared in any order and submitted, which stores the scoring (`result`), and an
admin may override the level. A save may still be written after that (`SubmitAnswer` checks nothing, as the
upsert does not; `lateSaves` are the questions it changed). The reports (`StudentReport`, `AdminReport`) put the stored
score beside what they derive from the answers as they are now, as the code does. Each function of `domain/scoring`, `domain/placement` and `domain/results` is an
operator on a set of answers: `ComputeScoring` (raw score, two lists of buckets, the band),
`ComputeAnswerBreakdown`, `ComputeCourseLevelPerformance`, `SummarizeCourseLevelStrengthWeakness`,
`BuildQuestionAnalysis`, the two reports, and what the pages show of them. A percentage is the fraction it is;
`RoundedUp` and `RoundedDown` list the scores of a test of at most 70 questions whose double
misses a whole percentage (11 of 20 is 55.00000000000001, so a band that ends at 55 does not
match it).

### Accounts

`rows` and `active` are the users table, `session[b]` the account that the cookie of a browser
names, `visit[b]` the page request under way in it with the cookie it was sent with. One step is
one query. `Proxy` looks an account up on the login page and nowhere else; `AdminDashboardLayout`
does so on every full load, but a transition between two admin pages renders only the page
(`AdminPage`), whose `getActorOrThrow` does. `ListAdmins` adds to `shown[b]`, the rows and buttons
the panel has ever shown there, since a tab may keep an old panel open: what is
pressed (`EditAdmin`, `ResetPassword`, `RemoveAdmin`, `ReactivateButton`, `AddAdmin`) is one of
those. A Server Action is `ResolveActor` (`getActorOrThrow` and `assertPermission`), for
a row `RequireEditableAdmin`, for a form `CheckInput`, then the write by id (`CreateAdmin` and the
others, each with `Commit`); `OtherWrite` stands for the write of any other action of the admin pages.
`Login`, `VerifyAdminCredentials`, `SignIn`, `SignOut` and `Expire` set the cookie. `Fail` ends an
invocation anywhere. An address is free or taken and a password right or wrong.

`hops` and `late` are histories: redirects since an account or the cookie last changed, and writes made for
an account since it was removed.

### PlacementBands

`band` and `level` are the two columns that meet; a request is create, update or delete (a
check, then a write by id), a submission (`ScoreAttempt` matches, `CommitResult` writes, the
foreign key refuses a deleted band) or an application of the institutional bands
(`ReadTestForBands`, one `CheckTest` and `InsertBand` for each band, `ListBands`, `ListResults`,
`BackfillResult` one by one, `FinishBackfill`). `GiveUp` ends a request anywhere. The
form sends both bounds of the selected metric and leaves the other pair (`Written`). The
histories `tuned`, `edited` and `seen` say when a property may expect what: `seen` holds the results listed by
applications that ran to their end and were `Whole`, that is, created every band themselves or found them all.

### TestImport

The validation of `domain/import` is three operators on a draft, the shipped dataset
a constant with its real key and orders. A band's bounds are counted in hundredths of a percent (`HundredPercent`), since
a file may give 49.99. The dialog's buttons (`SelectSource`, `HandleFileChange`,
`HandlePreview`, `Back`, `HandleConfirm`, `Close`, `Reload`) interleave with replies on their way
(`ShowPreview` shows one whatever the dialog has been turned to). `CheckImport` validates again and
looks the title up; `PersistImportedTest` is the transaction. `RenameTest` is the Edit dialog of a test's own
page, which gives a draft another title, the dataset's or not; `known` follows whether a test of the dataset's title has
been there ever since a confirmation was sent.

## 3. Runs

Each run asks one question. *States* are distinct states.

| Run | Instance | Shows |
|---|---|---|
| `race` | 2 requests, 1 assignment, 2 links, deadline 1, clock to 2 | the safety properties of `PlacementAttempt` that survive overlap, and the refinement of the promise, with every action enabled and requests dying anywhere |
| `serial` | 1 request, 3 links | three properties that overlap breaks hold as long as requests do not overlap |
| `live` | 2 requests, one of which may die anywhere, 1 link, no option, clock to 1, server fair | requests end; one surviving request that reaches an overdue attempt is enough to close it |
| `twoOfficial` | as `race`, clock to 1 | **violated**: two attempts of one assignment are both official |
| `selfServe` | 2 requests, 2 candidate ids, 3 assignments, 3 links, quota 1, 1 death, 2 requests of admins | the safety properties of `SelfServe` |
| `authoring` | 2 admins, 2 tests, 2 questions of 2 options, 3 sets of options ever written | the safety properties of `TestAuthoring` |
| `results` | 7 questions: three in each of two levels, one past the last range, labels missing; 4 bands of both metrics; 2 labels an admin tries, one of them standard; 1 late save | the separate computations agree, and reports contradict themselves by no more than late saves; strengths rest on evidence; only correct answers move the level |
| `bands` | 2 requests, 3 band ids, 2 results, 2 institutional bands, 2 form inputs | bands can be matched, stored levels are justified, an application that saw all bands leaves nobody unplaced |
| `import` | 1 dialog, 2 requests, 2 files (one sound, one with a gap), 2 titles, up to 3 tests | only sound tests; the dataset is not imported again by who could know it is there, unless it was renamed |
| `access` | codes: 2 requests, 3 codes, limits 2 and 3, window 1, cooldown 1, lifetime 2, 1 try, clock to 2, 5 calls; accounts: 2 accounts, 1 browser, 2 overlapping Server Actions | by how much overlapping requests exceed each limit of the visitor's codes; that an admin's redirects end and how little a removed account can still change |
| `try` | 2 tabs, 2 addresses, 2 assignments, 2 links, quota 2, 1 call per tab, 1 write from outside | the cookies lead to one's own attempt, and to it unless something was lost or a late answer overtaken |
| `runner` | 2 tabs, 1 question with 1 option, 2 saves waiting, 1 fault, fair | what is graded is what is shown; the error page needs a reason; a test left alone ends |

*Bounds.* Every property of the core relates one assignment to its attempts, or
one attempt to the requests on it, so one assignment is enough; two links are
what it takes for two attempts of one assignment; two requests for every race
between two check-then-acts, and the third actor (the clock, the archiving
admin, a crash) is an action of its own. `Duration = 1` and `MaxTime = 2` give an
instant before the deadline, the deadline itself and one after it. One question
with one option has two answers (chosen, unanswered), enough to tell a stored
answer from a scored one. In `live` there is no option, so a save only clears an answer: what an
answer holds decides neither whether a request ends nor whether an attempt closes. In `selfServe`, quota 1 reaches the limit and the overrun with
three assignments; three links are one for each of two assignments and a regenerated one, and two requests of
admins a revocation and the link that follows it, or two that race. One death orphans an assignment. `NoIdLeft` is the only action of the core that exists because of a bound.
In `authoring`, two tests are what the public flag is about, two questions what a
reordering is about; three sets of options let two questions exist and one be edited, or
one be edited twice at once. A test has one duration there (an edit of it only counts
as a late write).

In `access`, five calls fill either limit with an overlapping pair and go past it, the clock
has room for a window that slides and a code that expires, and three codes for a cooldown that
passes twice; one try makes the limit of tries reachable within the calls (the proofs do not depend on it). `VerificationCodes` and `Accounts` share no row
and no code, so a behaviour of the run takes the steps of one of them (`entrance`). One browser is
enough for the accounts: its tabs share the cookie, the two accounts sign in one after the other, and a
request or an invocation keeps the account it was sent for. Two invocations are a removal and a change beside it.
The bounds are reached: two redirects, and one late change.
In `bands`, one result scores in the lower band, the other one (11 of 20) in the upper and on a
percentage that rounds up; one form input switches the metric and the other has its bounds swapped; three
ids allow a deletion in the middle of an application. In `import`, one dialog is enough because after
a reload the confirmations under way are nobody's; the assumptions `ValidationIsExact` and
`LanguageHubIsSound` of the MC module compare the validation with its reference definition on
all drafts of up to two questions or two bands, and run it on the whole dataset. In `results`, three
questions are what evidence takes, and one late save makes the two halves of a report differ (the proof has no
bound). In `try`, two addresses and two tabs are what the cookies can
confuse; two links are an assignment's and the one that replaces it, or one for each address; two assignments
reach the quota for one address. One call per tab and one write from outside keep the run within minutes: the
traces that strand an attempt take two tabs with one start each, and nothing from outside. `TryFlow_proofs` has
none of these bounds. In `runner`, two saves
waiting put a submission behind one; two options of one question behave as the option and `null`
do here. Rare disturbances (lost or failed calls, an expired session, a withdrawn test) are counted
by one variable with a bound, `MaxFaults`: a second one finds nothing the first has not.

`Requests`, links, tabs, ids and candidates are symmetric (`MC*` modules); the runs with
liveness or constants that differ use no symmetry on them.

*Deadlock* is checked in `try` and `results`. In the other models a finite set of ids and a
bounded clock let the model stop where the program would not; in `runner` the result page is
really the end.

*Fairness* (`FairSpec`). Weak fairness of `Progress(p)`: the server takes the next step of a
request it has accepted; one whose process died is idle and needs none. Nothing else: a page's timer submits once
(`placement-timer.tsx`), any further try takes a click or a reload, and nothing makes a student come back, so no
submission is assumed fair. An attempt nobody returns to therefore stays IN_PROGRESS, as
`src/docs/ARCHITECTURE.md` says. `OverdueIsClosed` is about a visit: a request that is not `Mortal` and has reached an
attempt past its deadline closes it or finds it closed, whatever it came for and whatever the other request, which may
die between any two queries, does in between. It does not hold without fairness.

In `TestRunner`, for one tab: weak fairness of the server together with the page (an accepted
call is served, an answer is handled; the two are never enabled at once for the head of the
queue), and weak fairness of `TimerExpires` (a browser's clock runs while the tab is open, and the
timer submits on its own). Nothing is assumed of the other tabs or of the student. `TestEnds` gives
up only when a call is lost or fails: the page catches no rejected promise, and the timer rings once.

## 4. What the checks found

**`twoOfficial`** is a run of its own. `finalizeAttempt` looks for an earlier canonical attempt before
it opens its transaction, where the documentation places it inside. Two attempts finalized at
once are both canonical. `PROJECT.json` quotes the lines. How bad it gets is proved: never more official
attempts than requests (`OfficialsAreBounded`), and one as long as requests do not overlap (`SerialOfficial`).

The following were met on the way. The models reach each of them; they have no run of
their own, because a property above says what does hold instead, or because nothing in the documentation
contradicts them.

In the services:

* `submitAnswerByAttemptId` checks IN_PROGRESS and upserts later. A submission between the two
  closes the attempt with a score that does not count the answer stored in it
  (`ResultReflectsAnswers` holds in `serial` only). The comment on
  `buildStudentResultSummaryFromCompletedAttempt` (`attempt.service.ts:572`) calls the answers of a closed attempt
  immutable; after such a save its report shows the stored score beside a review that counts otherwise. `ReportsAgree`
  gives what holds: they differ by at most one for each question saved late. Questions edited late would show there as well; those
  writes are `LateWritesAreBounded`'s.
* `regenerateInvitation` refuses only COMPLETED assignments: it can replace the link of an attempt in
  progress, and the new link starts a second one.
* A revocation or a regeneration that read the link before a submission committed leaves a completed
  assignment with a revoked or a live link (`ClosedMeansUsed`, `CompletedHasNoLiveLink` hold in `serial` only).
* Completed assignments are counted before the new one is inserted: a third free attempt.
  `OverrunIsBounded` gives what does hold, fewer than the quota plus the overlapping requests.
* The recovery path of a lost race wants an ACTIVE invitation, which the winner may not have
  inserted yet, or, if it died in between, never will. That start is told its link does not exist.
* An admin may revoke or regenerate the link of a self-service assignment: the services never look at its origin, and its
  page offers both. A revocation leaves the address with an active assignment without a live link, which no start
  recovers: `/try` refuses it until an admin generates a link and passes it on (`OrphansHaveACause` counts
  this among the causes). Regenerating one whose attempt is under way strands that attempt; the
  new link, which only the admin sees, begins another (`NobodyIsLockedOut` says that such a link is there).
* Two overlapping starts of one address, in two tabs, strand an attempt though nothing is lost. The first has
  validated its link when the second, which found the assignment still PENDING, regenerates it; both
  then create an attempt, one on the revoked link and one on the live one. If the answer with the revoked token arrives last, the cookie
  holds that one, and `/try` sends the visitor away from the open attempt as one of another browser. The comments rely on the opposite:
  `self-serve.service.ts:305` on the winning response's cookie, `invitation.service.ts:112` on there being no attempt yet.
  `OnlyALossStrands` names the late answer as a cause; without this excuse TLC finds the trace above.
* Every edit of a test or a question checks DRAFT in one query and writes by id in another: one that
  straddles the publication changes a test students may be taking. `LateWritesAreBounded` gives what
  holds, fewer such writes than overlapping requests. A publication that straddles an archival
  is one of them, and makes an archived test published again.
* Needs nobody else: delete the first of two questions, and the form's number for the next one is taken.
  Adding fails with a server error until the rest is reordered.
* A code is "single-use" (`self-serve.service.ts:90`, `src/docs/PHASE_2J_TRY_YOURSELF.md:64`), but `verifyCode` looks for `consumedAt` in one
  query and sets it in another: overlapping verifications with the right code all succeed. `UseIsBounded` gives what holds, at most one session
  for each overlapping request.
* The rate limiter counts by a window it computed before its insert, and cleans up by it. A request that
  stalls counts after another one's clean-up has deleted events of its own window: the limit is
  exceeded by one for each overlapping request (`AdmissionsAreBounded`).
* Two imports of the Language Hub test that overlap both find no such title, and create it twice. `NoImportOfAKnownDataset`
  is about a confirmation sent when the test was already there.
* An institutional application that ends early leaves some of its bands, and the next one creates none because
  there are some. One that overlaps another finds the bands half created just as well, and can leave a result
  without a level although both ran to their end and nobody died. `AppliedMeansLevelled` is about applications
  that created the bands or found all of them.

* `verifyAdminCredentials` looks the address up as it was typed, while an account is stored under the normalised,
  lower-case one: an admin who types a capital letter is told that the password is wrong.
* Removing an admin does not stop what is under way. A Server Action past `getActorOrThrow` still writes,
  though the dialog says open sessions stop working at once. `LateChangesAreBounded` gives what holds: fewer such
  writes than overlapping invocations. The comments on `deactivateAdmin` and `isUserSessionActive` say that
  the `jwt` callback of `auth.ts` makes the check; it is `actor.ts`, the layout and the proxy that
  do. And `actor.ts` and `auth.ts` say that the proxy never looks at `isActive`, which it must on the login page, or
  the layout and the proxy would send a removed admin to and fro for ever (`RedirectsEnd`).

In the browser:

* A page opened or reloaded at the deadline, while another call closes the attempt, is answered as a second
  submission and shows the error page; the comment in `app/placement/[token]/page.tsx` says that a
  mid-test refresh just works. The next reload does show the result. `NoDeadEnd` excuses this one refusal.
* No handler catches a rejected call. A lost answer to a submission leaves `submitting` set, and one
  to a confirmation of an import leaves `confirming` set, until the page is reloaded.
* Two saves of one question that are both refused restore, in the end, what was shown before the
  second, not what is stored.
* `getEligibility` counts and looks for an active attempt concurrently: with a submission
  between the two, `/try` shows a first start although an attempt is completed, or attempt 3 of 2.
* A dialog shows the preview of one file and imports the one selected now. The server validates again, so what
  is imported is sound (`ImportedTestIsSound`), but it is not what was reviewed.

`authoring` also shows what the checks alone would not give. Two edits of one
question at once would leave it with both sets of options, and two correct ones: the
second `deleteMany` does not see what the first inserted. Only the unique index on the
options' order makes the second fail, and only because the form numbers options from 1.

What holds under every interleaving, and is proved, in the core: the guarded `updateMany`
makes closing happen once, with its result, and final; the status column never
diverges; the label tells the truth although the clock is read three times; there is
never more than one live link.

## 5. Proofs

`PlacementAttempt_proofs` proves, for every number of requests, assignments,
links, questions and options, every duration and every bound of the clock, from
`DurationAssumption` and `NoneAssumption` only:

| Theorem | Says |
|---|---|
| `Invariance` | `Spec => []IInv` |
| `TypeCorrect` | `Spec => []TypeOK` |
| `StatusIsDerived` | the status column equals what the attempts say |
| `ResultsAreComplete` | a result exactly for closed attempts; a completed assignment has an official one |
| `CompletedIsOfficial` | the second half of it by itself |
| `LinkIsUnique` | one live link per assignment |
| `LabelIsHonest` | AUTO_SUBMITTED iff the deadline had passed at `submittedAt` |
| `ClosingIsFinal` | a closed attempt's status, result, time and flag never change |
| `Refinement` | `PlacementAttempt` implements `PlacementPromise` |

*The inductive invariant.* The properties are not inductive by themselves: the
commit of a finalization writes values that the request read some steps before.
`IInv` adds what a request still knows of the rows after others have moved:

* `RowsLinked`: rows exist before anything points at them;
* `RequestLinked(p)`: the rows a request holds exist, for each place it can stand;
* `ReadsStillHold(p)`: what was read can go stale in one direction only. An
  attempt that was overdue stays overdue; the label chosen stays right for the
  instant it was chosen at; a canonical attempt that was seen stays canonical. The converse
  (none was seen, so there is none) is false, and is the `twoOfficial` finding.

*Argument.* `StepIsReadOrWrite` splits `Next` into steps that only read and those
that write rows, and `Effects` says what the writing ones do to the sets the
properties quantify over (`KeepsSets`, `OpensSets`, `ClosesSets`); each conjunct of
`IInv` then has one lemma (`TypeStep`, `RowsLinkedStep`, `LinkedStep`, `ReadsStep`,
`StatusStep`, `ResultStep`, `CanonicalStep`, `LabelStep`, `LinkStep`) and `NextIInv`
joins them. `Refinement` uses the invariant: `PromiseStep` shows that creating an
attempt is `BeginSitting`, a successful commit is `CloseSitting` (the result is
not `None`, and "prior exists" is still true), and everything else stutters.

`PlacementAttempt_proofs` also proves what overlap breaks and requests that follow one another
keep, for any number of assignments, links, questions and options. Each theorem has the hypothesis
`Serial`, that there is one request:

| Theorem | Says |
|---|---|
| `SerialResults` | a closed attempt's result is scored from the answers stored with it |
| `SerialLinks` | a closed attempt's link is USED |
| `SerialCompleted` | a completed assignment has no live link |
| `SerialOfficial` | an assignment has at most one official attempt |

*Argument.* With nobody in between, what the request has read is `StillTrue` when it writes;
steps that only read keep everything (`ReadMoves`), and each writing step has a lemma. `OneLiveLink`, from
`IInv`, makes the link that a commit uses up the only live one.

Two more theorems of the core are about requests that do overlap:

| Theorem | Says |
|---|---|
| `OfficialsAreBounded` | if there are finitely many requests, an assignment has at most as many official attempts |
| `RequestsWindDown` | `NoWayRound`: each step of a request leaves it fewer steps to go, and no other request's step adds any |

*Arguments.* `OInv` counts, besides the official attempts of an assignment, the requests that are about to add one:
`Unaware(a)` holds those that have looked for an earlier official attempt, found none, and hold one that is
still open. Once an official attempt is stored, no request becomes unaware any more (`NoneWasRead`), and a
commit that makes an attempt official takes its request out; so their sum stays within the
requests, and with one request it is one (`SerialOfficial`). `SerialOfficial` is the property that
`twoOfficial` shows violated, under the hypothesis that run does not meet. For `RequestsWindDown`,
`StepsLeft(p)` is at most 7. A request that loses the race to create goes back to reading the attempt, but
it finds it there now, so 6 becomes 5 and not 7; and since an attempt that was started stays so, no other
request can raise it. This is the half of `StudentRequestEnds` that is about the code: what fairness has to
add is that a request under way takes its next step.

`SelfServe_proofs` proves, for every quota, every finite set of overlapping
requests, of the visitor and of admins, and any number of candidates, assignments and links, from
`QuotaAssumption`, `RequestsAssumption` and `NoneIsNoRow`:

| Theorem | Says |
|---|---|
| `Invariance` | `Spec => []IInv` |
| `TypeCorrect` | `Spec => []TypeOK` |
| `CandidateIsOne` | overlapping first starts of one address leave one candidate |
| `ActiveIsOne` | one active self-service assignment per candidate |
| `OverrunBound` | completed tests stay below the quota plus the number of overlapping requests |
| `OrphansNeedACause` | an active assignment without a live link is still being served, or a request died, or an admin revoked its link |
| `NobodyIsLockedOutEver` | once all requests are answered, an assignment under way whose link was not withdrawn has a live link, whose token a browser or an admin was given |

*The inductive invariant.* `RowsLinked` and `RequestLinked` as above;
`ActiveIsUnique` says "at most one" without counting, which is how the partial
unique index acts. `RoomOrBounded` carries the counting argument: while fewer
assignments than the quota are completed there is room; the submission that uses
the quota up closes the only active assignment, so just then there are exactly as many
assignments as the quota, and the request that makes it is not among those past
the count; from then on no request passes the count any more, and each of the
at most `|Requests| - 1` that had passed can turn into one assignment, so the sum of
assignments and requests past the count does not grow. `OrphansHaveACause` and
`LiveLinksArrive` (a live link was given to a browser or an admin, or is held by a request that will) are what
`NobodyIsLockedOut` needs. Admins' requests are requests like the others; what `AboutToInvite` counts on is only a visitor's,
since an admin who loses the race to insert a link gives up.

*Argument.* `StepKinds` splits `Next` again; the `*Effect` lemmas say row by row
what each writing step does, `StepGrows` what all of them keep; one `*Step` lemma
per conjunct, joined by `NextIInv`. The cardinality steps (`RoomStep`,
`BoundHolds`, `ActiveBound`) rest on the library's theorems on finite sets.

`SignIn_proofs` proves of `VerificationCodes`, for every limit, lifetime, cooldown and number of codes, and
every finite set of overlapping requests, from `TimesAssumption` and `RequestsAssumption`:

| Theorem | Says |
|---|---|
| `Invariance` | `Spec => []IInv` |
| `TypeCorrect` | `Spec => []TypeOK` |
| `TriesBound` | a code is tried, wrongly, at most as often as the limit plus the requests that overlap |
| `UseBound` | a code opens at most one session for each overlapping request |
| `CooldownBound` | a cooldown brings at most one code for each overlapping request |
| `AdmissionBound` | a window admits at most the limit plus the overlapping requests, less one |

*The inductive invariants.* A request that has loaded a code and not yet written
counts as a write that is still coming. `IInv` states the first two bounds with those
requests added (`HeldIsMade` and `GrantedIsUsed` say that such a code exists and that a
code which opened a session is consumed); a write then moves a request from one term of the sum to
the other, and a load passes its check only while there is room. `CInv` treats the cooldown the
same way: in a window that can still grow (`OpenWindows`), the codes made in it and the requests
past the cooldown check together are no more than the requests. The check of a
request passes only when no code of the window is there, which is where the room comes
from; that "the latest code is old enough" says it of all of them is `RestedMeansAll`, which takes the
latest of a finite set from the well-foundedness of its order.

`AInv` is about each bucket and each window of it. Either everything the window let through, and
every request of it that is about to count, is still in the table (`AllCounted`), or its events may have
been cleaned up (`Swept`): then the clock has left it, so nobody adds to it any more, and the request that
cleaned up is not among those about to count. `StartsPast` says that a request's window started
when the clock had not moved past it. The events of a window are summed by a fold over its
instants. What such a fold does when one of them changes is proved by induction over a set: the library's
induction theorem takes a predicate, which the provers cannot instantiate, so `SubsetInduction` states it as a fact about
a set of subsets, from the well-foundedness of inclusion.

Of `Accounts` it proves, for any number of accounts and browsers and every finite set of
overlapping invocations, from `UsersAssumption` and `InvocationsAssumption`:

| Theorem | Says |
|---|---|
| `AccountsInvariance` | `AccountsSpec => []AccountsInv` |
| `RedirectsAreFew` | unless an account or the cookie changes, no navigation is redirected more than twice |
| `LateChanges` | a removed account's late changes stay below the number of overlapping invocations |

*The inductive invariant.* `VisitsAreTame`: a request that was redirected carries the cookie as it is now, and
after a second redirect it asks for the page that this account may see. `CallsAreChecked`: an
invocation past the check of its actor has one, with the permission. `LateBound` counts the late changes of a
removed account together with the invocations that act for it past the check: fewer than there are
invocations, because the one that removed it acts for a super admin (`SuperAdminsStay`), and
none passes the check any more.

`TestImport_proofs` proves, for every number of dialogs, requests and files, from `NoneIsNoFile`,
`TitlesAssumption` and `ContentAssumption` (a file that parses holds lists of questions, options and bands, and flags; otherwise
its content is arbitrary):

| Theorem | Says |
|---|---|
| `Invariance` | `Spec => []IInv` |
| `TypeCorrect` | `Spec => []TypeOK` |
| `NotImportedAgain` | no confirmation sent when a test of the dataset's title was there adds it again while one is |
| `ImportsAreSound` | no test is created from a file that is not sound |
| `FilesAreJudgedExactly` | of the files that parse, the validation refuses those that are not sound and no others |

*The inductive invariant.* `KnownIsTaken`: what an admin could know when confirming stays true, since
tests are never deleted and a rename corrects what is known. `CheckedIsNew`: a request past the check is not one of those. `CheckedIsSound`: the
file of a request past the check is sound and has a title. `Evolves` is what every step but the check and a rename does to a
request (`*Step`, one lemma per action). `ValidIsSound` is about the operators alone: a draft the
validation finds nothing wrong with is sound. The validation counts (bad questions, correct options,
different texts and orders); that a count of 0, of 1 or of all says what `IsSound` says with quantifiers
rests on the library's theorems on cardinalities (`NoneSuch`, `JustOne`, `Distinct`). `SoundIsValid` is the
converse, from `AllDistinct` (what differs is as many as its places) and `OrdersComplete` (n different orders in
1..n leave none out); it needs what the schema checks, which `ParsesAsDraft` says: orders are integers from 1 for
questions and from 0 for bands.

`TestAuthoring_proofs` proves, for every finite set of admins and questions and any number of tests,
students and edits, from `OptionAssumption`, `AdminsAssumption`, `EditsAssumption`, `QuestionsAssumption`
and `NoneIsNoId`:

| Theorem | Says |
|---|---|
| `Invariance` | `Spec => []IInv` |
| `TypeCorrect` | `Spec => []TypeOK` |
| `CorrectIsOne` | every question has exactly one correct option |
| `PlacesDiffer` | two questions of a test differ in their order |
| `AnswersHold` | an answered question is never deleted, however late a deletion that found a DRAFT runs |
| `LateBound` | late writes stay below the number of overlapping requests |
| `DraftsRest` | a test in DRAFT has never been attempted |

*The inductive invariant.* `TestRows`, `QuestionRows`, `QuestionsLinked` and `StudentRows` say what the rows
are, `RequestRows` what a request still knows of them. `LateRows` counts, for each test that has left DRAFT,
its late writes *and* the requests that are past the check on it: together they stay below the number of admins, because
the publication is itself a request that is not among them; a late write moves a request from one term to the
other, and no request passes the check any more. `OptionsReplaced` shows what the unique index on a
question's options does for two edits at once: if the second one commits, only its set is left.

`PlacementBands_proofs` proves, for any number of requests, band ids and results and every list of
institutional bands, from `NoneIsNoRow`, `ScoresAssumption`, `NoneIsNoNumber`, `NoneIsNoBand`,
`FormAssumption` (what the form lets through) and `InstitutionalAssumption` (ranges of raw scores, in order and
disjoint):

| Theorem | Says |
|---|---|
| `Invariance` | `Spec => []IInv` |
| `TypeCorrect` | `Spec => []TypeOK` |
| `BandsMatch` | every band has the bounds of its metric, in order |
| `LevelsJustified` | a stored level is an existing band that covers the score, unless that band was edited |
| `AppliedLevels` | an application that created the bands, or found all of them, leaves no result it listed unplaced until an admin tunes the bands |

*The inductive invariants.* An id is never used again and a band that nobody edited keeps its row (`Stable`), so what a
request matched or listed some steps ago is still so when it writes (`Sound`). `LeastOrder` and
`MatchCovers` are about the match itself. For `AppliedLevels`, `TInv` says what is so while nobody has
tuned: every band is an institutional row; an application has created what it has come past (`CreatedSoFar`);
one that created or found them all has listed them all and placed what it has passed (`PlacedSoFar`).
Bands are then only added and results only placed (`Grows`), which is why it stays so whoever else runs.

`TryFlow_proofs` proves, for any number of tabs, addresses, assignments and links, every quota, every length of a tab's queue
and any number of writes from outside, from `TryAssumption`:

| Theorem | Says |
|---|---|
| `Invariance` | `Spec => []IInv` |
| `TypeCorrect` | `Spec => []TypeOK` |
| `AnswersStayOwn` | no request that carries the session of one address is answered with an attempt of another |
| `OnlyLossesStrand` | an open attempt that was started here and that neither the cookie nor a tab nor an answer on its way leads to was lost for one of the four causes |

*The inductive invariant.* Only the front of a tab's queue has reached the server (`Waiting`), so one call of each
tab carries anything, and `Sound` says what it may at each query of a start. A token is `Held` by the start that made it until the
browser has the answer, `Known` in cookies, tabs and other calls afterwards, and never both (`Tokens`). `RowsLinked`, `OneActive` and
`OneLive` are the foreign keys and the two partial unique indexes: of one address, at most one link leads to an attempt under way.
`InReach` is `OnlyALossStrands` with the answer on its way counted as a way to it.

*Argument.* `Grow` is what every write to the rows keeps, whoever makes it: rows are not taken away, a link keeps its assignment, no
attempt opens but one whose link nobody has yet. `Step` shows that `IInv` survives a `Grow`
in which calls, cookies and tabs keep their tokens, `Turn` that it survives any move of one tab's front call; each
action is one or the other (`*Step`). `StartedStep` is the one that matters: the token a new one
replaces is of another address, or not under way, or the new one is not (`OneUnderWay`), and then `Lose` has it.

`Student_proofs` proves of `Scoring`, for every list of questions, every set of answers and every set of bands, from
`NoneIsNoOption`, `NoneIsNoLevel`, `QuestionsAreListed`, `BandsAreRows` and `OrdersDiffer` (the questions
are read in the order of their `order`, which is unique):

| Theorem | Says |
|---|---|
| `EvidencedStrength` | a level named as the strongest or the weakest has the evidence for it, and no level with evidence is stronger, or weaker |
| `LevelsNeverFall` | more correct answers never give a lower level, if the bands rise with the score |
| `ReportsAlwaysAgree` | of the two reports, the stored score and its buckets are one count, the levels, the progression and the questions shown another one, and the two counts differ by at most the late saves |

*Argument.* `ResultInv` says that what is stored was scored from answers that differ from those of now only in the late saves;
`ScoresAreNear` turns this into a bound on the two counts. The rest is about the operators. `SortHasEnds` says that the sort by accuracy has a first and a last
entry, where levels of equal accuracy are told apart by their place. For the sums, `FoldOfPositions` turns a fold over a
sequence into one over its positions, `SumPrefixes` and `SumOfParts` say that counts over disjoint parts add up
to the count of the whole, `OccurrencesAreDistinct` that every question falls into one bucket, and `RangesAreDisjoint`
that it falls into at most one level; `SubsetInduction` and `FirstElement` carry the induction.

Of `TestRunner` it proves, for any number of tabs, questions and options and any bound on waiting saves and
on faults, from `RunnerAssumption` (a save fits in the queue, and `NONE` is neither an option nor a question):

| Theorem | Says |
|---|---|
| `RunnerInvariance` | `Spec => []RunnerInv` |
| `RunnerTypes` | `Spec => []TypeOK` |
| `SubmissionsAsShown` | a submission grades the answers its page shows, but for those another tab saved too or a save of which failed |
| `NoDeadEnds` | the error page has one of the four reasons `NoDeadEnd` lists |
| `ScreensFollowTheServer` | a tab shows the test only of an attempt that was begun, the result only of one that is closed, and goes on to the instructions only with a complete profile |

*The inductive invariant.* `Waits`: the server has seen the front of a tab's queue only. `IsTrue` is what an answer
says of the attempt, the link and the test, each of which stays so once it is so (`Ages`). `CallsFit` is which
calls there can be at which point of the page's life, and `OverIsOver` that a submission left behind by a page
that has gone on finds the attempt closed or the link revoked. For `SubmittedAsShown`, `ShownIsComing` says of each
question in `sure[t]` that what is shown is what is stored, or that the last save of it in the queue carries it;
`LoadedIsStored` starts this off and `SubmitIsLast` ends it: no save stands behind a submission, so none is in the
queue when the submission is worked on. `SubmitIsLast` is why a page that a failed submission has unlocked, while
the timer's still waits, is excepted. For `NoDeadEnd`, `StatusHasReason` says that a result is asked for
only when there must be one, or after some trouble. The steps are sorted by what they do to the queue:
`QuietServer` and `FrontStep` change its front, `GoesOn` takes it, `AskStep` appends, and a tab that does
nothing is `RestingTab`. TLC checked `RunnerInv` on the instance of `runner` before it was proved.

`ScreensFollowTheServer` needs one more fact besides `RunnerInv` (`ScreenInv`): an answer that brings the
test or the wizard up was so when it was given, and is still so when the page takes it, since a profile stays
complete and an attempt stays begun (`NothingUndone`). For the result page it is `IsTrue` that says so:
no late, repeated or refused call is answered as completed before the attempt is.

*Model-checked only.* Liveness under fairness (`StudentRequestEnds`, `OverdueIsClosed`, `TestEnds`), which is out of
reach of the proof system, but for what `RequestsWindDown` contributes to the first; and that the shipped dataset
itself is sound, which takes evaluating it. The violation is a counterexample. The definitions of `OfficialBound`, `NoWayRound` and
`ScreensAreTrue` stand in the proof modules and have no run of their own; TLC agreed with them, and with their inductive
invariants, on instances of two requests or two tabs before they were proved. The type invariants of `PlacementAttempt`, `SelfServe`, `VerificationCodes`, `TestAuthoring`,
`TestImport`, `PlacementBands`, `TryFlow` and `TestRunner` are proved, that of `Accounts` as a part of
`AccountsInv`, and so have no run, and neither has `ClosedIsFinal`, which `ClosingIsFinal` proves.

## 6. Not modelled, and why

* Rejecting reads are merged with the step before them (section 2): they change nothing.
* `EXPIRED` (invitation) and `EXPIRED`, `CANCELLED` (assignment): no code writes them.
* Hashing of tokens and codes: a link is identified with its row, and a typed code is right or wrong.
* Export, the delivery of e-mail, the list of candidates, the pages that only render. Nothing
  modelled waits for them.
* Of accounts: addresses, passwords and names; roles do not change, since no code changes one; the
  session cookie that NextAuth renews on its own, which names the same account.
* `updateQuestion` without options (prompt or metadata only): the forms always send
  the options; the prompt is content no property tells from the options. `onDelete: SetNull` of an answer
  whose option is replaced: it takes an edit that `LateWritesAreBounded` counts.
* Percentages other than those of a test of at most 70 questions and whole bounds: `Scoring` lists
  the exceptions of the double arithmetic for these only.
* An `order` beyond 32 bits passes the validation of an import and fails in the database: the import is
  refused as a whole, which `RefuseRequest` is.
* In the browser: navigation and the mark for review, which no call carries; a save from a page whose
  link was used meanwhile, which shows an error until the submission; `clearCompletedAttemptCookieAction`,
  which nothing calls; the profile form of a tab whose cookie another tab has switched, which saves to
  that other address (names, not attempts).
* In `TestImport`: tests made by hand, whose titles count like those of imported ones; that a test which is published is no
  longer renamed (the model may rename any, which is more than the code does).
* That at most one test is public is the partial unique index itself (`PublicAllowed`): modelled, with no property of its own. A
  test archived between check and mark keeps the flag, and `getPublicSelfServiceTest` asks for PUBLISHED again.
* Wording, layout, logging, locale.
* Isolation anomalies below READ COMMITTED: Postgres has none.

## 7. Plan

In the order of importance; each module parameterised by constants with named
assumptions, one action per operation, no recursive operator where a proof is
meant.

1. `PlacementAttempt`, `PlacementPromise`; `SelfServe` on top of the promise. **Modelled, checked, proved.**
2. `VerificationCodes`, `TestImport`. **Modelled, checked, proved.**
3. `TestAuthoring`, `PlacementBands`, `TryFlow`. **Modelled, checked, proved.**
4. `Scoring`, `Accounts`. **Modelled, checked, proved.**
5. `TestRunner`. **Modelled, checked, proved.**
