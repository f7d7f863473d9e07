------------------------------- MODULE TryFlow -------------------------------
(***************************************************************************)
(* The public start page /try in one browser: the wizard of                *)
(* components/try in any number of tabs, the two cookies the tabs share    *)
(* (lib/self-serve-session.ts) and the Server Actions they call            *)
(* (self-serve-actions.ts), for several e-mail addresses.                  *)
(*                                                                         *)
(* A Server Action reads the cookies its request carries and changes them  *)
(* with its answer: between the two, another tab may change them as well.  *)
(* A start is a chain of queries, as in SelfServe: the starts of two tabs  *)
(* and of other browsers overlap, and revoke each other's links.  Codes    *)
(* are VerificationCodes'.                                                 *)
(***************************************************************************)
EXTENDS Integers, Sequences, FiniteSets

CONSTANTS
  Tabs,          \* tabs of the browser
  Emails,        \* addresses its users own
  Assignments,   \* ids of self-service assignments
  Links,         \* their invitations, each with its token and its attempt
  FreeAttempts,  \* the quota, 2 in the code
  MaxQueue,      \* bound of the calls one tab has waiting
  MaxOutside,    \* bound of what happens outside the tabs
  None

ASSUME TryAssumption ==
  /\ {FreeAttempts, MaxQueue} \subseteq Nat \ {0}
  /\ MaxOutside \in Nat
  /\ None \notin Emails \cup Assignments \cup Links

VARIABLES
  jar,         \* the cookies: the session's address, the active attempt
  tab,         \* tab[t]: what tab t shows
  calls,       \* calls[t]: its calls; the router sends one after another
  profile,     \* addresses whose candidate has a complete profile
  assignment,  \* assignment[s]: whose it is, and AssignmentStatus
  link,        \* link[i]: the invitation, and the attempt it was used for
  dropped,     \* links whose token the browser has lost for a known reason
  outside      \* writes of other browsers and of admins, answers lost and
               \* sessions expired so far

vars == <<jar, tab, calls, profile, assignment, link, dropped,
          outside>>

-----------------------------------------------------------------------------
Jar == [session : Emails \cup {None}, token : Links \cup {None}]

(* What a tab shows, by what it offers: "ready" to start, or to take the   *)
(* test again; "closed" nothing (under way elsewhere, the limit, no public *)
(* test, an error).                                                        *)
Views == {"loading", "email", "code", "profile", "ready", "resume", "closed",
          "runner"}

Tab == [view : Views, email : Emails \cup {None},
        token : Links \cup {None}, busy : BOOLEAN]

Ops == {"page", "status", "verify", "switch", "profile", "start",
        "resume"}

(* A start holds the assignment it has made or found, then the link it is  *)
(* to replace, then the token of the link it has made.                     *)
Starting == {"assign", "invite", "recover", "find", "regenerate", "validate",
             "create"}

Call == [op : Ops,
         stage : {"queued", "sent", "reading", "answered"} \cup Starting,
         cookies : Jar,             \* those the action reads
         over    : SUBSET BOOLEAN,  \* the quota is used up, once it is read
         active  : SUBSET BOOLEAN,  \* something is active, once it is read
         assignment : Assignments \cup {None},
         current : Links \cup {None},
         reply : Views \cup {"NONE", "OK", "REFUSED"},
         token : Links \cup {None}]

NoCookies == [session |-> None, token |-> None]

NewCall(op) ==
  [op |-> op, stage |-> "queued", cookies |-> NoCookies, over |-> {},
   active |-> {}, assignment |-> None, current |-> None, reply |-> "NONE",
   token |-> None]

Assignment == [email : Emails \cup {None},
               stage : {"ABSENT", "PENDING", "IN_PROGRESS", "COMPLETED"}]

Link == [assignment : Assignments \cup {None},
         status  : {"ABSENT", "ACTIVE", "USED", "REVOKED"},
         from    : Links \cup {None},            \* regeneratedFromId
         attempt : {"NO", "OPEN", "CLOSED"},
         here    : BOOLEAN]                      \* made for this browser

TypeOK ==
  /\ jar \in Jar
  /\ tab \in [Tabs -> Tab]
  /\ calls \in [Tabs -> Seq(Call)]
  /\ \A t \in Tabs : Len(calls[t]) <= MaxQueue
  /\ profile \subseteq Emails
  /\ assignment \in [Assignments -> Assignment]
  /\ link \in [Links -> Link]
  /\ dropped \subseteq Links /\ outside \in 0 .. MaxOutside

-----------------------------------------------------------------------------
(* The rows.                                                               *)
CompletedOf(e) == {s \in Assignments : assignment[s].email = e
                                        /\ assignment[s].stage = "COMPLETED"}
ActiveOf(e) == {s \in Assignments :
                  /\ assignment[s].email = e
                  /\ assignment[s].stage \in {"PENDING", "IN_PROGRESS"}}

LiveLinks(s) == {i \in Links : link[i].assignment = s
                                /\ link[i].status = "ACTIVE"}
EmailOf(i)   == assignment[link[i].assignment].email

(* An attempt its token leads to; and a browser that loses some tokens.    *)
UnderWay(i) ==
  /\ link[i].attempt = "OPEN" /\ link[i].status = "ACTIVE"
  /\ assignment[link[i].assignment].stage = "IN_PROGRESS"

Lose(tokens) == dropped' = dropped \cup {i \in tokens : UnderWay(i)}

(* tokenBelongsToIdentity: a token that still validates, of an assignment  *)
(* of this address.  (The variant asks only whether it validates.)         *)
TokenValidates(e, i) ==
  i # None /\ link[i].status = "ACTIVE"
TokenBelongsToIdentity(e, i) ==
  i # None /\ link[i].status = "ACTIVE" /\ EmailOf(i) = e

(* What an insert or an update leaves in the tables.                       *)
WithAssignment(s, e) ==
  [assignment EXCEPT ![s] = [email |-> e, stage |-> "PENDING"]]

NewLink(s, from, here) ==
  [assignment |-> s, status |-> "ACTIVE", from |-> from, attempt |-> "NO",
   here |-> here]

(* One ACTIVE invitation of an assignment, and regeneratedFromId is unique.*)
(* The transaction that replaces a link revokes it first.                  *)
RegenerationAllowed(current) ==
  /\ LiveLinks(link[current].assignment) \subseteq {current}
  /\ \A i \in Links : link[i].from # current

Regenerated(current, i, here) ==
  [link EXCEPT ![current].status = "REVOKED",
               ![i] = NewLink(link[current].assignment, current, here)]

Begin(i) ==
  /\ link' = [link EXCEPT ![i].attempt = "OPEN"]
  /\ assignment' = [assignment EXCEPT ![link[i].assignment].stage =
                      IF @ = "PENDING" THEN "IN_PROGRESS" ELSE @]

Finalize(i) ==
  /\ link' = [link EXCEPT ![i].attempt = "CLOSED", ![i].status = "USED"]
  /\ assignment' = [assignment EXCEPT ![link[i].assignment].stage = "COMPLETED"]

-----------------------------------------------------------------------------
(* A tab and its calls.                                                    *)

Head1(t)      == Head(calls[t])
At(t, stage)  == calls[t] # <<>> /\ Head1(t).stage = stage
Serving(t, op) == At(t, "sent") /\ Head1(t).op = op

(* The server's side of the call at the head of t's queue.                 *)
Becomes(t, c)      == calls' = [calls EXCEPT ![t][1] = c]
Replied(c, r, a) ==
  [NewCall(c.op) EXCEPT !.stage = "answered", !.reply = r, !.token = a,
     !.cookies.session = IF a = None THEN None ELSE c.cookies.session]
Reply(t, r)        == Becomes(t, Replied(Head1(t), r, None))
ReplyWith(t, r, a) == Becomes(t, Replied(Head1(t), r, a))

Request(t, op) ==
  /\ Len(calls[t]) < MaxQueue
  /\ calls' = [calls EXCEPT ![t] = Append(@, NewCall(op))]

(* The tab has the answer, and perhaps something else to ask.              *)
Receive(t)          == calls' = [calls EXCEPT ![t] = Tail(@)]
ReceiveThen(t, op)  == calls' = [calls EXCEPT ![t] = Append(Tail(@), NewCall(op))]

Free(t) == tab' = [tab EXCEPT ![t].busy = FALSE]

Loading == [view |-> "loading", email |-> None, token |-> None,
            busy |-> FALSE]

rows   == <<assignment, link>>
server == <<profile, rows>>
ghosts == <<dropped, outside>>

-----------------------------------------------------------------------------
(* What the visitor does.                                                  *)

(* Opening or reloading /try.                                              *)
LoadPage(t) ==
  /\ calls[t] = <<>>
  /\ Request(t, "page")
  /\ tab' = [tab EXCEPT ![t] = Loading]
  /\ UNCHANGED <<jar, server, ghosts>>

(* A button that is disabled from the click to the answer, even to one     *)
(* that never comes.                                                       *)
Press(t, view, op) ==
  /\ tab[t].view = view
  /\ ~ tab[t].busy
  /\ Request(t, op)
  /\ tab' = [tab EXCEPT ![t].busy = TRUE]

(* requestCodeAction: no cookie goes with it, and VerificationCodes has    *)
(* the rest.                                                               *)
SubmitEmail(t, e) ==
  /\ tab[t].view = "email" /\ calls[t] = <<>>
  /\ tab' = [tab EXCEPT ![t].view = "code", ![t].email = e]
  /\ UNCHANGED <<jar, calls, server, ghosts>>

SubmitCode(t) ==
  /\ Press(t, "code", "verify")
  /\ UNCHANGED <<jar, server, ghosts>>

SwitchEmail(t) ==
  /\ tab[t].view = "code" /\ calls[t] = <<>>
  /\ Request(t, "switch")
  /\ UNCHANGED <<jar, tab, server, ghosts>>

SubmitProfile(t) ==
  /\ Press(t, "profile", "profile")
  /\ UNCHANGED <<jar, server, ghosts>>

(* "Start assessment", "Take again", "Resume assessment": fifteen seconds  *)
(* after a click they are enabled again, whatever the call does, so that a *)
(* second one may wait behind it.                                          *)
PressStart(t) ==
  /\ tab[t].view = "ready"
  /\ Request(t, "start")
  /\ UNCHANGED <<jar, tab, server, ghosts>>

PressResume(t) ==
  /\ tab[t].view = "resume"
  /\ Request(t, "resume")
  /\ UNCHANGED <<jar, tab, server, ghosts>>

(* The shared test runner submits the attempt it was opened with; the      *)
(* checks and the transaction are PlacementAttempt's.                      *)
FinishAttempt(t, i) ==
  /\ tab[t].view = "runner" /\ tab[t].token = i
  /\ link[i].status = "ACTIVE" /\ link[i].attempt = "OPEN"
  /\ Finalize(i)
  /\ UNCHANGED <<jar, tab, calls, profile, ghosts>>

-----------------------------------------------------------------------------
(* What the server does.                                                   *)

Send(t) ==
  /\ At(t, "queued") /\ Head1(t).op \notin {"verify", "switch"}
  /\ Becomes(t, [Head1(t) EXCEPT !.stage = "sent",
                   !.cookies = IF Head1(t).op \in {"profile", "start"}
                               THEN [jar EXCEPT !.token = None] ELSE jar])
  /\ UNCHANGED <<jar, tab, server, ghosts>>

(* verifyCodeAction: see VerificationCodes.                                *)
VerifyCode(t) ==
  /\ At(t, "queued") /\ Head1(t).op = "verify"
  /\ \E r \in {"OK", "REFUSED"} : Reply(t, r)
  /\ UNCHANGED <<jar, tab, server, ghosts>>

SwitchToAnotherEmail(t) ==
  /\ At(t, "queued") /\ Head1(t).op = "switch"
  /\ Reply(t, "OK")
  /\ UNCHANGED <<jar, tab, server, ghosts>>

UpdateProfile(t) ==
  LET e == Head1(t).cookies.session
  IN  /\ Serving(t, "profile")
      /\ IF e = None
         THEN Reply(t, "REFUSED") /\ UNCHANGED profile
         ELSE Reply(t, "OK") /\ profile' = profile \cup {e}
      /\ UNCHANGED <<jar, tab, rows, ghosts>>

(* startPublicAttempt, one query a step.  The three reads it begins with   *)
(* are one: what they find only ever becomes a reason to refuse.           *)
UsedUp(e) == Cardinality(CompletedOf(e)) >= FreeAttempts

MayStart(e) == e # None /\ ~ UsedUp(e)

GoOn(t, stage) == Becomes(t, [Head1(t) EXCEPT !.stage = stage])

StartPublicAttempt(t) ==
  /\ Serving(t, "start")
  /\ IF MayStart(Head1(t).cookies.session)
     THEN GoOn(t, "assign") ELSE Reply(t, "REFUSED")
  /\ UNCHANGED <<jar, tab, server, ghosts>>

(* One active self-service assignment of a candidate, or P2002.            *)
CreateAssignment(t) ==
  LET e == Head1(t).cookies.session
  IN  /\ At(t, "assign")
      /\ \/ /\ ActiveOf(e) # {}
            /\ GoOn(t, "recover") /\ UNCHANGED assignment
         \/ \E s \in Assignments :
              /\ ActiveOf(e) = {}
              /\ assignment[s].stage = "ABSENT"
              /\ assignment' = WithAssignment(s, e)
              /\ Becomes(t, [Head1(t) EXCEPT !.stage = "invite",
                                             !.assignment = s])
      /\ UNCHANGED <<jar, tab, profile, link, ghosts>>

(* The call has made the link i.                                           *)
Holding(t, i) ==
  Becomes(t, [Head1(t) EXCEPT !.stage = "validate", !.assignment = None,
                              !.current = None, !.token = i])

CreateInvitation(t) ==
  LET s == Head1(t).assignment
  IN  /\ At(t, "invite")
      /\ \/ /\ LiveLinks(s) # {}
            /\ Becomes(t, [Head1(t) EXCEPT !.stage = "recover",
                                           !.assignment = None])
            /\ UNCHANGED link
         \/ \E i \in Links :
              /\ LiveLinks(s) = {}
              /\ link[i].status = "ABSENT"
              /\ link' = [link EXCEPT ![i] = NewLink(s, None, TRUE)]
              /\ Holding(t, i)
      /\ UNCHANGED <<jar, tab, profile, assignment, ghosts>>

(* After P2002: only an assignment without an attempt is gone on with.     *)
RecoverAssignment(t) ==
  LET active == ActiveOf(Head1(t).cookies.session)
  IN  /\ At(t, "recover")
      /\ \/ /\ \A s \in active : assignment[s].stage = "IN_PROGRESS"
            /\ Reply(t, "REFUSED")
         \/ \E s \in active :
              /\ assignment[s].stage = "PENDING"
              /\ Becomes(t, [Head1(t) EXCEPT !.stage = "find", !.assignment = s])
      /\ UNCHANGED <<jar, tab, server, ghosts>>

FindInvitation(t) ==
  LET live == LiveLinks(Head1(t).assignment)
  IN  /\ At(t, "find")
      /\ \/ live = {} /\ Reply(t, "REFUSED")
         \/ \E i \in live :
              Becomes(t, [Head1(t) EXCEPT !.stage = "regenerate",
                                          !.assignment = None, !.current = i])
      /\ UNCHANGED <<jar, tab, server, ghosts>>

RegenerateInvitation(t) ==
  LET current == Head1(t).current
  IN  /\ At(t, "regenerate")
      /\ \/ /\ ~ RegenerationAllowed(current)
            /\ Reply(t, "REFUSED") /\ UNCHANGED link
         \/ \E i \in Links :
              /\ RegenerationAllowed(current)
              /\ link[i].status = "ABSENT"
              /\ link' = Regenerated(current, i, TRUE)
              /\ Holding(t, i)
      /\ UNCHANGED <<jar, tab, profile, assignment, ghosts>>

(* startOrResumeAttempt: the link may have been revoked before this, and   *)
(* still after it.                                                         *)
ValidateLink(t) ==
  /\ At(t, "validate")
  /\ IF link[Head1(t).token].status = "ACTIVE"
     THEN GoOn(t, "create") ELSE Reply(t, "REFUSED")
  /\ UNCHANGED <<jar, tab, server, ghosts>>

CreateAttempt(t) ==
  LET i == Head1(t).token
  IN  /\ At(t, "create")
      /\ Begin(i)
      /\ ReplyWith(t, "OK", i)
      /\ UNCHANGED <<jar, tab, profile, ghosts>>

ResumeActiveAttempt(t) ==
  LET c == Head1(t).cookies
  IN  /\ Serving(t, "resume")
      /\ IF c.session # None /\ TokenBelongsToIdentity(c.session, c.token)
         THEN ReplyWith(t, "OK", c.token)
         ELSE Reply(t, "REFUSED")
      /\ UNCHANGED <<jar, tab, server, ghosts>>

(* getEligibility, for the page and for getPublicFlowStatusAction: the     *)
(* early answers, then two concurrent queries, then the decision.          *)
ReadEligibility(t) ==
  LET e == Head1(t).cookies.session
  IN  /\ Serving(t, "page") \/ Serving(t, "status")
      /\ \/ e = None /\ Reply(t, "email")
         \/ e # None /\ e \notin profile /\ Reply(t, "profile")
         \/ /\ e # None /\ e \in profile
            /\ Becomes(t, [Head1(t) EXCEPT !.stage = "reading"])
      /\ UNCHANGED <<jar, tab, server, ghosts>>

CountCompleted(t) ==
  LET c == Head1(t)
  IN  /\ At(t, "reading") /\ c.over = {}
      /\ Becomes(t, [c EXCEPT !.over = {UsedUp(c.cookies.session)}])
      /\ UNCHANGED <<jar, tab, server, ghosts>>

FindActive(t) ==
  LET c == Head1(t)
  IN  /\ At(t, "reading") /\ c.active = {}
      /\ Becomes(t, [c EXCEPT !.active = {ActiveOf(c.cookies.session) # {}}])
      /\ UNCHANGED <<jar, tab, server, ghosts>>

(* With an active attempt, the cookie decides between resuming it here and *)
(* sending the visitor elsewhere.  The page redirects at once.             *)
Decide(t) ==
  LET c == Head1(t)
      token == c.cookies.token
  IN  /\ At(t, "reading") /\ c.over # {} /\ c.active # {}
      /\ IF TRUE \in c.active
         THEN IF TokenBelongsToIdentity(c.cookies.session, token)
              THEN ReplyWith(t, IF c.op = "page" THEN "runner" ELSE "resume", token)
              ELSE Reply(t, "closed")
         ELSE Reply(t, IF TRUE \in c.over THEN "closed" ELSE "ready")
      /\ UNCHANGED <<jar, tab, server, ghosts>>

(* runAction turns anything that is thrown into an answer: a query that    *)
(* failed, and that there is no published public test (any more).          *)
FailCall(t) ==
  /\ At(t, "sent") \/ At(t, "reading") \/ \E stage \in Starting : At(t, stage)
  /\ Reply(t, IF Head1(t).op \in {"page", "status"} THEN "closed" ELSE "REFUSED")
  /\ UNCHANGED <<jar, tab, server, ghosts>>

-----------------------------------------------------------------------------
(* What the tab does with an answer, whose cookies the browser has set.    *)

Answered(t, op) == At(t, "answered") /\ Head1(t).op = op

(* createSelfServeSession: a new session leaves the other cookie alone.    *)
Verified(t) ==
  /\ Answered(t, "verify")
  /\ Free(t)
  /\ IF Head1(t).reply = "OK"
     THEN jar' = [jar EXCEPT !.session = tab[t].email] /\ ReceiveThen(t, "status")
     ELSE Receive(t) /\ UNCHANGED jar
  /\ UNCHANGED <<server, ghosts>>

Switched(t) ==
  /\ Answered(t, "switch")
  /\ IF Head1(t).reply = "OK"
     THEN jar' = NoCookies /\ Lose({jar.token} \ {None})
     ELSE UNCHANGED <<jar, dropped>>
  /\ ReceiveThen(t, "page")
  /\ tab' = [tab EXCEPT ![t] = Loading]
  /\ UNCHANGED <<server, outside>>

ProfileSaved(t) ==
  /\ Answered(t, "profile")
  /\ Free(t)
  /\ IF Head1(t).reply = "OK" THEN ReceiveThen(t, "status") ELSE Receive(t)
  /\ UNCHANGED <<jar, server, ghosts>>

(* derivePhase.                                                            *)
StatusShown(t) ==
  LET c == Head1(t)
  IN  /\ Answered(t, "status") \/ Answered(t, "page")
      /\ tab' = [tab EXCEPT ![t] =
                   [view |-> c.reply, busy |-> FALSE, email |-> None,
                    token |-> IF c.reply = "runner" THEN c.token ELSE None]]
      /\ Receive(t)
      /\ UNCHANGED <<jar, server, ghosts>>

(* setActiveAttemptTokenCookie comes with the token.  A token it replaces  *)
(* is of another address, or the answer is late: the start it answers was  *)
(* overtaken by the one that revoked its link.  (The variant is an action  *)
(* that forgets the cookie.)                                               *)
OpenRunner(t, a) ==
  tab' = [tab EXCEPT ![t] = [view |-> "runner", busy |-> FALSE,
                             token |-> a, email |-> None]]

StartedWithoutCookie(t) ==
  LET a == Head1(t).token
  IN  /\ Answered(t, "start")
      /\ IF a # None THEN OpenRunner(t, a) ELSE Free(t)
      /\ Receive(t)
      /\ UNCHANGED <<jar, server, ghosts>>

Started(t) ==
  LET a == Head1(t).token
      replaced == {jar.token} \ {None}
  IN  /\ Answered(t, "start")
      /\ IF a # None
         THEN /\ OpenRunner(t, a)
              /\ jar' = [jar EXCEPT !.token = a]
              /\ Lose({b \in replaced : EmailOf(b) # EmailOf(a)
                                         \/ ~ UnderWay(a)})
         ELSE Free(t) /\ UNCHANGED <<jar, dropped>>
      /\ Receive(t)
      /\ UNCHANGED <<server, outside>>

Resumed(t) ==
  LET a == Head1(t).token
  IN  /\ Answered(t, "resume")
      /\ IF a # None THEN OpenRunner(t, a) ELSE Free(t)
      /\ Receive(t)
      /\ UNCHANGED <<jar, server, ghosts>>

Outside == outside < MaxOutside /\ outside' = outside + 1

(* The connection breaks: the promise of the call rejects, and no handler  *)
(* catches it.  The server has done its work; its cookies are lost too.    *)
LoseAnswer(t) ==
  /\ At(t, "answered")
  /\ Outside
  /\ IF Head1(t).op = "start" THEN Lose({Head1(t).token} \ {None})
     ELSE UNCHANGED dropped
  /\ Receive(t)
  /\ UNCHANGED <<jar, tab, server>>

-----------------------------------------------------------------------------
(* The same addresses in other browsers, and administrators.  Any number   *)
(* of their requests overlap: what one checked before its write may have   *)
(* changed since, so that only the database guards these steps.            *)
Elsewhere == <<jar, tab, calls, profile, dropped>>

ReserveElsewhere(e, s) ==
  /\ Outside
  /\ ActiveOf(e) = {}
  /\ assignment[s].stage = "ABSENT"
  /\ assignment' = WithAssignment(s, e)
  /\ UNCHANGED <<Elsewhere, link>>

IssueElsewhere(s, i) ==
  /\ Outside
  /\ assignment[s].stage # "ABSENT" /\ LiveLinks(s) = {}
  /\ link[i].status = "ABSENT"
  /\ link' = [link EXCEPT ![i] = NewLink(s, None, FALSE)]
  /\ UNCHANGED <<Elsewhere, assignment>>

RegenerateElsewhere(current, i) ==
  /\ Outside
  /\ link[current].status # "ABSENT" /\ RegenerationAllowed(current)
  /\ link[i].status = "ABSENT"
  /\ link' = Regenerated(current, i, FALSE)
  /\ UNCHANGED <<Elsewhere, assignment>>

BeginElsewhere(i) ==
  /\ Outside
  /\ link[i].status # "ABSENT" /\ ~ link[i].here
  /\ link[i].attempt = "NO"
  /\ Begin(i)
  /\ UNCHANGED Elsewhere

FinishElsewhere(i) ==
  /\ Outside
  /\ link[i].attempt = "OPEN" /\ ~ link[i].here
  /\ Finalize(i)
  /\ UNCHANGED Elsewhere

RevokeElsewhere(i) ==
  /\ Outside
  /\ link[i].status = "ACTIVE"
  /\ link' = [link EXCEPT ![i].status = "REVOKED"]
  /\ UNCHANGED <<Elsewhere, assignment>>

(* decodeSessionToken refuses a session after thirty days.                 *)
SessionExpires ==
  /\ Outside
  /\ jar.session # None
  /\ jar' = [jar EXCEPT !.session = None]
  /\ UNCHANGED <<tab, calls, server, dropped>>

(* Another browser may have come as far as this before: nothing, an        *)
(* assignment without a link, one with it, an attempt.                     *)
InitRows ==
  LET NoAssignments == [s \in Assignments |-> [email |-> None, stage |-> "ABSENT"]]
      NoLinks == [i \in Links |-> [assignment |-> None, status |-> "ABSENT",
                     from |-> None, attempt |-> "NO", here |-> FALSE]]
      With(s, e, stage) ==
        [NoAssignments EXCEPT ![s] = [email |-> e, stage |-> stage]]
      Linked(i, s) == [NoLinks EXCEPT ![i] = NewLink(s, None, FALSE)]
  IN  \/ assignment = NoAssignments /\ link = NoLinks
      \/ \E s \in Assignments, e \in Emails :
           \/ /\ assignment = With(s, e, "PENDING")
              /\ link \in {NoLinks} \cup {Linked(i, s) : i \in Links}
           \/ /\ assignment = With(s, e, "IN_PROGRESS")
              /\ link \in {[Linked(i, s) EXCEPT ![i].attempt = "OPEN"] : i \in Links}

Init ==
  /\ jar = NoCookies
  /\ tab = [t \in Tabs |-> [Loading EXCEPT !.view = "email"]]
  /\ calls = [t \in Tabs |-> <<>>]
  /\ profile \in SUBSET Emails
  /\ InitRows
  /\ dropped = {} /\ outside = 0

Visitor(t) ==
  \/ LoadPage(t) \/ SubmitCode(t) \/ SwitchEmail(t) \/ SubmitProfile(t)
  \/ \E e \in Emails : SubmitEmail(t, e)
  \/ PressStart(t) \/ PressResume(t)
  \/ \E i \in Links : FinishAttempt(t, i)

Server(t) ==
  \/ VerifyCode(t) \/ SwitchToAnotherEmail(t) \/ UpdateProfile(t)
  \/ StartPublicAttempt(t) \/ CreateAssignment(t) \/ CreateInvitation(t)
  \/ RecoverAssignment(t) \/ FindInvitation(t) \/ RegenerateInvitation(t)
  \/ ValidateLink(t) \/ CreateAttempt(t) \/ ResumeActiveAttempt(t)
  \/ ReadEligibility(t) \/ CountCompleted(t) \/ FindActive(t) \/ Decide(t)
  \/ FailCall(t)

Browser(t) ==
  \/ Send(t) \/ Verified(t) \/ Switched(t) \/ ProfileSaved(t)
  \/ StatusShown(t) \/ Started(t) \/ Resumed(t) \/ LoseAnswer(t)

Next ==
  \/ \E t \in Tabs : Visitor(t) \/ Server(t) \/ Browser(t)
  \/ \E e \in Emails, s \in Assignments : ReserveElsewhere(e, s)
  \/ \E s \in Assignments, i \in Links : IssueElsewhere(s, i)
  \/ \E current, i \in Links : RegenerateElsewhere(current, i)
  \/ \E i \in Links : BeginElsewhere(i) \/ FinishElsewhere(i)
                        \/ RevokeElsewhere(i)
  \/ SessionExpires

Spec == Init /\ [][Next]_vars

-----------------------------------------------------------------------------
(* Properties.                                                             *)

Answering(t, a) ==
  \E n \in DOMAIN calls[t] : /\ calls[t][n].op = "start"
                             /\ calls[t][n].stage = "answered"
                             /\ calls[t][n].token = a

(* An attempt that was started in this browser and is still under way can  *)
(* be continued from it, however many starts of its address overlap here   *)
(* and elsewhere: its token is in the cookie, in the address of a tab, or  *)
(* in an answer on its way.  Only a lost answer, "Use another email", a    *)
(* start for another address, or the late answer of a start that another   *)
(* one overtook takes it out of the cookie (startPublicAttemptAction sets  *)
(* the cookie, and nothing else does).                                     *)
OnlyALossStrands ==
  \A i \in Links :
     link[i].here /\ UnderWay(i) =>
       \/ jar.token = i \/ i \in dropped
       \/ \E t \in Tabs : Answering(t, i)
                          \/ (tab[t].view = "runner" /\ tab[t].token = i)

(* A token an action or the page answers with is of an assignment of the   *)
(* address whose session the request carried, although the two cookies are *)
(* set by different calls, from different tabs, and outlive one another,   *)
(* and a start may have taken over what another browser left.              *)
AnswersAreOwn ==
  \A t \in Tabs : \A n \in DOMAIN calls[t] :
     LET c == calls[t][n]
     IN  c.stage = "answered" /\ c.token # None
           => EmailOf(c.token) = c.cookies.session
=============================================================================
