----------------------------- MODULE SelfServe -----------------------------
(***************************************************************************)
(* Starting a public placement test with a verified e-mail address         *)
(* (startPublicAttempt of self-serve.service.ts and what it calls), for    *)
(* one address and any number of overlapping requests: its owner's, and    *)
(* those of admins, whose assignment page generates, regenerates and       *)
(* revokes links without asking where the assignment came from.            *)
(*                                                                         *)
(* startPublicAttempt is a chain of separate queries: nothing but two      *)
(* partial unique indexes and one unique column ties them together, and a  *)
(* request may die between any two of them.  One step of a request is one  *)
(* query or one $transaction.  Sitting the test is not modelled again:     *)
(* beginning an attempt and closing it are the actions PlacementPromise    *)
(* gives for them, which PlacementAttempt is proved to implement.          *)
(***************************************************************************)
EXTENDS Integers, FiniteSets

CONSTANTS
  Requests,      \* overlapping requests of the address's owner and of admins
  Candidates,    \* ids a candidates row may get
  Assignments,   \* ids a placement_assignments row may get
  Invitations,   \* ids a placement_invitations row may get
  FreeAttempts,  \* the quota, 2 in the code
  MaxDeaths,     \* bound of the number of requests that die
  MaxInterventions,  \* bound of the number of admins' requests
  None

ASSUME QuotaAssumption == FreeAttempts \in Nat \ {0}
ASSUME BoundsAssumption == MaxDeaths \in Nat /\ MaxInterventions \in Nat
ASSUME RequestsAssumption == IsFiniteSet(Requests) /\ Requests # {}
ASSUME NoneIsNoRow == None \notin Candidates \cup Assignments \cup Invitations

VARIABLES
  identity,   \* PublicIdentity of the address: its candidate
  candidate,  \* candidate[a]: who assignment a is for, None when not created
  stage,      \* stage[a]: AssignmentStatus
  link,       \* link[i]: the row of invitation i
  owner,      \* owner[i]: the assignment the attempt of link i is for
  outcome,    \* outcome[i]: "scored" once the attempt of link i is closed
  official,   \* the attempts that are closed and canonical
  test,       \* the test: PUBLIC when it is PUBLISHED and the public one
  handed,     \* the links whose token a visitor's browser was given
  issued,     \* the links whose token was shown to an admin
  withdrawn,  \* the assignments whose live link an admin revoked, and that
              \* got no new one since
  req,        \* req[p]: where request p stands and what it has read
  deaths,     \* requests that died so far
  interventions   \* admins' requests so far

sitting == <<stage, owner, outcome, official>>
shown   == <<handed, issued, withdrawn>>
bounds  == <<deaths, interventions>>
vars    == <<identity, candidate, sitting, link, test, shown, req, bounds>>

Sitting == INSTANCE PlacementPromise WITH
  Sittings <- Invitations, Outcomes <- {"scored"}

-----------------------------------------------------------------------------
Link ==
  [status          : {"ABSENT", "ACTIVE", "USED", "REVOKED"},
   assignment      : Assignments \cup {None},
   regeneratedFrom : Invitations \cup {None}]

NoLink == [status |-> "ABSENT", assignment |-> None, regeneratedFrom |-> None]

Step ==
  [pc         : {"idle", "identity", "count", "assign", "invite", "recover",
                 "find", "regenerate", "start", "create", "respond",
                 "finalize", "vacant", "reveal", "revoke"},
   admin      : BOOLEAN,
   candidate  : Candidates \cup {None},
   assignment : Assignments \cup {None},
   link       : Invitations \cup {None}]

Idle ==
  [pc |-> "idle", admin |-> FALSE, candidate |-> None, assignment |-> None,
   link |-> None]

TypeOK ==
  /\ identity \in Candidates \cup {None}
  /\ candidate \in [Assignments -> Candidates \cup {None}]
  /\ stage \in [Assignments -> {"PENDING", "IN_PROGRESS", "COMPLETED"}]
  /\ link \in [Invitations -> Link]
  /\ owner \in [Invitations -> Assignments \cup {None}]
  /\ outcome \in [Invitations -> {"scored", None}]
  /\ official \subseteq Invitations
  /\ test \in {"PUBLIC", "PUBLISHED", "ARCHIVED"}
  /\ handed \subseteq Invitations
  /\ issued \subseteq Invitations
  /\ withdrawn \subseteq Assignments
  /\ req \in [Requests -> Step]
  /\ deaths \in 0 .. MaxDeaths
  /\ interventions \in 0 .. MaxInterventions

-----------------------------------------------------------------------------
(* Reading the rows.                                                       *)

Created      == {a \in Assignments : candidate[a] # None}
CreatedFor(c) == {a \in Created : candidate[a] = c}

(* What the partial unique index of assignments ranges over, and what      *)
(* countCompletedSelfServiceAssignments counts.                            *)
ActiveOf(c)    == {a \in CreatedFor(c) : stage[a] # "COMPLETED"}
CompletedOf(c) == {a \in CreatedFor(c) : stage[a] = "COMPLETED"}

LiveLinks(a) == {i \in Invitations : link[i].status = "ACTIVE"
                                      /\ link[i].assignment = a}

AttemptOpen(i) == owner[i] # None /\ outcome[i] = None

(* What a response says, an error included, is left out.                   *)
Goto(p, to) == req' = [req EXCEPT ![p].pc = to]
Finish(p)   == req' = [req EXCEPT ![p] = Idle]

-----------------------------------------------------------------------------
(* startPublicAttempt.                                                     *)

(* getPublicSelfServiceTest finds the public test (an error if there is    *)
(* none), then the first read of resolveOrCreatePublicIdentity.            *)
AfterLookup == IF identity = None THEN "identity" ELSE "count"

StartPublicAttempt(p) ==
  /\ req[p].pc = "idle"
  /\ test = "PUBLIC"
  /\ req' = [req EXCEPT ![p] =
               [Idle EXCEPT !.pc = AfterLookup, !.candidate = identity]]
  /\ UNCHANGED <<identity, candidate, sitting, link, test, shown, bounds>>

(* The transaction that creates candidate and identity.  normalizedEmail   *)
(* is unique: the loser of a race re-reads the winner's row.  (The variant *)
(* keeps the candidate it made.)                                           *)
CreateIdentityAnyway(p, c) ==
  /\ req[p].pc = "identity"
  /\ identity' = IF identity = None THEN c ELSE identity
  /\ req' = [req EXCEPT ![p].pc = "count", ![p].candidate = c]
  /\ UNCHANGED <<candidate, sitting, link, test, shown, bounds>>

CreateIdentity(p, c) ==
  /\ req[p].pc = "identity"
  /\ identity' = IF identity = None THEN c ELSE identity
  /\ req' = [req EXCEPT ![p].pc = "count", ![p].candidate = identity']
  /\ UNCHANGED <<candidate, sitting, link, test, shown, bounds>>

(* The quota.  (The variant lets one more through.)                        *)
OverQuotaLate(c) == Cardinality(CompletedOf(c)) > FreeAttempts
OverQuota(c)     == Cardinality(CompletedOf(c)) >= FreeAttempts

CountCompleted(p) ==
  /\ req[p].pc = "count"
  /\ IF OverQuota(req[p].candidate) THEN Finish(p) ELSE Goto(p, "assign")
  /\ UNCHANGED <<identity, candidate, sitting, link, test, shown, bounds>>

(* The partial unique index: one active self-service assignment of a       *)
(* candidate.  (The variant is a schema without it.)                       *)
AssignmentUnchecked(c) == TRUE
AssignmentAllowed(c)   == ActiveOf(c) = {}

(* createSelfServiceAssignment, or its P2002.                              *)
CreateAssignment(p, a) ==
  /\ req[p].pc = "assign"
  /\ a \notin Created
  /\ IF AssignmentAllowed(req[p].candidate)
     THEN /\ candidate' = [candidate EXCEPT ![a] = req[p].candidate]
          /\ req' = [req EXCEPT ![p].pc = "invite", ![p].assignment = a]
     ELSE Goto(p, "recover") /\ UNCHANGED candidate
  /\ UNCHANGED <<identity, sitting, link, test, shown, bounds>>

(* The link request p has just inserted: a visitor's request starts the    *)
(* attempt with its token, an admin's returns the token to the admin.      *)
Holding(p, j) ==
  req' = [req EXCEPT ![p].pc = IF req[p].admin THEN "reveal" ELSE "start",
                     ![p].link = j]

NewLink(a, from) ==
  [status |-> "ACTIVE", assignment |-> a, regeneratedFrom |-> from]

(* createSelfServiceInvitation, or the insert of generateInvitation: one   *)
(* live link of an assignment.  If an admin has been faster, the visitor's *)
(* request takes the P2002 for a lost race for the assignment.             *)
CreateInvitation(p, j) ==
  LET a == req[p].assignment
  IN  /\ req[p].pc = "invite"
      /\ link[j].status = "ABSENT"
      /\ IF LiveLinks(a) = {}
         THEN /\ link' = [link EXCEPT ![j] = NewLink(a, None)]
              /\ withdrawn' = withdrawn \ {a}
              /\ Holding(p, j)
         ELSE /\ UNCHANGED <<link, withdrawn>>
              /\ IF req[p].admin THEN Finish(p) ELSE Goto(p, "recover")
      /\ UNCHANGED <<identity, candidate, sitting, test, handed, issued, bounds>>

(* findActiveSelfServiceAssignment, after P2002: nothing there is an error *)
(* and an attempt under way is somebody else's.                            *)
FindActiveAssignment(p) ==
  LET active == ActiveOf(req[p].candidate)
  IN  /\ req[p].pc = "recover"
      /\ \/ active = {} /\ Finish(p)
         \/ \E a \in active :
               IF stage[a] = "IN_PROGRESS"
               THEN Finish(p)
               ELSE req' = [req EXCEPT ![p].pc = "find", ![p].assignment = a]
      /\ UNCHANGED <<identity, candidate, sitting, link, test, shown, bounds>>

(* regenerateSelfServiceInvitation and regenerateInvitation: they want an  *)
(* ACTIVE invitation.                                                      *)
FindInvitation(p) ==
  LET live == LiveLinks(req[p].assignment)
  IN  /\ req[p].pc = "find"
      /\ \/ live = {} /\ Finish(p)
         \/ \E i \in live :
               req' = [req EXCEPT ![p].pc = "regenerate", ![p].link = i]
      /\ UNCHANGED <<identity, candidate, sitting, link, test, shown, bounds>>

(* Their transaction.  The status of the assignment and of the invitation  *)
(* may have changed since they were read; the two unique indexes decide.   *)
(* (One variant goes on with the token it has just revoked, one commits    *)
(* the revocation before the insert.)                                      *)
RegenerationAllowed(t, a, current) ==
  \A i \in Invitations : /\ ~ (t[i].status = "ACTIVE" /\ t[i].assignment = a)
                         /\ t[i].regeneratedFrom # current

Regenerated(current, a, j) ==
  LET revoked == [link EXCEPT ![current].status = "REVOKED"]
  IN  IF RegenerationAllowed(revoked, a, current)
      THEN [revoked EXCEPT ![j] = NewLink(a, current)]
      ELSE link

RegenerateKeepsOld(p, j) ==
  LET r == req[p]
  IN  /\ r.pc = "regenerate"
      /\ link[j].status = "ABSENT"
      /\ link' = Regenerated(r.link, r.assignment, j)
      /\ IF link' = link
         THEN Finish(p) /\ UNCHANGED withdrawn
         ELSE Holding(p, r.link) /\ withdrawn' = withdrawn \ {r.assignment}
      /\ UNCHANGED <<identity, candidate, sitting, test, handed, issued, bounds>>

RevokeOnly(p, j) ==
  LET r == req[p]
  IN  /\ r.pc = "regenerate"
      /\ link[j].status = "ABSENT"
      /\ link' = [link EXCEPT ![r.link].status = "REVOKED"]
      /\ Finish(p)
      /\ UNCHANGED <<identity, candidate, sitting, test, shown, bounds>>

RegenerateInvitation(p, j) ==
  LET r == req[p]
  IN  /\ r.pc = "regenerate"
      /\ link[j].status = "ABSENT"
      /\ link' = Regenerated(r.link, r.assignment, j)
      /\ IF link' = link
         THEN Finish(p) /\ UNCHANGED withdrawn
         ELSE Holding(p, j) /\ withdrawn' = withdrawn \ {r.assignment}
      /\ UNCHANGED <<identity, candidate, sitting, test, handed, issued, bounds>>

(* startOrResumeAttempt.  The token of a visitor's own start is new and    *)
(* nobody else's; one that an admin passed on may be opened twice, and     *)
(* then the attempt is resumed.                                            *)
ValidateLink(p) ==
  LET i == req[p].link
  IN  /\ req[p].pc = "start"
      /\ \/ /\ link[i].status # "ACTIVE"
            /\ Finish(p)
         \/ /\ link[i].status = "ACTIVE" /\ owner[i] # None
            /\ Goto(p, "respond")
         \/ /\ link[i].status = "ACTIVE" /\ owner[i] = None
            /\ test = "ARCHIVED"
            /\ Finish(p)
         \/ /\ link[i].status = "ACTIVE" /\ owner[i] = None
            /\ test # "ARCHIVED"
            /\ Goto(p, "create")
      /\ UNCHANGED <<identity, candidate, sitting, link, test, shown, bounds>>

CreateAttempt(p) ==
  /\ req[p].pc = "create"
  /\ Sitting!BeginSitting(req[p].link, req[p].assignment)
  /\ Goto(p, "respond")
  /\ UNCHANGED <<identity, candidate, link, test, shown, bounds>>

(* P2002 on invitationId: the attempt is read again, and resumed unless it *)
(* has been closed meanwhile.                                              *)
CreateConflict(p) ==
  /\ req[p].pc = "create"
  /\ owner[req[p].link] # None
  /\ IF AttemptOpen(req[p].link) THEN Goto(p, "respond") ELSE Finish(p)
  /\ UNCHANGED <<identity, candidate, sitting, link, test, shown, bounds>>

(* The browser has the token: startPublicAttemptAction stashes it in a     *)
(* cookie and returns it; the page of an admin's link came by it.          *)
Respond(p) ==
  /\ req[p].pc = "respond"
  /\ handed' = handed \cup {req[p].link}
  /\ Finish(p)
  /\ UNCHANGED <<identity, candidate, sitting, link, test, issued, withdrawn,
                 bounds>>

-----------------------------------------------------------------------------
(* Submitting with a token that was handed out (submitAttempt): the checks *)
(* in one step, then the transaction of finalizeAttempt.                   *)
SubmitAttempt(p, i) ==
  /\ req[p].pc = "idle"
  /\ i \in handed
  /\ link[i].status = "ACTIVE"
  /\ AttemptOpen(i)
  /\ req' = [req EXCEPT ![p] = [Idle EXCEPT !.pc = "finalize", !.link = i]]
  /\ UNCHANGED <<identity, candidate, sitting, link, test, shown, bounds>>

FinalizeAttempt(p) ==
  LET i == req[p].link
  IN  /\ req[p].pc = "finalize"
      /\ AttemptOpen(i)
      /\ Sitting!CloseSitting(i, "scored")
      /\ link' = [link EXCEPT ![i].status = "USED"]
      /\ Finish(p)
      /\ UNCHANGED <<identity, candidate, test, shown, bounds>>

(* The guarded updateMany found the attempt closed.                        *)
DuplicateSubmission(p) ==
  /\ req[p].pc = "finalize"
  /\ ~ AttemptOpen(req[p].link)
  /\ Finish(p)
  /\ UNCHANGED <<identity, candidate, sitting, link, test, shown, bounds>>

-----------------------------------------------------------------------------
(* An admin on the assignment's page, which treats a self-service          *)
(* assignment like any other.                                              *)

Intervene ==
  /\ interventions < MaxInterventions
  /\ interventions' = interventions + 1

(* First read of generateInvitation (which goes on to look for a live      *)
(* link) and of regenerateInvitation (which goes on to find it).           *)
CheckAssignment(p, a, to) ==
  /\ req[p].pc = "idle"
  /\ a \in Created
  /\ stage[a] # "COMPLETED"
  /\ req' = [req EXCEPT ![p] = [Idle EXCEPT !.pc = to, !.admin = TRUE,
                                            !.assignment = a]]
  /\ Intervene
  /\ UNCHANGED <<identity, candidate, sitting, link, test, shown, deaths>>

(* Second read of generateInvitation: there must be no live link.          *)
CheckVacant(p) ==
  /\ req[p].pc = "vacant"
  /\ IF LiveLinks(req[p].assignment) = {} THEN Goto(p, "invite") ELSE Finish(p)
  /\ UNCHANGED <<identity, candidate, sitting, link, test, shown, bounds>>

(* The token is shown to the admin, once.                                  *)
RevealToken(p) ==
  /\ req[p].pc = "reveal"
  /\ issued' = issued \cup {req[p].link}
  /\ Finish(p)
  /\ UNCHANGED <<identity, candidate, sitting, link, test, handed, withdrawn,
                 bounds>>

(* Somebody opens a link an admin passed on.                               *)
OpenLink(p, i) ==
  /\ req[p].pc = "idle"
  /\ i \in issued
  /\ req' = [req EXCEPT ![p] =
               [Idle EXCEPT !.pc = "start", !.assignment = link[i].assignment,
                            !.link = i]]
  /\ UNCHANGED <<identity, candidate, sitting, link, test, shown, bounds>>

(* revokeInvitation: read ACTIVE, then update by id without a condition.   *)
CheckRevocable(p, i) ==
  /\ req[p].pc = "idle"
  /\ link[i].status = "ACTIVE"
  /\ req' = [req EXCEPT ![p] = [Idle EXCEPT !.pc = "revoke", !.admin = TRUE,
                                            !.link = i]]
  /\ Intervene
  /\ UNCHANGED <<identity, candidate, sitting, link, test, shown, deaths>>

RevokeInvitation(p) ==
  LET i == req[p].link
  IN  /\ req[p].pc = "revoke"
      /\ link' = [link EXCEPT ![i].status = "REVOKED"]
      /\ withdrawn' = IF link[i].status = "ACTIVE"
                      THEN withdrawn \cup {link[i].assignment}
                      ELSE withdrawn
      /\ Finish(p)
      /\ UNCHANGED <<identity, candidate, sitting, test, handed, issued, bounds>>

-----------------------------------------------------------------------------
(* Environment.                                                            *)

(* An admin archives the test, or takes the public flag off it.            *)
ClosePublicTest ==
  /\ \/ test = "PUBLIC" /\ test' = "PUBLISHED"
     \/ test # "ARCHIVED" /\ test' = "ARCHIVED"
  /\ UNCHANGED <<identity, candidate, sitting, link, shown, req, bounds>>

(* A request dies between two queries, or its response is lost.            *)
RequestDies(p) ==
  /\ req[p].pc # "idle"
  /\ deaths < MaxDeaths
  /\ deaths' = deaths + 1
  /\ Finish(p)
  /\ UNCHANGED <<identity, candidate, sitting, link, test, shown, interventions>>

-----------------------------------------------------------------------------
Init ==
  /\ identity = None
  /\ candidate = [a \in Assignments |-> None]
  /\ Sitting!PromiseInit
  /\ link = [i \in Invitations |-> NoLink]
  /\ test = "PUBLIC"
  /\ handed = {}
  /\ issued = {}
  /\ withdrawn = {}
  /\ req = [p \in Requests |-> Idle]
  /\ deaths = 0
  /\ interventions = 0

Start(p) ==
  \/ StartPublicAttempt(p)
  \/ \E c \in Candidates : CreateIdentity(p, c)
  \/ CountCompleted(p)
  \/ \E a \in Assignments : CreateAssignment(p, a)
  \/ \E j \in Invitations : CreateInvitation(p, j) \/ RegenerateInvitation(p, j)
  \/ FindActiveAssignment(p) \/ FindInvitation(p)
  \/ ValidateLink(p) \/ CreateAttempt(p) \/ CreateConflict(p) \/ Respond(p)

Submit(p) ==
  \/ \E i \in Invitations : SubmitAttempt(p, i)
  \/ FinalizeAttempt(p) \/ DuplicateSubmission(p)

Admin(p) ==
  \/ \E a \in Assignments, to \in {"find", "vacant"} : CheckAssignment(p, a, to)
  \/ CheckVacant(p) \/ RevealToken(p) \/ RevokeInvitation(p)
  \/ \E i \in Invitations : CheckRevocable(p, i) \/ OpenLink(p, i)

Next ==
  \/ \E p \in Requests : Start(p) \/ Submit(p) \/ Admin(p) \/ RequestDies(p)
  \/ ClosePublicTest

Spec == Init /\ [][Next]_vars

-----------------------------------------------------------------------------
(* Safety.                                                                 *)

(* The first two verifications of an address may race; its quota is        *)
(* counted per candidate, so every assignment made for the address must be *)
(* its one candidate's.                                                    *)
OneCandidate == \A a \in Created : candidate[a] = identity

(* The check-then-create of startPublicAttempt never leaves two active     *)
(* assignments: "the actual guarantee" is the partial unique index.        *)
OneActiveAssignment == \A c \in Candidates : Cardinality(ActiveOf(c)) <= 1

(* The quota is counted before the assignment is created.  A request that  *)
(* stalls in between goes over it, but only those that were already        *)
(* running when the last free attempt was closed can.                      *)
OverrunIsBounded ==
  Cardinality(Created) < FreeAttempts + Cardinality(Requests)

(* An active assignment without a live link cannot be recovered by         *)
(* startPublicAttempt: its owner is refused until an admin generates a     *)
(* link.  Overlapping starts, losers of a race, and admins who regenerate  *)
(* leave no such orphan behind: only the death of a request or a           *)
(* revocation does.                                                        *)
AboutToInvite(a) ==
  \E p \in Requests : /\ req[p].pc = "invite" /\ ~ req[p].admin
                      /\ req[p].assignment = a

OrphansHaveACause ==
  deaths = 0 =>
    \A a \in Created : \/ stage[a] = "COMPLETED"
                       \/ LiveLinks(a) # {}
                       \/ AboutToInvite(a)
                       \/ a \in withdrawn

(* Overlapping starts, and admins, revoke each other's links while         *)
(* attempts are begun with them.  Once they have all been answered, an     *)
(* assignment under way whose link was not withdrawn has a live link that  *)
(* somebody was given: the visitor, whose open attempt it continues, or    *)
(* the admin who replaced the visitor's and has to pass the new one on.    *)
Continuable(i) == i \in handed /\ AttemptOpen(i)

NobodyIsLockedOut ==
  (deaths = 0 /\ test # "ARCHIVED" /\ \A p \in Requests : req[p].pc = "idle") =>
    \A a \in Created \ withdrawn : stage[a] = "IN_PROGRESS" =>
       \E i \in LiveLinks(a) : Continuable(i) \/ i \in issued

-----------------------------------------------------------------------------
(* The inductive invariant: the properties above follow from what rows and *)
(* requests know of each other.                                            *)

RowsLinked ==
  /\ \A a \in Assignments \ Created : stage[a] = "PENDING"
  /\ \A i \in Invitations :
        /\ link[i].status # "ABSENT" => link[i].assignment \in Created
        /\ owner[i] # None => /\ link[i].status # "ABSENT"
                              /\ owner[i] = link[i].assignment
        /\ outcome[i] # None => owner[i] # None /\ link[i].status # "ACTIVE"
        /\ i \in handed => owner[i] # None
        /\ i \in issued => link[i].status # "ABSENT"

(* Which row a request holds, at each place it can stand.                  *)
RequestLinked(p) ==
  LET r == req[p]
  IN  /\ r.pc \in {"count", "assign", "recover"} \/
            (r.pc \in {"invite", "find", "regenerate"} /\ ~ r.admin) =>
            identity # None /\ r.candidate = identity
      /\ r.pc \in {"identity", "count", "assign", "recover"} => ~ r.admin
      /\ r.pc = "vacant" => r.admin
      /\ r.pc \in {"invite", "vacant", "find", "regenerate", "start", "create",
                  "respond"} => r.assignment \in Created
      /\ r.pc \in {"regenerate", "start", "create", "respond", "finalize",
                  "reveal", "revoke"} =>
            r.link \in Invitations /\ link[r.link].status # "ABSENT"
      /\ r.pc \in {"regenerate", "start", "create", "respond"} =>
            link[r.link].assignment = r.assignment
      /\ r.pc \in {"respond", "finalize"} => owner[r.link] # None

(* OneActiveAssignment without counting.                                   *)
ActiveIsUnique ==
  \A c \in Candidates : \A a, b \in ActiveOf(c) : a = b

(* Until the quota is used up there is room; from then on nobody else      *)
(* passes the count, and the requests that already have can only turn      *)
(* into assignments.                                                       *)
Completed == {a \in Created : stage[a] = "COMPLETED"}
PastCount == {p \in Requests : req[p].pc = "assign"}

RoomOrBounded ==
  /\ IsFiniteSet(Created)
  /\ \/ Cardinality(Completed) < FreeAttempts
     \/ Cardinality(Created) + Cardinality(PastCount)
           < FreeAttempts + Cardinality(Requests)

(* A live link was delivered, or is held by a request that will deliver it *)
(* unless the test is archived or the request dies.                        *)
Carries(p, i) ==
  /\ req[p].pc \in {"start", "create", "respond", "reveal"}
  /\ req[p].link = i

LiveLinksArrive ==
  deaths = 0 /\ test # "ARCHIVED" =>
    \A i \in Invitations : link[i].status = "ACTIVE" =>
       i \in handed \cup issued \/ \E p \in Requests : Carries(p, i)

IInv ==
  /\ TypeOK
  /\ RowsLinked
  /\ \A p \in Requests : RequestLinked(p)
  /\ OneCandidate
  /\ ActiveIsUnique
  /\ RoomOrBounded
  /\ OrphansHaveACause
  /\ LiveLinksArrive
=============================================================================
