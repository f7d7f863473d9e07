-------------------------- MODULE SelfServe_proofs --------------------------
(***************************************************************************)
(* Theorems about SelfServe for every number of overlapping requests, ids, *)
(* deaths, and every quota.                                                *)
(***************************************************************************)
EXTENDS SelfServe, FiniteSetTheorems, TLAPS

USE DEF sitting, shown, bounds, vars

-----------------------------------------------------------------------------
(* Types.                                                                  *)

LEMMA IdleType == Idle \in Step
BY DEF Idle, Step

LEMMA InitType == Init => TypeOK
BY IdleType, BoundsAssumption
   DEF Init, TypeOK, Sitting!PromiseInit, NoLink, Link

LEMMA NewLinkType ==
  ASSUME NEW a \in Assignments, NEW from \in Invitations \cup {None}
  PROVE  NewLink(a, from) \in Link
BY DEF NewLink, Link

(* The steps of a request that only read the rows.                         *)
Reads(p) ==
  \/ StartPublicAttempt(p) \/ CountCompleted(p)
  \/ FindActiveAssignment(p) \/ FindInvitation(p) \/ ValidateLink(p)
  \/ CreateConflict(p) \/ DuplicateSubmission(p) \/ CheckVacant(p)
  \/ \E i \in Invitations :
        SubmitAttempt(p, i) \/ OpenLink(p, i) \/ CheckRevocable(p, i)
  \/ \E a \in Assignments, to \in {"find", "vacant"} : CheckAssignment(p, a, to)

LEMMA ReadsOnly ==
  ASSUME NEW p \in Requests, Reads(p)
  PROVE  UNCHANGED <<identity, candidate, sitting, link, test, shown, deaths>>
BY DEF Reads, StartPublicAttempt, CountCompleted, FindActiveAssignment,
   FindInvitation, ValidateLink, CreateConflict, DuplicateSubmission,
   CheckVacant, SubmitAttempt, OpenLink, CheckRevocable, CheckAssignment

LEMMA NewRequestState ==
  ASSUME TypeOK, NEW p \in Requests, NEW r \in Step,
         req' = [req EXCEPT ![p] = r]
  PROVE  req' \in [Requests -> Step]
BY DEF TypeOK

LEMMA FinishType ==
  ASSUME TypeOK, NEW p \in Requests, Finish(p)
  PROVE  req' \in [Requests -> Step]
BY IdleType DEF TypeOK, Finish

LEMMA GotoType ==
  ASSUME TypeOK, NEW p \in Requests,
         NEW to \in {"assign", "recover", "create", "respond", "invite"},
         Goto(p, to)
  PROVE  req' \in [Requests -> Step]
BY DEF TypeOK, Goto, Step

LEMMA HoldingType ==
  ASSUME TypeOK, NEW p \in Requests, NEW j \in Invitations, Holding(p, j)
  PROVE  req' \in [Requests -> Step]
<1>1. ASSUME NEW to \in {"reveal", "start"},
             req' = [req EXCEPT ![p].pc = to, ![p].link = j]
      PROVE  req' \in [Requests -> Step]
  <2>1. [req[p] EXCEPT !.pc = to, !.link = j] \in Step
    BY DEF TypeOK, Step
  <2> QED
    BY <1>1, <2>1 DEF TypeOK
<1> QED
  BY <1>1 DEF Holding

LEMMA ReadsType ==
  ASSUME TypeOK, NEW p \in Requests, RequestLinked(p), RowsLinked, Reads(p)
  PROVE  req' \in [Requests -> Step]
<1>1. CASE StartPublicAttempt(p)
  <2>1. [Idle EXCEPT !.pc = AfterLookup, !.candidate = identity] \in Step
    BY DEF Idle, Step, AfterLookup, TypeOK
  <2> QED
    BY <1>1, <2>1 DEF StartPublicAttempt, TypeOK
<1>2. CASE DuplicateSubmission(p)
  BY <1>2, FinishType DEF DuplicateSubmission
<1>3. CASE CountCompleted(p) \/ CheckVacant(p) \/ CreateConflict(p) \/ ValidateLink(p)
  BY <1>3, FinishType, GotoType
     DEF CountCompleted, CheckVacant, CreateConflict, ValidateLink
<1>4. CASE FindActiveAssignment(p)
  <2>1. ASSUME NEW a \in Assignments,
               req' = [req EXCEPT ![p].pc = "find", ![p].assignment = a]
        PROVE  req' \in [Requests -> Step]
    <3>1. [req[p] EXCEPT !.pc = "find", !.assignment = a] \in Step
      BY DEF TypeOK, Step
    <3> QED
      BY <2>1, <3>1 DEF TypeOK
  <2>2. ActiveOf(req[p].candidate) \subseteq Assignments
    BY DEF ActiveOf, CreatedFor, Created
  <2> QED
    BY <1>4, <2>1, <2>2, FinishType DEF FindActiveAssignment
<1>5. CASE FindInvitation(p)
  <2>1. ASSUME NEW i \in Invitations,
               req' = [req EXCEPT ![p].pc = "regenerate", ![p].link = i]
        PROVE  req' \in [Requests -> Step]
    <3>1. [req[p] EXCEPT !.pc = "regenerate", !.link = i] \in Step
      BY DEF TypeOK, Step
    <3> QED
      BY <2>1, <3>1 DEF TypeOK
  <2>2. LiveLinks(req[p].assignment) \subseteq Invitations
    BY DEF LiveLinks
  <2> QED
    BY <1>5, <2>1, <2>2, FinishType DEF FindInvitation
<1>6. ASSUME NEW i \in Invitations, SubmitAttempt(p, i)
      PROVE  req' \in [Requests -> Step]
  <2>1. [Idle EXCEPT !.pc = "finalize", !.link = i] \in Step
    BY DEF Idle, Step
  <2> QED
    BY <1>6, <2>1, NewRequestState DEF SubmitAttempt
<1>7. ASSUME NEW i \in Invitations, OpenLink(p, i)
      PROVE  req' \in [Requests -> Step]
  <2>1. link[i].assignment \in Assignments \cup {None}
    BY DEF TypeOK, Link
  <2>2. [Idle EXCEPT !.pc = "start", !.assignment = link[i].assignment,
                     !.link = i] \in Step
    BY <2>1 DEF Idle, Step
  <2> QED
    BY <1>7, <2>2, NewRequestState DEF OpenLink
<1>8. ASSUME NEW i \in Invitations, CheckRevocable(p, i)
      PROVE  req' \in [Requests -> Step]
  <2>1. [Idle EXCEPT !.pc = "revoke", !.admin = TRUE, !.link = i] \in Step
    BY DEF Idle, Step
  <2> QED
    BY <1>8, <2>1, NewRequestState DEF CheckRevocable
<1>9. ASSUME NEW a \in Assignments, NEW to \in {"find", "vacant"},
             CheckAssignment(p, a, to)
      PROVE  req' \in [Requests -> Step]
  <2>1. [Idle EXCEPT !.pc = to, !.admin = TRUE, !.assignment = a] \in Step
    BY DEF Idle, Step
  <2> QED
    BY <1>9, <2>1, NewRequestState DEF CheckAssignment
<1> QED
  BY <1>1, <1>2, <1>3, <1>4, <1>5, <1>6, <1>7, <1>8, <1>9 DEF Reads

(* The transaction of regenerateSelfServiceInvitation leaves the table as  *)
(* it was, or revokes the old link and inserts the new one.                *)
LEMMA RegeneratedTable ==
  ASSUME TypeOK, NEW current \in Invitations, NEW a \in Assignments,
         NEW j \in Invitations, j # current
  PROVE  \/ Regenerated(current, a, j) = link
         \/ /\ Regenerated(current, a, j) \in [Invitations -> Link]
            /\ Regenerated(current, a, j)[j] = NewLink(a, current)
            /\ Regenerated(current, a, j)[current] =
                 [link[current] EXCEPT !.status = "REVOKED"]
            /\ \A i \in Invitations \ {current, j} :
                  Regenerated(current, a, j)[i] = link[i]
<1> DEFINE revoked == [link EXCEPT ![current].status = "REVOKED"]
<1>1. revoked \in [Invitations -> Link]
  BY DEF TypeOK, Link
<1>2. [revoked EXCEPT ![j] = NewLink(a, current)] \in [Invitations -> Link]
  BY <1>1, NewLinkType
<1> QED
  BY <1>1, <1>2 DEF Regenerated, TypeOK

(* The steps of a request that write.                                      *)
Writes(p) ==
  \/ \E c \in Candidates : CreateIdentity(p, c)
  \/ \E a \in Assignments : CreateAssignment(p, a)
  \/ \E j \in Invitations : CreateInvitation(p, j) \/ RegenerateInvitation(p, j)
  \/ CreateAttempt(p) \/ Respond(p) \/ FinalizeAttempt(p)
  \/ RevealToken(p) \/ RevokeInvitation(p)

LEMMA StepKinds ==
  ASSUME Next
  PROVE  \/ \E p \in Requests : Reads(p) \/ Writes(p) \/ RequestDies(p)
         \/ ClosePublicTest
<1>1. ASSUME NEW p \in Requests, Start(p)
      PROVE  Reads(p) \/ Writes(p)
  BY <1>1 DEF Start, Reads, Writes
<1>2. ASSUME NEW p \in Requests, Submit(p) \/ Admin(p)
      PROVE  Reads(p) \/ Writes(p)
  BY <1>2 DEF Submit, Admin, Reads, Writes
<1> QED
  BY <1>1, <1>2 DEF Next

LEMMA WritesType ==
  ASSUME TypeOK, RowsLinked, NEW p \in Requests, RequestLinked(p), Writes(p)
  PROVE  TypeOK'
<1>1. ASSUME NEW c \in Candidates, CreateIdentity(p, c)
      PROVE  TypeOK'
  <2>1. identity' \in Candidates \cup {None}
    BY <1>1 DEF CreateIdentity, TypeOK
  <2>2. [req[p] EXCEPT !.pc = "count", !.candidate = identity'] \in Step
    BY <2>1 DEF TypeOK, Step
  <2>3. req' \in [Requests -> Step]
    BY <1>1, <2>2, NewRequestState DEF CreateIdentity, TypeOK
  <2> QED
    BY <1>1, <2>1, <2>3 DEF CreateIdentity, TypeOK
<1>2. ASSUME NEW a \in Assignments, CreateAssignment(p, a)
      PROVE  TypeOK'
  <2>1. [req[p] EXCEPT !.pc = "invite", !.assignment = a] \in Step
    BY DEF TypeOK, Step
  <2>2. req' \in [Requests -> Step]
    BY <1>2, <2>1, NewRequestState, GotoType DEF CreateAssignment, TypeOK
  <2>3. candidate' \in [Assignments -> Candidates \cup {None}]
    BY <1>2 DEF CreateAssignment, TypeOK, Step
  <2> QED
    BY <1>2, <2>2, <2>3 DEF CreateAssignment, TypeOK
<1>3. ASSUME NEW j \in Invitations, CreateInvitation(p, j)
      PROVE  TypeOK'
  <2>1. req[p].assignment \in Assignments
    BY <1>3 DEF CreateInvitation, RequestLinked, Created
  <2>2. req' \in [Requests -> Step]
    BY <1>3, HoldingType, FinishType, GotoType DEF CreateInvitation
  <2>3. link' \in [Invitations -> Link]
    BY <1>3, <2>1, NewLinkType DEF CreateInvitation, TypeOK
  <2>4. withdrawn' \subseteq Assignments
    BY <1>3 DEF CreateInvitation, TypeOK
  <2> QED
    BY <1>3, <2>2, <2>3, <2>4 DEF CreateInvitation, TypeOK
<1>4. ASSUME NEW j \in Invitations, RegenerateInvitation(p, j)
      PROVE  TypeOK'
  <2>1. /\ req[p].assignment \in Assignments
        /\ req[p].link \in Invitations /\ j # req[p].link
    BY <1>4 DEF RegenerateInvitation, RequestLinked, Created
  <2>2. req' \in [Requests -> Step]
    BY <1>4, HoldingType, FinishType DEF RegenerateInvitation
  <2>3. link' \in [Invitations -> Link]
    BY <1>4, <2>1, RegeneratedTable DEF RegenerateInvitation, TypeOK
  <2>4. withdrawn' \subseteq Assignments
    BY <1>4 DEF RegenerateInvitation, TypeOK
  <2> QED
    BY <1>4, <2>2, <2>3, <2>4 DEF RegenerateInvitation, TypeOK
<1>5. CASE CreateAttempt(p)
  <2>1. req[p].assignment \in Assignments /\ req[p].link \in Invitations
    BY <1>5 DEF CreateAttempt, RequestLinked, Created
  <2>2. /\ owner' \in [Invitations -> Assignments \cup {None}]
        /\ stage' \in [Assignments -> {"PENDING", "IN_PROGRESS", "COMPLETED"}]
        /\ UNCHANGED <<outcome, official>>
    BY <1>5, <2>1 DEF CreateAttempt, Sitting!BeginSitting, TypeOK
  <2> QED
    BY <1>5, <2>2, GotoType DEF CreateAttempt, TypeOK
<1>6. CASE Respond(p) \/ RevealToken(p)
  <2>1. req[p].link \in Invitations
    BY <1>6 DEF Respond, RevealToken, RequestLinked
  <2> QED
    BY <1>6, <2>1, FinishType DEF Respond, RevealToken, TypeOK
<1>7. CASE FinalizeAttempt(p)
  <2> DEFINE i == req[p].link
  <2>1. i \in Invitations
    BY <1>7 DEF FinalizeAttempt, RequestLinked
  <2>2. /\ owner' = owner
        /\ stage' \in [Assignments -> {"PENDING", "IN_PROGRESS", "COMPLETED"}]
        /\ outcome' \in [Invitations -> {"scored", None}]
        /\ official' \subseteq Invitations
    BY <1>7, <2>1 DEF FinalizeAttempt, Sitting!CloseSitting, TypeOK
  <2>3. link' \in [Invitations -> Link]
    BY <1>7, <2>1 DEF FinalizeAttempt, TypeOK, Link
  <2> QED
    BY <1>7, <2>2, <2>3, FinishType DEF FinalizeAttempt, TypeOK
<1>8. CASE RevokeInvitation(p)
  <2> DEFINE i == req[p].link
  <2>1. i \in Invitations
    BY <1>8 DEF RevokeInvitation, RequestLinked
  <2>2. link' \in [Invitations -> Link]
    BY <1>8, <2>1 DEF RevokeInvitation, TypeOK, Link
  <2>3. withdrawn' \subseteq Assignments
    <3>1. CASE link[i].status = "ACTIVE"
      <4>1. link[i].assignment \in Assignments
        BY <2>1, <3>1 DEF RowsLinked, Created
      <4> QED
        BY <1>8, <4>1 DEF RevokeInvitation, TypeOK
    <3> QED
      BY <1>8, <3>1 DEF RevokeInvitation, TypeOK
  <2> QED
    BY <1>8, <2>2, <2>3, FinishType DEF RevokeInvitation, TypeOK
<1> QED
  BY <1>1, <1>2, <1>3, <1>4, <1>5, <1>6, <1>7, <1>8 DEF Writes

LEMMA TypeStep ==
  ASSUME TypeOK, RowsLinked, \A p \in Requests : RequestLinked(p), [Next]_vars
  PROVE  TypeOK'
<1>1. CASE UNCHANGED vars
  BY <1>1 DEF TypeOK
<1>2. CASE ClosePublicTest
  BY <1>2 DEF ClosePublicTest, TypeOK
<1>3. ASSUME NEW p \in Requests, Reads(p)
      PROVE  TypeOK'
  <2>1. interventions' \in 0 .. MaxInterventions
    <3>1. \/ interventions' = interventions
          \/ Intervene
      BY <1>3 DEF Reads, StartPublicAttempt, CountCompleted,
         FindActiveAssignment, FindInvitation, ValidateLink, CreateConflict,
         DuplicateSubmission, CheckVacant, SubmitAttempt, OpenLink,
         CheckRevocable, CheckAssignment
    <3> QED
      BY <3>1, BoundsAssumption DEF Intervene, TypeOK
  <2> QED
    BY <1>3, <2>1, ReadsOnly, ReadsType DEF TypeOK
<1>4. ASSUME NEW p \in Requests, Writes(p)
      PROVE  TypeOK'
  BY <1>4, WritesType
<1>5. ASSUME NEW p \in Requests, RequestDies(p)
      PROVE  TypeOK'
  <2>1. deaths' \in 0 .. MaxDeaths
    BY <1>5, BoundsAssumption DEF RequestDies, TypeOK
  <2> QED
    BY <1>5, <2>1, FinishType DEF RequestDies, TypeOK
<1> QED
  BY <1>1, <1>2, <1>3, <1>4, <1>5, StepKinds

-----------------------------------------------------------------------------
(* What the writing steps do to the rows.                                  *)

LEMMA OnlyOneMoves ==
  ASSUME TypeOK, NEW p \in Requests, Reads(p) \/ Writes(p) \/ RequestDies(p)
  PROVE  \A q \in Requests \ {p} : req'[q] = req[q]
<1> USE DEF Finish, Goto, Holding, TypeOK
<1>1. CASE RequestDies(p)
  BY <1>1 DEF RequestDies
<1>2. CASE Reads(p)
  BY <1>2 DEF Reads, StartPublicAttempt, CountCompleted, FindActiveAssignment,
     FindInvitation, ValidateLink, CreateConflict, DuplicateSubmission,
     CheckVacant, SubmitAttempt, OpenLink, CheckRevocable, CheckAssignment
<1>3. CASE Writes(p)
  BY <1>3 DEF Writes, CreateIdentity, CreateAssignment, CreateInvitation,
     RegenerateInvitation, CreateAttempt, Respond, FinalizeAttempt,
     RevealToken, RevokeInvitation
<1> QED
  BY <1>1, <1>2, <1>3

(* An insert of assignment a for the one candidate.                        *)
LEMMA AssignmentEffect ==
  ASSUME TypeOK, NEW p \in Requests, RequestLinked(p), NEW a \in Assignments,
         CreateAssignment(p, a)
  PROVE  \/ candidate' = candidate
         \/ /\ ActiveOf(req[p].candidate) = {}
            /\ a \notin Created
            /\ Created' = Created \cup {a}
            /\ candidate'[a] = identity
            /\ identity # None
            /\ \A b \in Assignments \ {a} : candidate'[b] = candidate[b]
BY DEF CreateAssignment, AssignmentAllowed, RequestLinked, Created, TypeOK

(* An insert of link j for assignment a, which may revoke another link of  *)
(* it.                                                                     *)
NewLinkFor(j, a) ==
  /\ link[j].status = "ABSENT"
  /\ link'[j].status = "ACTIVE" /\ link'[j].assignment = a
  /\ \A i \in Invitations \ {j} :
        \/ link'[i] = link[i]
        \/ /\ link[i].assignment = a /\ link[i].status # "ABSENT"
           /\ link'[i].status = "REVOKED" /\ link'[i].assignment = a

Held(p, j) ==
  [req[p] EXCEPT !.pc = IF req[p].admin THEN "reveal" ELSE "start", !.link = j]

LEMMA InvitationEffect ==
  ASSUME TypeOK, NEW p \in Requests, RequestLinked(p), NEW j \in Invitations,
         CreateInvitation(p, j) \/ RegenerateInvitation(p, j)
  PROVE  \/ /\ link' = link /\ withdrawn' = withdrawn
            /\ \/ /\ req'[p] = Idle
                  /\ req[p].pc = "invite" => req[p].admin
               \/ /\ LiveLinks(req[p].assignment) # {}
                  /\ req[p].pc = "invite" /\ ~ req[p].admin
                  /\ req'[p] = [req[p] EXCEPT !.pc = "recover"]
         \/ /\ NewLinkFor(j, req[p].assignment)
            /\ withdrawn' = withdrawn \ {req[p].assignment}
            /\ req'[p] = Held(p, j)
<1>1. CASE CreateInvitation(p, j)
  <2>1. CASE LiveLinks(req[p].assignment) = {}
    <3>1. NewLinkFor(j, req[p].assignment)
      BY <1>1, <2>1 DEF CreateInvitation, NewLinkFor, NewLink, TypeOK, Link
    <3>2. req'[p] = Held(p, j) /\ withdrawn' = withdrawn \ {req[p].assignment}
      BY <1>1, <2>1 DEF CreateInvitation, Holding, Held, TypeOK, Step
    <3> QED
      BY <3>1, <3>2
  <2>2. CASE LiveLinks(req[p].assignment) # {}
    BY <1>1, <2>2 DEF CreateInvitation, Finish, Goto, TypeOK
  <2> QED
    BY <2>1, <2>2
<1>2. CASE RegenerateInvitation(p, j)
  <2>1. /\ req[p].assignment \in Assignments
        /\ req[p].link \in Invitations /\ j # req[p].link
        /\ link[req[p].link].assignment = req[p].assignment
        /\ link[req[p].link].status # "ABSENT"
        /\ link[j].status = "ABSENT"
    BY <1>2 DEF RegenerateInvitation, RequestLinked, Created
  <2>2. CASE link' = link
    BY <1>2, <2>2 DEF RegenerateInvitation, Finish, TypeOK
  <2>3. CASE link' # link
    <3>1. req'[p] = Held(p, j) /\ withdrawn' = withdrawn \ {req[p].assignment}
      BY <1>2, <2>3 DEF RegenerateInvitation, Holding, Held, TypeOK, Step
    <3>2. /\ link'[j] = NewLink(req[p].assignment, req[p].link)
          /\ link'[req[p].link] = [link[req[p].link] EXCEPT !.status = "REVOKED"]
          /\ \A i \in Invitations \ {req[p].link, j} : link'[i] = link[i]
      BY <1>2, <2>1, <2>3, RegeneratedTable DEF RegenerateInvitation
    <3>3. /\ link'[req[p].link].status = "REVOKED"
          /\ link'[req[p].link].assignment = req[p].assignment
      BY <2>1, <3>2 DEF TypeOK, Link
    <3>4. NewLinkFor(j, req[p].assignment)
      <4>1. /\ link'[j].status = "ACTIVE"
            /\ link'[j].assignment = req[p].assignment
        BY <3>2 DEF NewLink
      <4>2. ASSUME NEW i \in Invitations \ {j}
            PROVE  \/ link'[i] = link[i]
                   \/ /\ link[i].assignment = req[p].assignment
                      /\ link[i].status # "ABSENT"
                      /\ link'[i].status = "REVOKED"
                      /\ link'[i].assignment = req[p].assignment
        <5>1. CASE i = req[p].link
          BY <2>1, <3>3, <5>1
        <5>2. CASE i # req[p].link
          BY <3>2, <5>2
        <5> QED
          BY <5>1, <5>2
      <4> QED
        BY <2>1, <4>1, <4>2 DEF NewLinkFor
    <3> QED
      BY <3>1, <3>4
  <2> QED
    BY <2>2, <2>3
<1> QED
  BY <1>1, <1>2

(* A revocation: only the status of one link changes, and if it was live   *)
(* its assignment is withdrawn.                                            *)
LEMMA RevocationEffect ==
  ASSUME TypeOK, NEW p \in Requests, RequestLinked(p), RevokeInvitation(p)
  PROVE  LET i == req[p].link
         IN  /\ i \in Invitations /\ link[i].status # "ABSENT"
             /\ link'[i].status = "REVOKED"
             /\ link'[i].assignment = link[i].assignment
             /\ \A k \in Invitations \ {i} : link'[k] = link[k]
             /\ withdrawn \subseteq withdrawn'
             /\ link[i].status = "ACTIVE" => link[i].assignment \in withdrawn'
             /\ req'[p] = Idle
<1>1. req[p].link \in Invitations /\ link[req[p].link].status # "ABSENT"
  BY DEF RevokeInvitation, RequestLinked
<1>2. link'[req[p].link] = [link[req[p].link] EXCEPT !.status = "REVOKED"]
  BY <1>1 DEF RevokeInvitation, TypeOK
<1>3. /\ link'[req[p].link].status = "REVOKED"
      /\ link'[req[p].link].assignment = link[req[p].link].assignment
  BY <1>1, <1>2 DEF TypeOK, Link
<1> QED
  BY <1>1, <1>3 DEF RevokeInvitation, Finish, TypeOK

LEMMA AttemptEffect ==
  ASSUME TypeOK, NEW p \in Requests, RequestLinked(p), CreateAttempt(p)
  PROVE  LET i == req[p].link
             a == req[p].assignment
         IN  /\ i \in Invitations /\ a \in Created
             /\ link[i].status # "ABSENT" /\ link[i].assignment = a
             /\ owner[i] = None /\ owner'[i] = a
             /\ \A k \in Invitations \ {i} : owner'[k] = owner[k]
             /\ \A b \in Assignments :
                   stage'[b] = IF b = a /\ stage[b] = "PENDING"
                               THEN "IN_PROGRESS" ELSE stage[b]
BY DEF CreateAttempt, RequestLinked, Created, Sitting!BeginSitting, TypeOK

LEMMA FinalizeEffect ==
  ASSUME TypeOK, RowsLinked, NEW p \in Requests, RequestLinked(p),
         FinalizeAttempt(p)
  PROVE  LET i == req[p].link
             a == owner[i]
         IN  /\ i \in Invitations /\ a \in Created
             /\ link[i].status # "ABSENT" /\ link[i].assignment = a
             /\ link'[i].status = "USED" /\ link'[i].assignment = a
             /\ outcome'[i] = "scored"
             /\ \A k \in Invitations \ {i} :
                   link'[k] = link[k] /\ outcome'[k] = outcome[k]
             /\ \A b \in Assignments :
                   stage'[b] = IF b = a THEN "COMPLETED" ELSE stage[b]
             /\ owner' = owner
<1>1. /\ req[p].link \in Invitations
      /\ owner[req[p].link] # None
      /\ owner' = owner
  BY DEF FinalizeAttempt, RequestLinked, AttemptOpen, Sitting!CloseSitting
<1>2. /\ link[req[p].link].status # "ABSENT"
      /\ link[req[p].link].assignment = owner[req[p].link]
      /\ owner[req[p].link] \in Created
  BY <1>1 DEF RowsLinked
<1>3. /\ link'[req[p].link].status = "USED"
      /\ link'[req[p].link].assignment = owner[req[p].link]
  BY <1>1, <1>2 DEF FinalizeAttempt, TypeOK, Link
<1> QED
  BY <1>1, <1>2, <1>3 DEF FinalizeAttempt, Sitting!CloseSitting, TypeOK, Created

(* Rows are never deleted, and what identifies them never changes.         *)
RowsGrow ==
  /\ identity # None => identity' = identity
  /\ Created \subseteq Created'
  /\ \A a \in Created : candidate'[a] = candidate[a]
  /\ \A i \in Invitations :
        /\ link[i].status # "ABSENT" =>
              /\ link'[i].status # "ABSENT"
              /\ link'[i].assignment = link[i].assignment
        /\ owner[i] # None => owner'[i] = owner[i]

Linked == TypeOK /\ RowsLinked /\ \A p \in Requests : RequestLinked(p)

LEMMA StepGrows ==
  ASSUME Linked, [Next]_vars
  PROVE  RowsGrow
<1> USE DEF Linked
<1>1. CASE UNCHANGED vars
  BY <1>1 DEF RowsGrow, Created
<1>2. CASE ClosePublicTest
  BY <1>2 DEF ClosePublicTest, RowsGrow, Created
<1>3. ASSUME NEW p \in Requests, Reads(p) \/ RequestDies(p)
      PROVE  RowsGrow
  BY <1>3, ReadsOnly DEF RowsGrow, Created, RequestDies
<1>4. ASSUME NEW p \in Requests, Writes(p)
      PROVE  RowsGrow
  <2>1. ASSUME NEW c \in Candidates, CreateIdentity(p, c)
        PROVE  RowsGrow
    BY <2>1 DEF CreateIdentity, RowsGrow, Created
  <2>2. ASSUME NEW a \in Assignments, CreateAssignment(p, a)
        PROVE  RowsGrow
    BY <2>2, AssignmentEffect DEF CreateAssignment, RowsGrow, Created
  <2>3. ASSUME NEW j \in Invitations,
               CreateInvitation(p, j) \/ RegenerateInvitation(p, j)
        PROVE  RowsGrow
    <3>1. UNCHANGED <<identity, candidate, owner>>
      BY <2>3 DEF CreateInvitation, RegenerateInvitation
    <3>2. link' = link \/ NewLinkFor(j, req[p].assignment)
      BY <2>3, InvitationEffect
    <3> QED
      BY <3>1, <3>2 DEF NewLinkFor, RowsGrow, Created, TypeOK, Link
  <2>4. CASE CreateAttempt(p)
    BY <2>4, AttemptEffect DEF CreateAttempt, RowsGrow, Created
  <2>5. CASE Respond(p) \/ RevealToken(p)
    BY <2>5 DEF Respond, RevealToken, RowsGrow, Created
  <2>6. CASE FinalizeAttempt(p)
    BY <2>6, FinalizeEffect DEF FinalizeAttempt, RowsGrow, Created, TypeOK, Link
  <2>7. CASE RevokeInvitation(p)
    <3>1. UNCHANGED <<identity, candidate, owner>>
      BY <2>7 DEF RevokeInvitation
    <3> QED
      BY <2>7, <3>1, RevocationEffect DEF RowsGrow, Created
  <2> QED
    BY <1>4, <2>1, <2>2, <2>3, <2>4, <2>5, <2>6, <2>7 DEF Writes
<1> QED
  BY <1>1, <1>2, <1>3, <1>4, StepKinds

-----------------------------------------------------------------------------
(* What rows and requests know of each other.                              *)

(* A request that does not move still holds the rows it held.              *)
LEMMA LinkStays ==
  ASSUME RowsGrow, NEW q \in Requests, RequestLinked(q), req'[q] = req[q]
  PROVE  RequestLinked(q)'
BY DEF RowsGrow, RequestLinked

LEMMA IdleLinked ==
  ASSUME NEW p \in Requests, req'[p] = Idle
  PROVE  RequestLinked(p)'
BY DEF RequestLinked, Idle

LEMMA ReadsLinked ==
  ASSUME Linked, OneCandidate, NEW p \in Requests, Reads(p)
  PROVE  RequestLinked(p)'
<1> USE DEF Linked
<1>0. /\ UNCHANGED <<identity, candidate, link, owner>>
      /\ UNCHANGED Created
      /\ Finish(p) => req'[p] = Idle
  BY ReadsOnly DEF Finish, TypeOK, Created
<1>1. CASE StartPublicAttempt(p)
  <2>1. /\ req'[p] = [Idle EXCEPT !.pc = AfterLookup, !.candidate = identity]
    BY <1>1 DEF StartPublicAttempt, TypeOK
  <2> QED
    BY <1>0, <2>1 DEF RequestLinked, Idle, AfterLookup
<1>2. CASE DuplicateSubmission(p)
  BY <1>0, <1>2, IdleLinked DEF DuplicateSubmission
<1>3. CASE CountCompleted(p) \/ CheckVacant(p)
  <2>1. \/ req'[p] = Idle
        \/ req[p].pc = "count" /\ req'[p] = [req[p] EXCEPT !.pc = "assign"]
        \/ /\ req[p].pc = "vacant" /\ req'[p] = [req[p] EXCEPT !.pc = "invite"]
    BY <1>0, <1>3 DEF CountCompleted, CheckVacant, Goto, TypeOK
  <2> QED
    BY <1>0, <2>1, IdleLinked DEF RequestLinked, TypeOK, Step
<1>4. CASE FindActiveAssignment(p)
  <2>1. \/ req'[p] = Idle
        \/ \E a \in Created :
              /\ req[p].pc = "recover"
              /\ req'[p] = [req[p] EXCEPT !.pc = "find", !.assignment = a]
    BY <1>0, <1>4 DEF FindActiveAssignment, ActiveOf, CreatedFor, TypeOK
  <2>2. ASSUME NEW a \in Created, req[p].pc = "recover",
               req'[p] = [req[p] EXCEPT !.pc = "find", !.assignment = a]
        PROVE  RequestLinked(p)'
    BY <1>0, <2>2 DEF RequestLinked, TypeOK, Step
  <2> QED
    BY <2>1, <2>2, IdleLinked
<1>5. CASE FindInvitation(p)
  <2>1. \/ req'[p] = Idle
        \/ \E i \in Invitations :
              /\ link[i].status = "ACTIVE"
              /\ link[i].assignment = req[p].assignment
              /\ req[p].pc = "find"
              /\ req'[p] = [req[p] EXCEPT !.pc = "regenerate", !.link = i]
    BY <1>0, <1>5 DEF FindInvitation, LiveLinks, TypeOK
  <2>2. ASSUME NEW i \in Invitations, link[i].status = "ACTIVE",
               link[i].assignment = req[p].assignment, req[p].pc = "find",
               req'[p] = [req[p] EXCEPT !.pc = "regenerate", !.link = i]
        PROVE  RequestLinked(p)'
    BY <1>0, <2>2 DEF RequestLinked, TypeOK, Step
  <2> QED
    BY <2>1, <2>2, IdleLinked
<1>6. CASE ValidateLink(p) \/ CreateConflict(p)
  <2>1. \/ req'[p] = Idle
        \/ req[p].pc = "start" /\ req'[p] = [req[p] EXCEPT !.pc = "create"]
        \/ /\ req[p].pc \in {"start", "create"}
           /\ owner[req[p].link] # None
           /\ req'[p] = [req[p] EXCEPT !.pc = "respond"]
    BY <1>0, <1>6 DEF ValidateLink, CreateConflict, Goto, TypeOK
  <2> QED
    BY <1>0, <2>1, IdleLinked DEF RequestLinked, TypeOK, Step
<1>7. ASSUME NEW i \in Invitations, SubmitAttempt(p, i)
      PROVE  RequestLinked(p)'
  <2>1. /\ req'[p] = [Idle EXCEPT !.pc = "finalize", !.link = i]
        /\ link[i].status = "ACTIVE" /\ owner[i] # None
    BY <1>7 DEF SubmitAttempt, AttemptOpen, TypeOK
  <2> QED
    BY <1>0, <2>1 DEF RequestLinked, Idle
<1>8. ASSUME NEW i \in Invitations, OpenLink(p, i)
      PROVE  RequestLinked(p)'
  <2>1. /\ req'[p] = [Idle EXCEPT !.pc = "start",
                        !.assignment = link[i].assignment, !.link = i]
        /\ link[i].status # "ABSENT" /\ link[i].assignment \in Created
    BY <1>8 DEF OpenLink, RowsLinked, TypeOK
  <2> QED
    BY <1>0, <2>1 DEF RequestLinked, Idle
<1>9. ASSUME NEW i \in Invitations, CheckRevocable(p, i)
      PROVE  RequestLinked(p)'
  <2>1. /\ req'[p] = [Idle EXCEPT !.pc = "revoke", !.admin = TRUE, !.link = i]
        /\ link[i].status = "ACTIVE"
    BY <1>9 DEF CheckRevocable, TypeOK
  <2> QED
    BY <1>0, <2>1 DEF RequestLinked, Idle
<1>10. ASSUME NEW a \in Assignments, NEW to \in {"find", "vacant"},
              CheckAssignment(p, a, to)
       PROVE  RequestLinked(p)'
  <2>1. /\ req'[p] = [Idle EXCEPT !.pc = to, !.admin = TRUE, !.assignment = a]
        /\ a \in Created
    BY <1>10 DEF CheckAssignment, TypeOK
  <2> QED
    BY <1>0, <2>1 DEF RequestLinked, Idle
<1> QED
  BY <1>1, <1>2, <1>3, <1>4, <1>5, <1>6, <1>7, <1>8, <1>9, <1>10 DEF Reads

LEMMA WritesLinked ==
  ASSUME Linked, RowsGrow, NEW p \in Requests, Writes(p)
  PROVE  RequestLinked(p)'
<1> USE DEF Linked
<1>0. Finish(p) => req'[p] = Idle
  BY DEF Finish, TypeOK
<1>1. ASSUME NEW c \in Candidates, CreateIdentity(p, c)
      PROVE  RequestLinked(p)'
  <2>1. /\ req'[p] = [req[p] EXCEPT !.pc = "count", !.candidate = identity']
        /\ identity' # None
        /\ req[p].pc = "identity"
    BY <1>1, NoneIsNoRow DEF CreateIdentity, TypeOK
  <2> QED
    BY <2>1 DEF RequestLinked, TypeOK, Step
<1>2. ASSUME NEW a \in Assignments, CreateAssignment(p, a)
      PROVE  RequestLinked(p)'
  <2>1. /\ identity # None /\ req[p].candidate = identity
        /\ identity' = identity /\ ~ req[p].admin
    BY <1>2 DEF CreateAssignment, RequestLinked
  <2>2. CASE AssignmentAllowed(req[p].candidate)
    <3>1. /\ req'[p] = [req[p] EXCEPT !.pc = "invite", !.assignment = a]
          /\ a \in Created'
      BY <1>2, <2>1, <2>2 DEF CreateAssignment, TypeOK, Created
    <3> QED
      BY <2>1, <3>1 DEF RequestLinked, TypeOK, Step
  <2>3. CASE ~ AssignmentAllowed(req[p].candidate)
    <3>1. req'[p] = [req[p] EXCEPT !.pc = "recover"]
      BY <1>2, <2>3 DEF CreateAssignment, Goto, TypeOK
    <3> QED
      BY <2>1, <3>1 DEF RequestLinked, TypeOK, Step
  <2> QED
    BY <2>2, <2>3
<1>3. ASSUME NEW j \in Invitations,
             CreateInvitation(p, j) \/ RegenerateInvitation(p, j)
      PROVE  RequestLinked(p)'
  <2>1. /\ UNCHANGED <<identity, candidate, owner>>
        /\ ~ req[p].admin => identity # None /\ req[p].candidate = identity
        /\ req[p].assignment \in Created /\ Created' = Created
    BY <1>3 DEF CreateInvitation, RegenerateInvitation, RequestLinked, Created
  <2>2. CASE req'[p] = Idle
    BY <2>2, IdleLinked
  <2>3. CASE /\ req[p].pc = "invite" /\ ~ req[p].admin
             /\ req'[p] = [req[p] EXCEPT !.pc = "recover"]
    BY <2>1, <2>3 DEF RequestLinked, TypeOK, Step
  <2>4. ASSUME NEW to \in {"reveal", "start"},
               NewLinkFor(j, req[p].assignment),
               req'[p] = [req[p] EXCEPT !.pc = to, !.link = j]
        PROVE  RequestLinked(p)'
    BY <2>1, <2>4 DEF NewLinkFor, RequestLinked, TypeOK, Step
  <2> QED
    BY <1>3, <2>2, <2>3, <2>4, InvitationEffect DEF Held
<1>4. CASE CreateAttempt(p)
  <2>1. /\ req'[p] = [req[p] EXCEPT !.pc = "respond"]
        /\ req[p].pc = "create"
        /\ UNCHANGED <<identity, candidate, link>> /\ Created' = Created
    BY <1>4 DEF CreateAttempt, Goto, TypeOK, Created
  <2>2. owner'[req[p].link] # None
    BY <1>4, AttemptEffect, NoneIsNoRow DEF Created
  <2> QED
    BY <2>1, <2>2 DEF RequestLinked, TypeOK, Step
<1>5. CASE Respond(p) \/ FinalizeAttempt(p) \/ RevealToken(p) \/ RevokeInvitation(p)
  BY <1>0, <1>5, IdleLinked
     DEF Respond, FinalizeAttempt, RevealToken, RevokeInvitation
<1> QED
  BY <1>1, <1>2, <1>3, <1>4, <1>5 DEF Writes

LEMMA RowsLinkedStep ==
  ASSUME Linked, [Next]_vars
  PROVE  RowsLinked'
<1> USE DEF Linked
<1>1. CASE UNCHANGED vars
  BY <1>1 DEF RowsLinked, Created
<1>2. CASE ClosePublicTest
  BY <1>2 DEF ClosePublicTest, RowsLinked, Created
<1>3. ASSUME NEW p \in Requests, Reads(p) \/ RequestDies(p)
      PROVE  RowsLinked'
  BY <1>3, ReadsOnly DEF RequestDies, RowsLinked, Created
<1>4. ASSUME NEW p \in Requests, NEW c \in Candidates, CreateIdentity(p, c)
      PROVE  RowsLinked'
  BY <1>4 DEF CreateIdentity, RowsLinked, Created
<1>5. ASSUME NEW p \in Requests, NEW a \in Assignments, CreateAssignment(p, a)
      PROVE  RowsLinked'
  <2>1. /\ UNCHANGED <<stage, link, owner, outcome, handed, issued>>
        /\ Created \subseteq Created'
    BY <1>5, AssignmentEffect DEF CreateAssignment, Created
  <2> QED
    BY <2>1 DEF RowsLinked
<1>6. ASSUME NEW p \in Requests, NEW j \in Invitations,
             CreateInvitation(p, j) \/ RegenerateInvitation(p, j)
      PROVE  RowsLinked'
  <2>1. /\ UNCHANGED <<candidate, stage, owner, outcome, handed, issued>>
        /\ req[p].assignment \in Created /\ Created' = Created
    BY <1>6 DEF CreateInvitation, RegenerateInvitation, RequestLinked, Created
  <2>2. link' = link \/ NewLinkFor(j, req[p].assignment)
    BY <1>6, InvitationEffect
  <2> QED
    BY <2>1, <2>2 DEF RowsLinked, NewLinkFor
<1>7. ASSUME NEW p \in Requests, CreateAttempt(p)
      PROVE  RowsLinked'
  <2>1. /\ UNCHANGED <<candidate, link, outcome, handed, issued>> /\ Created' = Created
    BY <1>7 DEF CreateAttempt, Sitting!BeginSitting, Created
  <2> QED
    BY <1>7, <2>1, AttemptEffect, NoneIsNoRow DEF RowsLinked, Created
<1>8. ASSUME NEW p \in Requests, Respond(p) \/ RevealToken(p)
      PROVE  RowsLinked'
  BY <1>8 DEF Respond, RevealToken, RequestLinked, RowsLinked, Created
<1>9. ASSUME NEW p \in Requests, FinalizeAttempt(p)
      PROVE  RowsLinked'
  <2>1. /\ UNCHANGED <<candidate, handed, issued>> /\ Created' = Created
        /\ owner[req[p].link] # None
    BY <1>9 DEF FinalizeAttempt, Created, RequestLinked
  <2> QED
    BY <1>9, <2>1, FinalizeEffect DEF RowsLinked, Created
<1>10. ASSUME NEW p \in Requests, RevokeInvitation(p)
       PROVE  RowsLinked'
  <2>1. UNCHANGED <<candidate, stage, owner, outcome, handed, issued>>
    BY <1>10 DEF RevokeInvitation
  <2> QED
    BY <1>10, <2>1, RevocationEffect DEF RowsLinked, Created
<1> QED
  BY <1>1, <1>2, <1>3, <1>4, <1>5, <1>6, <1>7, <1>8, <1>9, <1>10, StepKinds
     DEF Writes

LEMMA LinkedStep ==
  ASSUME Linked, OneCandidate, [Next]_vars
  PROVE  Linked'
<1>1. TypeOK' /\ RowsLinked' /\ RowsGrow
  BY TypeStep, RowsLinkedStep, StepGrows DEF Linked
<1>2. ASSUME NEW q \in Requests
      PROVE  RequestLinked(q)'
  <2>1. CASE req'[q] = req[q]
    BY <1>1, <2>1, LinkStays DEF Linked
  <2>2. CASE req'[q] # req[q]
    <3>1. Reads(q) \/ Writes(q) \/ RequestDies(q)
      <4>1. CASE ClosePublicTest \/ UNCHANGED vars
        BY <2>2, <4>1 DEF ClosePublicTest
      <4>2. ASSUME NEW p \in Requests, Reads(p) \/ Writes(p) \/ RequestDies(p)
            PROVE  p = q
        BY <2>2, <4>2, OnlyOneMoves DEF Linked
      <4> QED
        BY <4>1, <4>2, StepKinds
    <3>2. CASE RequestDies(q)
      BY <3>2, IdleLinked DEF RequestDies, Finish, Linked, TypeOK
    <3> QED
      BY <1>1, <3>1, <3>2, ReadsLinked, WritesLinked
  <2> QED
    BY <2>1, <2>2
<1> QED
  BY <1>1, <1>2 DEF Linked

-----------------------------------------------------------------------------
(* The identity, its active assignment and its quota.                      *)

LEMMA CandidateStep ==
  ASSUME Linked, OneCandidate, [Next]_vars
  PROVE  OneCandidate'
<1> USE DEF Linked
<1>1. CASE UNCHANGED <<identity, candidate>>
  BY <1>1 DEF OneCandidate, Created
<1>2. ASSUME NEW p \in Requests, NEW c \in Candidates, CreateIdentity(p, c)
      PROVE  OneCandidate'
  BY <1>2 DEF CreateIdentity, OneCandidate, Created, TypeOK
<1>3. ASSUME NEW p \in Requests, NEW a \in Assignments, CreateAssignment(p, a)
      PROVE  OneCandidate'
  <2>1. identity' = identity
    BY <1>3 DEF CreateAssignment
  <2> QED
    BY <1>3, <2>1, AssignmentEffect DEF OneCandidate, Created
<1>4. ASSUME NEW p \in Requests, Reads(p) \/ RequestDies(p)
      PROVE  UNCHANGED <<identity, candidate>>
  BY <1>4, ReadsOnly DEF RequestDies
<1>5. ASSUME NEW p \in Requests, Writes(p)
      PROVE  \/ UNCHANGED <<identity, candidate>>
             \/ \E c \in Candidates : CreateIdentity(p, c)
             \/ \E a \in Assignments : CreateAssignment(p, a)
  BY <1>5 DEF Writes, CreateInvitation, RegenerateInvitation, CreateAttempt,
     Respond, FinalizeAttempt, RevealToken, RevokeInvitation
<1>6. CASE ClosePublicTest \/ UNCHANGED vars
  BY <1>1, <1>6 DEF ClosePublicTest
<1> QED
  BY <1>1, <1>2, <1>3, <1>4, <1>5, <1>6, StepKinds

(* The only steps that touch the assignments of the candidate.             *)
LEMMA AssignmentsMove ==
  ASSUME Linked, [Next]_vars
  PROVE  \/ UNCHANGED <<candidate, stage>>
         \/ \E p \in Requests :
               \/ \E a \in Assignments : CreateAssignment(p, a)
               \/ CreateAttempt(p)
               \/ FinalizeAttempt(p)
<1>1. ASSUME NEW p \in Requests, Reads(p) \/ RequestDies(p)
      PROVE  UNCHANGED <<candidate, stage>>
  BY <1>1, ReadsOnly DEF RequestDies
<1>2. ASSUME NEW p \in Requests, Writes(p)
      PROVE  \/ UNCHANGED <<candidate, stage>>
             \/ \E a \in Assignments : CreateAssignment(p, a)
             \/ CreateAttempt(p)
             \/ FinalizeAttempt(p)
  BY <1>2 DEF Writes, CreateIdentity, CreateInvitation, RegenerateInvitation,
     Respond, RevealToken, RevokeInvitation
<1>3. CASE ClosePublicTest \/ UNCHANGED vars
  BY <1>3 DEF ClosePublicTest
<1> QED
  BY <1>1, <1>2, <1>3, StepKinds

LEMMA ActiveStep ==
  ASSUME Linked, OneCandidate, ActiveIsUnique, [Next]_vars
  PROVE  ActiveIsUnique'
<1> USE DEF Linked
<1>1. CASE UNCHANGED <<candidate, stage>>
  BY <1>1 DEF ActiveIsUnique, ActiveOf, CreatedFor, Created
<1>2. ASSUME NEW p \in Requests, NEW a \in Assignments, CreateAssignment(p, a)
      PROVE  ActiveIsUnique'
  <2>1. /\ stage' = stage
        /\ req[p].candidate = identity
    BY <1>2 DEF CreateAssignment, RequestLinked
  <2>2. CASE candidate' = candidate
    BY <1>1, <2>1, <2>2
  <2>3. CASE candidate' # candidate
    <3>1. /\ ActiveOf(identity) = {}
          /\ Created' = Created \cup {a}
          /\ candidate'[a] = identity
          /\ \A b \in Assignments \ {a} : candidate'[b] = candidate[b]
      BY <1>2, <2>1, <2>3, AssignmentEffect
    <3>2. \A b \in Created : stage[b] = "COMPLETED"
      BY <3>1 DEF ActiveOf, CreatedFor, OneCandidate
    <3>3. \A c \in Candidates : ActiveOf(c)' \subseteq {a}
      BY <2>1, <3>1, <3>2 DEF ActiveOf, CreatedFor, Created
    <3> QED
      BY <3>3 DEF ActiveIsUnique
  <2> QED
    BY <2>2, <2>3
<1>3. ASSUME NEW p \in Requests, CreateAttempt(p) \/ FinalizeAttempt(p)
      PROVE  ActiveIsUnique'
  <2>1. candidate' = candidate
    BY <1>3 DEF CreateAttempt, FinalizeAttempt
  <2>2. \A b \in Assignments : stage[b] = "COMPLETED" => stage'[b] = "COMPLETED"
    BY <1>3, AttemptEffect, FinalizeEffect
  <2>3. \A c \in Candidates : ActiveOf(c)' \subseteq ActiveOf(c)
    BY <2>1, <2>2 DEF ActiveOf, CreatedFor, Created
  <2> QED
    BY <2>3 DEF ActiveIsUnique
<1> QED
  BY <1>1, <1>2, <1>3, AssignmentsMove

(* What is active is one assignment at most: the others are completed.     *)
LEMMA AllButOneCompleted ==
  ASSUME TypeOK, OneCandidate, ActiveIsUnique,
         NEW a \in Created, stage[a] # "COMPLETED"
  PROVE  Created = Completed \cup {a}
<1>1. identity \in Candidates
  BY DEF OneCandidate, Created, TypeOK
<1>2. \A b \in Created : stage[b] # "COMPLETED" => b \in ActiveOf(identity)
  BY DEF ActiveOf, CreatedFor, OneCandidate
<1> QED
  BY <1>1, <1>2 DEF ActiveIsUnique, Completed

LEMMA CompletedFinite ==
  ASSUME RoomOrBounded
  PROVE  /\ IsFiniteSet(Completed)
         /\ Cardinality(Completed) \in Nat
         /\ Cardinality(Created) \in Nat
<1>1. Completed \in SUBSET Created
  BY DEF Completed
<1> QED
  BY <1>1, FS_Subset, FS_CardinalityType DEF RoomOrBounded

LEMMA PastCountFinite ==
  /\ IsFiniteSet(PastCount)
  /\ Cardinality(PastCount) \in Nat
  /\ Cardinality(Requests) \in Nat \ {0}
<1>1. PastCount \in SUBSET Requests
  BY DEF PastCount
<1>2. IsFiniteSet(Requests) /\ Requests # {}
  BY RequestsAssumption
<1>3. IsFiniteSet(PastCount)
  BY <1>1, <1>2, FS_Subset
<1>4. Cardinality(Requests) # 0
  BY <1>2, FS_EmptySet
<1> QED
  BY <1>2, <1>3, <1>4, FS_CardinalityType

LEMMA PastCountFiniteNext ==
  /\ IsFiniteSet(PastCount')
  /\ Cardinality(PastCount') \in Nat
<1>1. PastCount' \in SUBSET Requests
  BY DEF PastCount
<1>2. IsFiniteSet(Requests)
  BY RequestsAssumption
<1> QED
  BY <1>1, <1>2, FS_Subset, FS_CardinalityType

(* Only a successful count adds a request to PastCount.                    *)
LEMMA PastCountMoves ==
  ASSUME Linked, [Next]_vars
  PROVE  \/ PastCount' \subseteq PastCount
         \/ \E p \in Requests :
               CountCompleted(p) /\ ~ OverQuota(req[p].candidate)
<1> USE DEF Linked
<1>1. CASE UNCHANGED vars \/ ClosePublicTest
  BY <1>1 DEF ClosePublicTest, PastCount
<1>2. ASSUME NEW p \in Requests, Reads(p) \/ Writes(p) \/ RequestDies(p)
      PROVE  \/ PastCount' \subseteq PastCount
             \/ CountCompleted(p) /\ ~ OverQuota(req[p].candidate)
  <2>1. \A q \in Requests \ {p} : req'[q] = req[q]
    BY <1>2, OnlyOneMoves
  <2>2. Finish(p) => req'[p].pc = "idle"
    BY DEF Finish, Idle, TypeOK
  <2>3. \A to \in {"assign", "recover", "create", "respond", "invite"} :
           Goto(p, to) => req'[p].pc = to
    BY DEF Goto, TypeOK, Step
  <2>4. CASE req'[p].pc # "assign"
    BY <2>1, <2>4 DEF PastCount
  <2>5. CASE CountCompleted(p)
    BY <2>2, <2>4, <2>5 DEF CountCompleted
  <2>6. ASSUME Reads(p), ~ CountCompleted(p)
        PROVE  req'[p].pc # "assign"
    <3>1. CASE StartPublicAttempt(p)
      <4>1. req'[p] = [Idle EXCEPT !.pc = AfterLookup, !.candidate = identity]
        BY <3>1 DEF StartPublicAttempt, TypeOK
      <4> QED
        BY <4>1 DEF AfterLookup, Idle
    <3>2. CASE \/ DuplicateSubmission(p) \/ ValidateLink(p)
               \/ CreateConflict(p) \/ CheckVacant(p)
      BY <2>2, <2>3, <3>2
         DEF DuplicateSubmission, ValidateLink, CreateConflict, CheckVacant
    <3>3. CASE FindActiveAssignment(p)
      <4>1. \/ req'[p].pc = "idle"
            \/ \E a \in ActiveOf(req[p].candidate) :
                  req' = [req EXCEPT ![p].pc = "find", ![p].assignment = a]
        BY <2>2, <3>3 DEF FindActiveAssignment
      <4>2. ASSUME NEW a,
                   req' = [req EXCEPT ![p].pc = "find", ![p].assignment = a]
            PROVE  req'[p].pc = "find"
        BY <4>2 DEF TypeOK, Step
      <4> QED
        BY <4>1, <4>2
    <3>4. CASE FindInvitation(p)
      <4>1. \/ req'[p].pc = "idle"
            \/ \E i \in LiveLinks(req[p].assignment) :
                  req' = [req EXCEPT ![p].pc = "regenerate", ![p].link = i]
        BY <2>2, <3>4 DEF FindInvitation
      <4>2. ASSUME NEW i,
                   req' = [req EXCEPT ![p].pc = "regenerate", ![p].link = i]
            PROVE  req'[p].pc = "regenerate"
        BY <4>2 DEF TypeOK, Step
      <4> QED
        BY <4>1, <4>2
    <3>5. ASSUME NEW i \in Invitations,
                 SubmitAttempt(p, i) \/ OpenLink(p, i) \/ CheckRevocable(p, i)
          PROVE  req'[p].pc # "assign"
      BY <3>5 DEF SubmitAttempt, OpenLink, CheckRevocable, Idle, TypeOK
    <3>6. ASSUME NEW a \in Assignments, NEW to \in {"find", "vacant"},
                 CheckAssignment(p, a, to)
          PROVE  req'[p].pc # "assign"
      BY <3>6 DEF CheckAssignment, Idle, TypeOK
    <3> QED
      BY <2>6, <3>1, <3>2, <3>3, <3>4, <3>5, <3>6 DEF Reads
  <2>7. ASSUME Writes(p)
        PROVE  req'[p].pc # "assign"
    <3>1. ASSUME NEW c \in Candidates, CreateIdentity(p, c)
          PROVE  req'[p].pc # "assign"
      <4>1. req'[p] = [req[p] EXCEPT !.pc = "count", !.candidate = identity']
        BY <3>1 DEF CreateIdentity, TypeOK
      <4> QED
        BY <4>1 DEF TypeOK, Step
    <3>2. ASSUME NEW a \in Assignments, CreateAssignment(p, a)
          PROVE  req'[p].pc # "assign"
      <4>1. \/ req'[p] = [req[p] EXCEPT !.pc = "invite", !.assignment = a]
            \/ req'[p].pc = "recover"
        BY <2>3, <3>2 DEF CreateAssignment, TypeOK
      <4> QED
        BY <4>1 DEF TypeOK, Step
    <3>3. ASSUME NEW j \in Invitations,
                 CreateInvitation(p, j) \/ RegenerateInvitation(p, j)
          PROVE  req'[p].pc # "assign"
      <4>1. CASE req'[p] = Idle
        BY <4>1 DEF Idle
      <4>2. CASE req'[p] = [req[p] EXCEPT !.pc = "recover"]
        BY <4>2 DEF TypeOK, Step
      <4>3. CASE req'[p] = Held(p, j)
        BY <4>3 DEF Held, TypeOK, Step
      <4> QED
        BY <3>3, <4>1, <4>2, <4>3, InvitationEffect
    <3>4. CASE \/ CreateAttempt(p) \/ Respond(p) \/ FinalizeAttempt(p)
               \/ RevealToken(p) \/ RevokeInvitation(p)
      BY <2>2, <2>3, <3>4 DEF CreateAttempt, Respond, FinalizeAttempt,
         RevealToken, RevokeInvitation
    <3> QED
      BY <2>7, <3>1, <3>2, <3>3, <3>4 DEF Writes
  <2>8. CASE RequestDies(p)
    BY <2>2, <2>4, <2>8 DEF RequestDies
  <2> QED
    BY <1>2, <2>4, <2>5, <2>6, <2>7, <2>8
<1> QED
  BY <1>1, <1>2, StepKinds

(* The counting argument.  While the quota has room there is nothing to    *)
(* show; the submission that uses it up leaves at most the other requests  *)
(* past the count, and from then on each of them makes one assignment at   *)
(* most.                                                                   *)
LEMMA RoomStep ==
  ASSUME Linked, OneCandidate, ActiveIsUnique, RoomOrBounded, [Next]_vars
  PROVE  RoomOrBounded'
<1> USE DEF Linked
<1>1. /\ Cardinality(Completed) \in Nat /\ Cardinality(Created) \in Nat
      /\ IsFiniteSet(Completed) /\ IsFiniteSet(Created)
      /\ Cardinality(PastCount) \in Nat /\ IsFiniteSet(PastCount)
      /\ Cardinality(PastCount') \in Nat
      /\ Cardinality(Requests) \in Nat \ {0} /\ FreeAttempts \in Nat \ {0}
  BY CompletedFinite, PastCountFinite, PastCountFiniteNext, QuotaAssumption
     DEF RoomOrBounded
<1>2. PastCount' \subseteq PastCount =>
         Cardinality(PastCount') <= Cardinality(PastCount)
  BY <1>1, FS_Subset
<1>3. CASE /\ Created' = Created /\ Completed' = Completed
           /\ PastCount' \subseteq PastCount
  BY <1>1, <1>2, <1>3 DEF RoomOrBounded
<1>4. ASSUME NEW p \in Requests,
             CountCompleted(p), ~ OverQuota(req[p].candidate)
      PROVE  RoomOrBounded'
  <2>1. UNCHANGED <<candidate, stage>> /\ req[p].candidate = identity
    BY <1>4 DEF CountCompleted, RequestLinked
  <2>2. CompletedOf(identity) = Completed
    BY DEF CompletedOf, CreatedFor, Completed, OneCandidate
  <2>3. Created' = Created /\ Completed' = Completed
    BY <2>1 DEF Created, Completed
  <2>4. Cardinality(Completed) < FreeAttempts
    BY <1>1, <1>4, <2>1, <2>2 DEF OverQuota
  <2> QED
    BY <2>3, <2>4 DEF RoomOrBounded
<1>5. CASE UNCHANGED <<candidate, stage>> /\ PastCount' \subseteq PastCount
  BY <1>3, <1>5 DEF Created, Completed
<1>6. ASSUME NEW p \in Requests, NEW a \in Assignments, CreateAssignment(p, a),
             PastCount' \subseteq PastCount
      PROVE  RoomOrBounded'
  <2>1. stage' = stage
    BY <1>6 DEF CreateAssignment
  <2>2. CASE candidate' = candidate
    BY <1>5, <1>6, <2>1, <2>2
  <2>3. CASE candidate' # candidate
    <3>1. a \notin Created /\ Created' = Created \cup {a}
      BY <1>6, <2>3, AssignmentEffect
    <3>2. stage[a] = "PENDING"
      BY <3>1 DEF RowsLinked
    <3>3. Completed' = Completed
      BY <2>1, <3>1, <3>2 DEF Completed
    <3>4. IsFiniteSet(Created') /\ Cardinality(Created') = Cardinality(Created) + 1
      BY <1>1, <3>1, FS_AddElement
    <3>5. p \in PastCount /\ p \notin PastCount'
      <4>1. AssignmentAllowed(req[p].candidate)
        BY <1>6, <2>3 DEF CreateAssignment
      <4>2. req'[p] = [req[p] EXCEPT !.pc = "invite", !.assignment = a]
        BY <1>6, <4>1 DEF CreateAssignment, TypeOK
      <4>3. req'[p].pc = "invite"
        BY <4>2 DEF TypeOK, Step
      <4> QED
        BY <1>6, <4>3 DEF CreateAssignment, PastCount
    <3>6. Cardinality(PastCount') < Cardinality(PastCount)
      <4>1. Cardinality(PastCount') # Cardinality(PastCount)
        BY <1>1, <1>6, <3>5, FS_Subset
      <4> QED
        BY <1>1, <1>2, <1>6, <4>1
    <3> QED
      BY <1>1, <3>3, <3>4, <3>6 DEF RoomOrBounded
  <2> QED
    BY <2>2, <2>3
<1>7. ASSUME NEW p \in Requests, CreateAttempt(p), PastCount' \subseteq PastCount
      PROVE  RoomOrBounded'
  <2>1. /\ candidate' = candidate
        /\ \A b \in Assignments : stage'[b] = "COMPLETED" <=> stage[b] = "COMPLETED"
    BY <1>7, AttemptEffect DEF CreateAttempt
  <2>2. Created' = Created /\ Completed' = Completed
    BY <2>1 DEF Created, Completed
  <2> QED
    BY <1>3, <1>7, <2>2
<1>8. ASSUME NEW p \in Requests, FinalizeAttempt(p),
             PastCount' \subseteq PastCount
      PROVE  RoomOrBounded'
  <2> DEFINE a == owner[req[p].link]
  <2>1. /\ a \in Created
        /\ \A b \in Assignments :
              stage'[b] = IF b = a THEN "COMPLETED" ELSE stage[b]
    BY <1>8, FinalizeEffect
  <2>2. Created' = Created
    BY <1>8 DEF FinalizeAttempt, Created
  <2>3. CASE stage[a] = "COMPLETED"
    <3>1. Completed' = Completed
      BY <2>1, <2>2, <2>3 DEF Completed, Created
    <3> QED
      BY <1>3, <1>8, <2>2, <3>1
  <2>4. CASE /\ stage[a] # "COMPLETED"
             /\ Cardinality(Completed) < FreeAttempts
    <3>1. Created = Completed \cup {a}
      BY <2>1, <2>4, AllButOneCompleted
    <3>2. Cardinality(Created) <= Cardinality(Completed) + 1
      <4>1. \/ Cardinality(Created) = Cardinality(Completed)
            \/ Cardinality(Created) = Cardinality(Completed) + 1
        BY <1>1, <3>1, FS_AddElement
      <4> QED
        BY <1>1, <4>1
    <3>3. p \notin PastCount
      BY <1>8 DEF FinalizeAttempt, PastCount
    <3>4. Cardinality(PastCount) < Cardinality(Requests)
      <4>1. PastCount \in SUBSET Requests /\ PastCount # Requests
        BY <3>3 DEF PastCount
      <4>2. IsFiniteSet(Requests)
        BY RequestsAssumption
      <4>3. /\ Cardinality(PastCount) <= Cardinality(Requests)
            /\ Cardinality(Requests) = Cardinality(PastCount) => Requests = PastCount
        BY <4>1, <4>2, FS_Subset
      <4> QED
        BY <1>1, <4>1, <4>3
    <3>5. Cardinality(Created') + Cardinality(PastCount')
            < FreeAttempts + Cardinality(Requests)
      BY <1>1, <1>2, <1>8, <2>2, <2>4, <3>2, <3>4
    <3> QED
      BY <1>1, <2>2, <3>5 DEF RoomOrBounded
  <2>5. CASE Cardinality(Created) + Cardinality(PastCount)
               < FreeAttempts + Cardinality(Requests)
    BY <1>1, <1>2, <1>8, <2>2, <2>5 DEF RoomOrBounded
  <2> QED
    BY <2>3, <2>4, <2>5 DEF RoomOrBounded
<1> QED
  BY <1>4, <1>5, <1>6, <1>7, <1>8, AssignmentsMove, PastCountMoves

LEMMA BoundHolds ==
  ASSUME TypeOK, OneCandidate, ActiveIsUnique, RoomOrBounded
  PROVE  OverrunIsBounded
<1>1. /\ Cardinality(Completed) \in Nat /\ Cardinality(Created) \in Nat
      /\ IsFiniteSet(Completed)
      /\ Cardinality(PastCount) \in Nat
      /\ Cardinality(Requests) \in Nat \ {0} /\ FreeAttempts \in Nat \ {0}
  BY CompletedFinite, PastCountFinite, QuotaAssumption
<1>2. CASE Completed = Created
  BY <1>1, <1>2 DEF RoomOrBounded, OverrunIsBounded
<1>3. ASSUME NEW a \in Created, stage[a] # "COMPLETED"
      PROVE  OverrunIsBounded
  <2>1. Created = Completed \cup {a}
    BY <1>3, AllButOneCompleted
  <2>2. Cardinality(Created) <= Cardinality(Completed) + 1
    <3>1. \/ Cardinality(Created) = Cardinality(Completed)
          \/ Cardinality(Created) = Cardinality(Completed) + 1
      BY <1>1, <2>1, FS_AddElement
    <3> QED
      BY <1>1, <3>1
  <2> QED
    BY <1>1, <2>2 DEF RoomOrBounded, OverrunIsBounded
<1> QED
  BY <1>2, <1>3 DEF Completed

LEMMA ActiveBound ==
  ASSUME RoomOrBounded, ActiveIsUnique
  PROVE  OneActiveAssignment
<1>1. ASSUME NEW c \in Candidates
      PROVE  Cardinality(ActiveOf(c)) <= 1
  <2>1. ActiveOf(c) = {} \/ \E a \in ActiveOf(c) : ActiveOf(c) = {a}
    BY DEF ActiveIsUnique
  <2>2. CASE ActiveOf(c) = {}
    <3>1. Cardinality(ActiveOf(c)) = 0
      BY <2>2, FS_EmptySet
    <3> QED
      BY <3>1
  <2>3. ASSUME NEW a, ActiveOf(c) = {a}
        PROVE  Cardinality(ActiveOf(c)) <= 1
    <3>1. Cardinality(ActiveOf(c)) = 1
      BY <2>3, FS_Singleton
    <3> QED
      BY <3>1
  <2> QED
    BY <2>1, <2>2, <2>3
<1> QED
  BY <1>1 DEF OneActiveAssignment

-----------------------------------------------------------------------------
(* Live links and who holds them.                                          *)

(* The request that has created an assignment leaves that place by trying  *)
(* to create its link, or by dying.                                        *)
LEMMA InviteStays ==
  ASSUME TypeOK, NEW p \in Requests, Reads(p) \/ Writes(p),
         \A j \in Invitations : ~ CreateInvitation(p, j),
         NEW q \in Requests, req[q].pc = "invite"
  PROVE  req'[q] = req[q]
<1>1. CASE q = p
  BY <1>1 DEF Reads, Writes, StartPublicAttempt, CountCompleted,
     FindActiveAssignment, FindInvitation, ValidateLink, CreateConflict,
     DuplicateSubmission, CheckVacant, SubmitAttempt, OpenLink, CheckRevocable,
     CheckAssignment, CreateIdentity, CreateAssignment, RegenerateInvitation,
     CreateAttempt, Respond, FinalizeAttempt, RevealToken, RevokeInvitation
<1>2. CASE q # p
  BY <1>2, OnlyOneMoves
<1> QED
  BY <1>1, <1>2

(* OrphansHaveACause says that every assignment is recoverable, or was     *)
(* withdrawn.                                                              *)
Recoverable(a) ==
  \/ stage[a] = "COMPLETED"
  \/ \E i \in Invitations : link[i].status = "ACTIVE" /\ link[i].assignment = a
  \/ \E p \in Requests : /\ req[p].pc = "invite" /\ ~ req[p].admin
                         /\ req[p].assignment = a
  \/ a \in withdrawn

LEMMA OrphansAsRecoverable ==
  OrphansHaveACause <=> (deaths = 0 => \A a \in Created : Recoverable(a))
BY DEF OrphansHaveACause, AboutToInvite, LiveLinks, Recoverable

(* An insert makes its own assignment recoverable, or fails and leaves     *)
(* everything that was.                                                    *)
LEMMA InsertRecovers ==
  ASSUME Linked, NEW p \in Requests, NEW j \in Invitations,
         CreateInvitation(p, j) \/ RegenerateInvitation(p, j),
         NEW a \in Assignments, Recoverable(a)
  PROVE  Recoverable(a)'
<1> USE DEF Linked
<1>1. stage' = stage
  BY DEF CreateInvitation, RegenerateInvitation
<1>2. \A q \in Requests \ {p} : req'[q] = req[q]
  BY OnlyOneMoves DEF Writes
<1>3. CASE /\ NewLinkFor(j, req[p].assignment)
           /\ withdrawn' = withdrawn \ {req[p].assignment}
  <2>1. CASE a = req[p].assignment
    BY <1>3, <2>1 DEF NewLinkFor, Recoverable
  <2>2. CASE a # req[p].assignment
    <3>1. ASSUME NEW i \in Invitations, link[i].status = "ACTIVE",
                 link[i].assignment = a
          PROVE  link'[i] = link[i]
      BY <1>3, <2>2, <3>1 DEF NewLinkFor
    <3> QED
      BY <1>1, <1>2, <1>3, <2>2, <3>1 DEF Recoverable
  <2> QED
    BY <2>1, <2>2
<1>4. CASE /\ link' = link /\ withdrawn' = withdrawn
           /\ req[p].pc = "invite" => req[p].admin
  BY <1>1, <1>2, <1>4 DEF Recoverable
<1>5. CASE /\ link' = link /\ withdrawn' = withdrawn
           /\ LiveLinks(req[p].assignment) # {}
  <2>1. CASE a = req[p].assignment
    BY <1>5, <2>1 DEF LiveLinks, Recoverable
  <2>2. CASE a # req[p].assignment
    BY <1>1, <1>2, <1>5, <2>2 DEF Recoverable
  <2> QED
    BY <2>1, <2>2
<1> QED
  BY <1>3, <1>4, <1>5, InvitationEffect

LEMMA RecoverableStays ==
  ASSUME Linked, NEW p \in Requests, Reads(p) \/ Writes(p),
         NEW a \in Assignments, Recoverable(a)
  PROVE  Recoverable(a)'
<1> USE DEF Linked
<1>1. ASSUME NEW j \in Invitations,
             CreateInvitation(p, j) \/ RegenerateInvitation(p, j)
      PROVE  Recoverable(a)'
  BY <1>1, InsertRecovers
<1>2. ASSUME \A j \in Invitations : ~ CreateInvitation(p, j)
      PROVE  \A q \in Requests : req[q].pc = "invite" => req'[q] = req[q]
  BY <1>2, InviteStays
<1>3. CASE UNCHANGED <<stage, link, withdrawn>>
  BY <1>1, <1>2, <1>3 DEF Recoverable
<1>4. CASE CreateAttempt(p)
  <2>1. /\ UNCHANGED <<link, withdrawn>>
        /\ \A j \in Invitations : ~ CreateInvitation(p, j)
        /\ stage[a] = "COMPLETED" => stage'[a] = "COMPLETED"
    BY <1>4, AttemptEffect DEF CreateAttempt, CreateInvitation
  <2> QED
    BY <1>2, <2>1 DEF Recoverable
<1>5. CASE FinalizeAttempt(p)
  <2>1. /\ \A j \in Invitations : ~ CreateInvitation(p, j)
        /\ withdrawn' = withdrawn
    BY <1>5 DEF FinalizeAttempt, CreateInvitation
  <2> QED
    BY <1>2, <1>5, <2>1, FinalizeEffect DEF Recoverable
<1>6. CASE RevokeInvitation(p)
  <2>1. /\ \A j \in Invitations : ~ CreateInvitation(p, j)
        /\ stage' = stage
    BY <1>6 DEF RevokeInvitation, CreateInvitation
  <2> QED
    BY <1>2, <1>6, <2>1, RevocationEffect DEF Recoverable
<1>7. CASE Reads(p)
  BY <1>3, <1>7, ReadsOnly
<1>8. ASSUME NEW b \in Assignments, CreateAssignment(p, b)
      PROVE  UNCHANGED <<stage, link, withdrawn>>
  BY <1>8 DEF CreateAssignment
<1>9. ASSUME NEW c \in Candidates, CreateIdentity(p, c)
      PROVE  UNCHANGED <<stage, link, withdrawn>>
  BY <1>9 DEF CreateIdentity
<1>10. CASE Respond(p) \/ RevealToken(p)
  BY <1>3, <1>10 DEF Respond, RevealToken
<1> QED
  BY <1>1, <1>3, <1>4, <1>5, <1>6, <1>7, <1>8, <1>9, <1>10 DEF Writes

(* Only the death of a request is counted.                                 *)
LEMMA DeathsStay ==
  ASSUME NEW p \in Requests, Reads(p) \/ Writes(p)
  PROVE  deaths' = deaths /\ test' = test /\ handed \cup issued \subseteq
           handed' \cup issued'
<1>1. CASE Reads(p)
  BY <1>1, ReadsOnly
<1>2. CASE Writes(p)
  BY <1>2 DEF Writes, CreateIdentity, CreateAssignment, CreateInvitation,
     RegenerateInvitation, CreateAttempt, Respond, FinalizeAttempt,
     RevealToken, RevokeInvitation
<1> QED
  BY <1>1, <1>2

LEMMA OrphanStep ==
  ASSUME Linked, OrphansHaveACause, [Next]_vars
  PROVE  OrphansHaveACause'
<1> USE DEF Linked
<1> SUFFICES ASSUME deaths' = 0, NEW a \in Created'
             PROVE  Recoverable(a)'
  BY DEF OrphansHaveACause, AboutToInvite, LiveLinks, Recoverable
<1>1. CASE ClosePublicTest \/ UNCHANGED vars
  <2>1. UNCHANGED <<candidate, stage, link, req, deaths, withdrawn>>
    BY <1>1 DEF ClosePublicTest
  <2> QED
    BY <2>1, OrphansAsRecoverable DEF Recoverable, Created
<1>2. ASSUME NEW p \in Requests, RequestDies(p)
      PROVE  FALSE
  BY <1>2 DEF RequestDies, TypeOK
<1>3. ASSUME NEW p \in Requests, Reads(p) \/ Writes(p)
      PROVE  Recoverable(a)'
  <2>1. deaths = 0
    BY <1>3, DeathsStay
  <2>2. \A b \in Created : Recoverable(b)
    BY <2>1, OrphansAsRecoverable
  <2>3. CASE a \in Created
    BY <1>3, <2>2, <2>3, RecoverableStays DEF Created
  <2>4. CASE a \notin Created
    <3>1. PICK b \in Assignments : CreateAssignment(p, b)
      BY <1>3, <2>4, ReadsOnly DEF Writes, CreateIdentity, CreateInvitation,
         RegenerateInvitation, CreateAttempt, Respond, FinalizeAttempt,
         RevealToken, RevokeInvitation, Created
    <3>2. candidate' # candidate
      BY <2>4 DEF Created
    <3>3. a = b
      BY <2>4, <3>1, <3>2, AssignmentEffect
    <3>4. req'[p] = [req[p] EXCEPT !.pc = "invite", !.assignment = a]
      BY <3>1, <3>2, <3>3 DEF CreateAssignment, TypeOK
    <3>5. ~ req[p].admin
      BY <3>1 DEF CreateAssignment, RequestLinked
    <3>6. req'[p].pc = "invite" /\ req'[p].assignment = a /\ ~ req'[p].admin
      BY <3>4, <3>5 DEF TypeOK, Step
    <3> QED
      BY <3>6 DEF Recoverable
  <2> QED
    BY <2>3, <2>4
<1> QED
  BY <1>1, <1>2, <1>3, StepKinds

LEMMA ArriveStep ==
  ASSUME Linked, LiveLinksArrive, [Next]_vars
  PROVE  LiveLinksArrive'
<1> USE DEF Linked
<1> SUFFICES ASSUME deaths' = 0, test' # "ARCHIVED",
                    NEW i \in Invitations, link'[i].status = "ACTIVE"
             PROVE  i \in handed' \cup issued' \/ \E p \in Requests : Carries(p, i)'
  BY DEF LiveLinksArrive
<1> DEFINE Arrives == i \in handed \cup issued \/ \E p \in Requests : Carries(p, i)
<1>1. deaths = 0 /\ test # "ARCHIVED" /\ link[i].status = "ACTIVE" => Arrives
  BY DEF LiveLinksArrive
<1>2. CASE ClosePublicTest \/ UNCHANGED vars
  BY <1>1, <1>2 DEF ClosePublicTest, Carries
<1>3. ASSUME NEW p \in Requests, RequestDies(p)
      PROVE  FALSE
  BY <1>3 DEF RequestDies, TypeOK
<1>4. ASSUME NEW p \in Requests, Reads(p) \/ Writes(p)
      PROVE  i \in handed' \cup issued' \/ \E q \in Requests : Carries(q, i)'
  <2>1. /\ deaths = 0 /\ test # "ARCHIVED"
        /\ handed \cup issued \subseteq handed' \cup issued'
    BY <1>4, DeathsStay
  <2>2. \A q \in Requests \ {p} : req'[q] = req[q]
    BY <1>4, OnlyOneMoves
  <2>3. CASE link[i].status = "ACTIVE" /\ ~ Carries(p, i)
    BY <1>1, <2>1, <2>2, <2>3 DEF Carries
  <2>4. CASE link[i].status = "ACTIVE" /\ Carries(p, i)
    <3>1. CASE \/ req'[p] = [req[p] EXCEPT !.pc = "create"]
               \/ req'[p] = [req[p] EXCEPT !.pc = "respond"]
      BY <2>4, <3>1 DEF Carries, TypeOK, Step
    <3>2. CASE ValidateLink(p)
      BY <2>1, <2>4, <3>1, <3>2 DEF ValidateLink, Carries, Goto, TypeOK
    <3>3. CASE CreateAttempt(p)
      BY <3>1, <3>3 DEF CreateAttempt, Goto, TypeOK
    <3>4. CASE CreateConflict(p)
      <4>1. outcome[i] = None /\ owner[i] # None
        BY <2>4, <3>4 DEF RowsLinked, CreateConflict, Carries
      <4> QED
        BY <2>4, <3>1, <3>4, <4>1
           DEF CreateConflict, AttemptOpen, Carries, Goto, TypeOK
    <3>5. CASE Respond(p) \/ RevealToken(p)
      BY <2>4, <3>5 DEF Respond, RevealToken, Carries
    <3> QED
      BY <1>4, <2>4, <3>2, <3>3, <3>4, <3>5 DEF Carries, Reads, Writes,
         StartPublicAttempt, CountCompleted, FindActiveAssignment,
         FindInvitation, DuplicateSubmission, CheckVacant, SubmitAttempt,
         OpenLink, CheckRevocable, CheckAssignment, CreateIdentity,
         CreateAssignment, CreateInvitation, RegenerateInvitation,
         FinalizeAttempt, RevokeInvitation
  <2>5. CASE link[i].status # "ACTIVE"
    <3>1. PICK j \in Invitations :
             CreateInvitation(p, j) \/ RegenerateInvitation(p, j)
      <4>1. link' # link
        BY <2>5
      <4>2. ~ FinalizeAttempt(p)
        BY <2>5, FinalizeEffect
      <4>3. ~ RevokeInvitation(p)
        BY <2>5, RevocationEffect
      <4> QED
        BY <1>4, <4>1, <4>2, <4>3, ReadsOnly
           DEF Writes, CreateIdentity, CreateAssignment, CreateAttempt, Respond,
               RevealToken
    <3>2. /\ NewLinkFor(j, req[p].assignment)
          /\ req'[p] = Held(p, j)
      BY <2>5, <3>1, InvitationEffect
    <3>3. i = j
      BY <2>5, <3>2 DEF NewLinkFor
    <3>4. \E to \in {"reveal", "start"} :
             req'[p] = [req[p] EXCEPT !.pc = to, !.link = j]
      BY <3>2 DEF Held
    <3>5. req'[p].pc \in {"reveal", "start"} /\ req'[p].link = i
      BY <3>3, <3>4 DEF TypeOK, Step
    <3> QED
      BY <3>5 DEF Carries
  <2> QED
    BY <2>3, <2>4, <2>5
<1> QED
  BY <1>2, <1>3, <1>4, StepKinds

-----------------------------------------------------------------------------
(* The theorems.                                                           *)

LEMMA InitIInv == Init => IInv
<1> SUFFICES ASSUME Init PROVE IInv
  OBVIOUS
<1>1. TypeOK
  BY InitType
<1>2. Created = {} /\ Completed = {}
  BY DEF Init, Created, Completed
<1>3. RowsLinked /\ (\A p \in Requests : RequestLinked(p))
  BY <1>2 DEF Init, Sitting!PromiseInit, NoLink, Idle, RowsLinked, RequestLinked
<1>4. OneCandidate /\ ActiveIsUnique /\ OrphansHaveACause
  BY <1>2 DEF OneCandidate, ActiveIsUnique, ActiveOf, CreatedFor,
     OrphansHaveACause
<1>5. RoomOrBounded
  <2>1. IsFiniteSet(Created) /\ Cardinality(Completed) = 0
    BY <1>2, FS_EmptySet
  <2> QED
    BY <2>1, QuotaAssumption DEF RoomOrBounded
<1>6. LiveLinksArrive
  BY DEF Init, NoLink, LiveLinksArrive
<1> QED
  BY <1>1, <1>3, <1>4, <1>5, <1>6 DEF IInv

LEMMA NextIInv == IInv /\ [Next]_vars => IInv'
<1> SUFFICES ASSUME IInv, [Next]_vars PROVE IInv'
  OBVIOUS
<1>1. Linked
  BY DEF IInv, Linked
<1>2. Linked' /\ OneCandidate' /\ ActiveIsUnique'
  BY <1>1, LinkedStep, CandidateStep, ActiveStep DEF IInv
<1>3. RoomOrBounded' /\ OrphansHaveACause' /\ LiveLinksArrive'
  BY <1>1, RoomStep, OrphanStep, ArriveStep DEF IInv
<1> QED
  BY <1>2, <1>3 DEF IInv, Linked

(* The invariant is inductive: it holds in every reachable state.          *)
THEOREM Invariance == Spec => []IInv
BY InitIInv, NextIInv, PTL DEF Spec

(* Every row and every request keeps its type, in particular the rows that *)
(* several requests write.                                                 *)
THEOREM TypeCorrect == Spec => []TypeOK
<1>1. IInv => TypeOK
  BY DEF IInv
<1> QED
  BY <1>1, Invariance, PTL

(* resolveOrCreatePublicIdentity: however many first verifications race,   *)
(* every assignment made for the address is its one candidate's.           *)
THEOREM CandidateIsOne == Spec => []OneCandidate
<1>1. IInv => OneCandidate
  BY DEF IInv
<1> QED
  BY <1>1, Invariance, PTL

(* startPublicAttempt never makes a second active assignment.              *)
THEOREM ActiveIsOne == Spec => []OneActiveAssignment
<1>1. IInv => OneActiveAssignment
  BY ActiveBound DEF IInv
<1> QED
  BY <1>1, Invariance, PTL

(* The quota of startPublicAttempt can be overrun, by fewer assignments    *)
(* than there are overlapping requests, for every quota.                   *)
THEOREM OverrunBound == Spec => []OverrunIsBounded
<1>1. IInv => OverrunIsBounded
  BY BoundHolds DEF IInv
<1> QED
  BY <1>1, Invariance, PTL

(* As long as no request dies and no admin revokes, every active           *)
(* assignment has a live link or is about to get one: admins who generate  *)
(* and regenerate links of a self-service assignment leave no orphan.      *)
THEOREM OrphansNeedACause == Spec => []OrphansHaveACause
<1>1. IInv => OrphansHaveACause
  BY DEF IInv
<1> QED
  BY <1>1, Invariance, PTL

(* As long as no request dies, overlapping starts, regenerations and late  *)
(* revocations never leave an assignment under way without a live link     *)
(* somebody was given, unless an admin withdrew it.                        *)
THEOREM NobodyIsLockedOutEver == Spec => []NobodyIsLockedOut
<1>1. ASSUME IInv
      PROVE  NobodyIsLockedOut
  <2> SUFFICES ASSUME deaths = 0, test # "ARCHIVED",
                      \A p \in Requests : req[p].pc = "idle",
                      NEW a \in Created \ withdrawn, stage[a] = "IN_PROGRESS"
               PROVE  \E i \in LiveLinks(a) : Continuable(i) \/ i \in issued
    BY DEF NobodyIsLockedOut
  <2>1. PICK i \in LiveLinks(a) : TRUE
    BY <1>1 DEF IInv, OrphansHaveACause, AboutToInvite
  <2>2. i \in Invitations /\ link[i].status = "ACTIVE"
    BY <2>1 DEF LiveLinks
  <2>3. i \in handed \cup issued
    BY <1>1, <2>2 DEF IInv, LiveLinksArrive, Carries
  <2>4. i \in handed => AttemptOpen(i)
    BY <1>1, <2>2, NoneIsNoRow DEF IInv, RowsLinked, AttemptOpen
  <2> QED
    BY <2>1, <2>3, <2>4 DEF Continuable
<1>2. IInv => NobodyIsLockedOut
  BY <1>1
<1> QED
  BY <1>2, Invariance, PTL

=============================================================================
