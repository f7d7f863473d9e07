-------------------------- MODULE PlacementPromise --------------------------
(***************************************************************************)
(* What the service promises about placement assignments, with no links,   *)
(* requests, queries or transactions: a sitting of the test is begun for   *)
(* an assignment, is closed once with one outcome, and the first sitting   *)
(* to close is the official one.  The status an admin sees follows.        *)
(***************************************************************************)
CONSTANTS
  Assignments,
  Sittings,
  Outcomes,
  None          \* no assignment, no outcome

VARIABLES
  stage,        \* stage[a]: the status shown for assignment a
  owner,        \* owner[s]: the assignment sitting s was begun for
  outcome,      \* outcome[s]: what it delivered, None while it is open
  official      \* the sittings that count as an official result

promiseVars == <<stage, owner, outcome, official>>

PromiseInit ==
  /\ stage = [a \in Assignments |-> "PENDING"]
  /\ owner = [s \in Sittings |-> None]
  /\ outcome = [s \in Sittings |-> None]
  /\ official = {}

OfficialOf(a) == {s \in official : owner[s] = a}

BeginSitting(s, a) ==
  /\ owner[s] = None
  /\ owner' = [owner EXCEPT ![s] = a]
  /\ stage' = [stage EXCEPT ![a] = IF @ = "PENDING" THEN "IN_PROGRESS" ELSE @]
  /\ UNCHANGED <<outcome, official>>

(* A later sitting may be official only besides an earlier one, never      *)
(* instead of it: the code does not promise that there is just one.        *)
CloseSitting(s, r) ==
  LET a == owner[s]
  IN  /\ a # None
      /\ outcome[s] = None
      /\ outcome' = [outcome EXCEPT ![s] = r]
      /\ stage' = [stage EXCEPT ![a] = "COMPLETED"]
      /\ \/ official' = official \cup {s}
         \/ OfficialOf(a) # {} /\ official' = official
      /\ UNCHANGED owner

PromiseNext ==
  \E s \in Sittings :
     \/ \E a \in Assignments : BeginSitting(s, a)
     \/ \E r \in Outcomes : CloseSitting(s, r)

PromiseSpec == PromiseInit /\ [][PromiseNext]_promiseVars
=============================================================================
