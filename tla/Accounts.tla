------------------------------ MODULE Accounts ------------------------------
(***************************************************************************)
(* Admin accounts and the sessions issued for them: the guards a request   *)
(* passes (proxy.ts, the dashboard layout, getActorOrThrow), signing in    *)
(* and out, and the account management of user.service.ts with the panel   *)
(* that calls it.                                                          *)
(*                                                                         *)
(* A session is a token in the browser's cookie: it names an account and   *)
(* outlives whatever becomes of it, so each guard looks the account up for *)
(* itself, or does not.  One step is one query with the code up to the     *)
(* next await.  Addresses and passwords are not modelled: what is typed is *)
(* right or wrong, free or taken.                                          *)
(***************************************************************************)
EXTENDS Integers, FiniteSets

CONSTANTS
  Users,        \* ids a users row may get
  SuperAdmins,  \* those the seed script creates; every other row is an ADMIN
  Browsers,     \* each with one cookie, whatever its tabs
  Invocations,  \* overlapping Server Actions
  Nobody        \* no session

ASSUME UsersAssumption ==
  /\ SuperAdmins \subseteq Users
  /\ Nobody \notin Users
ASSUME InvocationsAssumption == IsFiniteSet(Invocations) /\ Invocations # {}

VARIABLES
  rows,     \* accounts that exist
  active,   \* accounts with isActive
  session,  \* session[b]: the account the cookie of b names
  visit,    \* visit[b]: the navigation under way in b
  hops,     \* hops[b]: its redirects since an account or the cookie changed
  shown,    \* shown[b]: <<account, button>> of the rows the panel has shown
  action,   \* action[i]: the Server Action invocation i is running
  late      \* late[u]: writes made for u since its account was removed

accountVars == <<rows, active, session, visit, hops, shown, action, late>>

-----------------------------------------------------------------------------
Paths   == {"admin", "login"}
Buttons == {"Remove", "Reactivate"}

Visit == [stage : {"idle", "proxy", "layout", "page", "list"},
          at    : Paths,
          token : Users \cup {Nobody}]     \* the cookie of the request

OnRow == {"update", "reset", "deactivate", "reactivate"}
Ops   == OnRow \cup {"signIn", "create", "other"}

Running == [pc    : {"idle", "credentials", "cookie", "actor", "target",
                     "input", "write"},
            op    : Ops,
            by    : Browsers \cup {Nobody},
            token : Users \cup {Nobody},   \* who acts
            on    : Users \cup {Nobody}]   \* the account it is about

AtRest == [pc |-> "idle", op |-> "other", by |-> Nobody,
           token |-> Nobody, on |-> Nobody]

AccountsTypeOK ==
  /\ active \subseteq rows /\ rows \subseteq Users
  /\ session \in [Browsers -> Users \cup {Nobody}]
  /\ visit \in [Browsers -> Visit]
  /\ hops \in [Browsers -> Nat]
  /\ shown \in [Browsers -> SUBSET (Users \X Buttons)]
  /\ action \in [Invocations -> Running]
  /\ late \in [Users -> Nat]

Request(path, token) == [stage |-> "proxy", at |-> path, token |-> token]

-----------------------------------------------------------------------------
(* Guards of a page request.                                               *)

IsUserSessionActive(u) == u \in active

(* proxy.ts on the login page.  (The variant asks for a session only.)     *)
TurnedAwayByToken(u)   == u # Nobody
TurnedAwayFromLogin(u) == u # Nobody /\ IsUserSessionActive(u)

(* A link, a reload, router.refresh(): a new request in place of the last. *)
Navigate(b, path) ==
  /\ visit' = [visit EXCEPT ![b] = Request(path, session[b])]
  /\ hops' = [hops EXCEPT ![b] = 0]
  /\ UNCHANGED <<rows, active, session, shown, action, late>>

(* The browser follows a redirect with the cookie it has by then.          *)
Redirect(b, path) ==
  /\ visit' = [visit EXCEPT ![b] = Request(path, session[b])]
  /\ hops' = [hops EXCEPT ![b] = @ + 1]

Proceed(b, stage) ==
  /\ visit' = [visit EXCEPT ![b].stage = stage]
  /\ UNCHANGED hops

(* A full load renders the layout; a transition within it only the page.   *)
Proxy(b) ==
  LET v == visit[b]
  IN  /\ v.stage = "proxy"
      /\ \/ /\ v.at = "admin" /\ v.token = Nobody
            /\ Redirect(b, "login")
         \/ /\ v.at = "admin" /\ v.token # Nobody
            /\ \E stage \in {"layout", "page"} : Proceed(b, stage)
         \/ /\ v.at = "login" /\ TurnedAwayFromLogin(v.token)
            /\ Redirect(b, "admin")
         \/ /\ v.at = "login" /\ ~ TurnedAwayFromLogin(v.token)
            /\ Proceed(b, "idle")
      /\ UNCHANGED <<rows, active, session, shown, action, late>>

AdminDashboardLayout(b) ==
  /\ visit[b].stage = "layout"
  /\ IF IsUserSessionActive(visit[b].token)
     THEN Proceed(b, "page")
     ELSE Redirect(b, "login")
  /\ UNCHANGED <<rows, active, session, shown, action, late>>

(* getActorOrThrow; without an actor the error page is shown.  The profile *)
(* page goes on to list the accounts for a super admin.                    *)
AdminPage(b) ==
  LET v == visit[b]
  IN  /\ v.stage = "page"
      /\ \/ Proceed(b, "idle")
         \/ /\ IsUserSessionActive(v.token) /\ v.token \in SuperAdmins
            /\ Proceed(b, "list")
      /\ UNCHANGED <<rows, active, session, shown, action, late>>

ButtonOf(u) == IF u \in active THEN "Remove" ELSE "Reactivate"

ListAdmins(b) ==
  /\ visit[b].stage = "list"
  /\ shown' = [shown EXCEPT ![b] = @ \cup {<<u, ButtonOf(u)>> : u \in rows}]
  /\ Proceed(b, "idle")
  /\ UNCHANGED <<rows, active, session, action, late>>

-----------------------------------------------------------------------------
(* Server Actions.                                                         *)

Advance(i, pc) == action' = [action EXCEPT ![i].pc = pc]
Answer(i)      == action' = [action EXCEPT ![i] = AtRest]

Begin(i, pc, op, b, u) ==
  /\ action[i].pc = "idle"
  /\ action' = [action EXCEPT ![i] =
                  [pc |-> pc, op |-> op, by |-> b, token |-> session[b],
                   on |-> u]]
  /\ UNCHANGED <<rows, active, session, visit, hops, shown, late>>

(* The form of the login page, as the proxy lets it through.               *)
Login(i, b, u) ==
  /\ ~ TurnedAwayFromLogin(session[b])
  /\ Begin(i, "credentials", "signIn", b, u)

(* The buttons of a page that may have been shown long ago, in any tab.    *)
Send(i, op, b, u) ==
  /\ session[b] # Nobody
  /\ Begin(i, "actor", op, b, u)

Row(b, u) == /\ u \notin SuperAdmins
             /\ \E button \in Buttons : <<u, button>> \in shown[b]

AddAdmin(i, b)         == shown[b] # {} /\ Send(i, "create", b, Nobody)
EditAdmin(i, b, u)     == Row(b, u) /\ Send(i, "update", b, u)
ResetPassword(i, b, u) == Row(b, u) /\ Send(i, "reset", b, u)
RemoveAdmin(i, b, u) ==
  Row(b, u) /\ <<u, "Remove">> \in shown[b] /\ Send(i, "deactivate", b, u)
ReactivateButton(i, b, u) ==
  Row(b, u) /\ <<u, "Reactivate">> \in shown[b] /\ Send(i, "reactivate", b, u)

(* Any other write of the admin pages.                                     *)
Work(i, b) == Send(i, "other", b, Nobody)

-----------------------------------------------------------------------------
(* Signing in and out.                                                     *)

VerifyAdminCredentials(i) ==
  LET a == action[i]
  IN  /\ a.pc = "credentials"
      /\ \/ /\ a.on \in active
            /\ Advance(i, "cookie")
            /\ UNCHANGED <<visit, hops>>
         \/ /\ Answer(i)                   \* wrong, unknown or removed
            /\ visit' = [visit EXCEPT ![a.by] = Request("login", session[a.by])]
            /\ hops' = [hops EXCEPT ![a.by] = 0]
      /\ UNCHANGED <<rows, active, session, shown, late>>

SetSession(b, u, path) ==
  /\ session' = [session EXCEPT ![b] = u]
  /\ visit' = [visit EXCEPT ![b] = Request(path, u)]
  /\ hops' = [hops EXCEPT ![b] = 0]

SignIn(i) ==
  /\ action[i].pc = "cookie"
  /\ SetSession(action[i].by, action[i].on, "admin")
  /\ Answer(i)
  /\ UNCHANGED <<rows, active, shown, late>>

SignOut(b) ==
  /\ session[b] # Nobody
  /\ SetSession(b, Nobody, "login")
  /\ UNCHANGED <<rows, active, shown, action, late>>

(* The cookie expires, or another tab's answer removes it.                 *)
Expire(b) ==
  /\ session[b] # Nobody
  /\ session' = [session EXCEPT ![b] = Nobody]
  /\ hops' = [hops EXCEPT ![b] = 0]
  /\ UNCHANGED <<rows, active, visit, shown, action, late>>

-----------------------------------------------------------------------------
(* Account management.                                                     *)

HasPermission(u, op) == op = "other" \/ u \in SuperAdmins

(* (The variant trusts the token.)                                         *)
ActorOfToken(u)    == u # Nobody
GetActorOrThrow(u) == u # Nobody /\ IsUserSessionActive(u)

ResolveActor(i) ==
  LET a == action[i]
  IN  /\ a.pc = "actor"
      /\ IF GetActorOrThrow(a.token) /\ HasPermission(a.token, a.op)
         THEN Advance(i, CASE a.op \in OnRow    -> "target"
                        [] a.op = "create" -> "input"
                        [] OTHER           -> "write")
         ELSE Answer(i)
      /\ UNCHANGED <<rows, active, session, visit, hops, shown, late>>

RequireEditableAdmin(i) ==
  LET a == action[i]
  IN  /\ a.pc = "target"
      /\ IF a.on \in rows \ SuperAdmins
         THEN Advance(i, IF a.op \in {"update", "reset"} THEN "input" ELSE "write")
         ELSE Answer(i)
      /\ UNCHANGED <<rows, active, session, visit, hops, shown, late>>

(* What was typed is invalid, or the address belongs to another account.   *)
CheckInput(i) ==
  /\ action[i].pc = "input"
  /\ Advance(i, "write") \/ Answer(i)
  /\ UNCHANGED <<rows, active, session, visit, hops, shown, late>>

(* What an account may do stops counting as late when it is active again.  *)
Commit(i) ==
  /\ action[i].pc = "write"
  /\ late' = [u \in Users |-> IF u \in active' THEN 0
                              ELSE IF u = action[i].token THEN late[u] + 1
                              ELSE late[u]]
  /\ hops' = IF active' = active THEN hops ELSE [b \in Browsers |-> 0]
  /\ Answer(i)
  /\ UNCHANGED <<session, visit, shown>>

CreateAdmin(i) ==
  /\ action[i].op = "create"
  /\ \E u \in Users \ (rows \cup SuperAdmins) :
       rows' = rows \cup {u} /\ active' = active \cup {u}
  /\ Commit(i)

(* Name, address or password; or a row of another table.                   *)
UpdateAdmin(i) ==
  action[i].op = "update" /\ UNCHANGED <<rows, active>> /\ Commit(i)
ResetAdminPassword(i) ==
  action[i].op = "reset" /\ UNCHANGED <<rows, active>> /\ Commit(i)
OtherWrite(i) ==
  action[i].op = "other" /\ UNCHANGED <<rows, active>> /\ Commit(i)

DeactivateAdmin(i) ==
  /\ action[i].op = "deactivate"
  /\ active' = active \ {action[i].on} /\ UNCHANGED rows
  /\ Commit(i)

ReactivateAdmin(i) ==
  /\ action[i].op = "reactivate"
  /\ active' = active \cup {action[i].on} /\ UNCHANGED rows
  /\ Commit(i)

(* An invocation ends early, or the unique address is taken by then.       *)
Fail(i) ==
  /\ action[i].pc # "idle"
  /\ Answer(i)
  /\ UNCHANGED <<rows, active, session, visit, hops, shown, late>>

-----------------------------------------------------------------------------
InitAccounts ==
  /\ rows = SuperAdmins /\ active = SuperAdmins
  /\ session = [b \in Browsers |-> Nobody]
  /\ visit = [b \in Browsers |-> [Request("login", Nobody) EXCEPT !.stage = "idle"]]
  /\ hops = [b \in Browsers |-> 0]
  /\ shown = [b \in Browsers |-> {}]
  /\ action = [i \in Invocations |-> AtRest]
  /\ late = [u \in Users |-> 0]

Browse(b) ==
  \/ \E path \in Paths : Navigate(b, path)
  \/ Proxy(b) \/ AdminDashboardLayout(b) \/ AdminPage(b) \/ ListAdmins(b)
  \/ SignOut(b) \/ Expire(b)

Press(i, b) ==
  \/ AddAdmin(i, b) \/ Work(i, b)
  \/ \E u \in Users : \/ Login(i, b, u) \/ EditAdmin(i, b, u)
                      \/ ResetPassword(i, b, u) \/ RemoveAdmin(i, b, u)
                      \/ ReactivateButton(i, b, u)

Run(i) ==
  \/ VerifyAdminCredentials(i) \/ SignIn(i)
  \/ ResolveActor(i) \/ RequireEditableAdmin(i) \/ CheckInput(i)
  \/ CreateAdmin(i) \/ UpdateAdmin(i) \/ ResetAdminPassword(i) \/ OtherWrite(i)
  \/ DeactivateAdmin(i) \/ ReactivateAdmin(i)
  \/ Fail(i)

NextAccounts ==
  \/ \E b \in Browsers : Browse(b) \/ \E i \in Invocations : Press(i, b)
  \/ \E i \in Invocations : Run(i)

AccountsSpec == InitAccounts /\ [][NextAccounts]_accountVars

-----------------------------------------------------------------------------
(* Properties.                                                             *)

(* The proxy sends a signed-in visitor away from the login page, and the   *)
(* layout sends an account that was removed back to it: as long as neither *)
(* an account nor the cookie changes, no navigation is redirected more     *)
(* than twice, the first time by a request older than the last change.     *)
RedirectsEnd == \A b \in Browsers : hops[b] <= 2

(* Removing an admin cuts off the sessions it has open: of its changes     *)
(* only those can still be made whose actor was resolved before, at most   *)
(* one for each invocation that ran beside the one that removed it.        *)
LateChangesAreBounded ==
  \A u \in Users : late[u] <= Cardinality(Invocations) - 1
=============================================================================
