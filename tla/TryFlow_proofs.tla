---------------------------- MODULE TryFlow_proofs ----------------------------
(***************************************************************************)
(* Theorems about TryFlow for every number of tabs, addresses, assignments *)
(* and links, every quota and every number of writes from outside: whose   *)
(* attempt the shared cookies lead to, and what takes one under way away.  *)
(***************************************************************************)
EXTENDS TryFlow, TLAPS

USE DEF vars, rows, server, ghosts, Elsewhere

-----------------------------------------------------------------------------
(* The inductive invariant.                                                *)

(* Of a tab's calls only the first has reached the server.                 *)
Blank(x)  == x.stage = "queued" /\ x.token = None /\ x.cookies = NoCookies
Front(t)  == IF calls[t] = <<>> THEN NewCall("page") ELSE Head(calls[t])
Waiting   == \A t \in Tabs : \A i \in DOMAIN calls[t] : i # 1 => Blank(calls[t][i])

(* What a call has read, holds or answers with.                            *)
OwnLink(e, i) == link[i].status # "ABSENT" /\ EmailOf(i) = e

Sound(x) ==
  /\ x.stage = "answered" /\ x.op \in {"page", "status"} => x.reply \in Views
  /\ x.stage = "reading" => x.op # "start" /\ x.cookies.session # None
  /\ x.stage \in Starting => x.op = "start" /\ x.cookies.session # None
  /\ x.stage \in {"invite", "find"} =>
        /\ x.assignment # None
        /\ assignment[x.assignment].stage # "ABSENT"
        /\ assignment[x.assignment].email = x.cookies.session
  /\ x.stage = "regenerate" =>
        x.current # None /\ OwnLink(x.cookies.session, x.current)
  /\ x.stage \in {"validate", "create"} =>
        x.token # None /\ link[x.token].attempt = "NO"
  /\ x.stage \notin {"validate", "create", "answered"} => x.token = None
  /\ x.token # None =>
        /\ x.cookies.session # None /\ OwnLink(x.cookies.session, x.token)
        /\ x.op = "start" => link[x.token].here

(* A token is with the start that made it until the browser has it, and    *)
(* then anywhere but there.                                                *)
Held(t, a) == Front(t).op = "start" /\ Front(t).token = a
Known(a) ==
  \/ jar.token = a
  \/ \E t \in Tabs : \/ tab[t].token = a
                     \/ Front(t).cookies.token = a
                     \/ Front(t).op # "start" /\ Front(t).token = a

Tokens ==
  \A a \in Links :
     /\ Known(a) => link[a].status # "ABSENT" /\ \A t \in Tabs : ~ Held(t, a)
     /\ \A t, u \in Tabs : Held(t, a) /\ Held(u, a) => u = t

(* What the foreign keys and the two partial unique indexes say.           *)
Begun(s) == assignment[s].stage \in {"IN_PROGRESS", "COMPLETED"}

RowsLinked ==
  /\ \A s \in Assignments : assignment[s].stage # "ABSENT" => assignment[s].email # None
  /\ \A i \in Links :
        /\ link[i].status # "ABSENT" => /\ link[i].assignment # None
                                        /\ assignment[link[i].assignment].stage # "ABSENT"
        /\ link[i].attempt # "NO" => link[i].status # "ABSENT" /\ Begun(link[i].assignment)

Active(s) == assignment[s].stage \in {"PENDING", "IN_PROGRESS"}

OneActive ==
  \A s, u \in Assignments :
     Active(s) /\ Active(u) /\ assignment[s].email = assignment[u].email => s = u

OneLive ==
  \A i, j \in Links :
     /\ link[i].status = "ACTIVE" /\ link[j].status = "ACTIVE"
     /\ link[i].assignment = link[j].assignment
     => i = j

InReach ==
  \A a \in Links :
     link[a].here /\ UnderWay(a) =>
       jar.token = a \/ a \in dropped \/ \E t \in Tabs : Held(t, a)

IInv == /\ TypeOK /\ Waiting /\ RowsLinked /\ OneActive /\ OneLive /\ Tokens /\ InReach
        /\ \A t \in Tabs : Sound(Front(t))

-----------------------------------------------------------------------------
(* A tab's queue.                                                          *)

LEMMA NewCallType ==
  ASSUME NEW op \in Ops
  PROVE  NewCall(op) \in Call /\ Blank(NewCall(op)) /\ Sound(NewCall(op))
         /\ NewCall(op).op = op
BY DEF NewCall, NoCookies, Call, Jar, Blank, Sound, Starting

LEMMA FrontType ==
  ASSUME IInv, NEW t \in Tabs
  PROVE  Front(t) \in Call /\ Sound(Front(t))
<1>1. NewCall("page") \in Call
  BY NewCallType DEF Ops
<1>2. calls[t] \in Seq(Call)
  BY DEF IInv, TypeOK
<1> QED
  BY <1>1, <1>2 DEF IInv, Front

(* A queue changes to s in one tab.                                        *)
QueuesOK == /\ calls \in [Tabs -> Seq(Call)]
            /\ \A t \in Tabs : Len(calls[t]) <= MaxQueue
            /\ Waiting

LEMMA QueueStep ==
  ASSUME IInv, NEW t \in Tabs, NEW s \in Seq(Call), Len(s) <= MaxQueue,
         calls' = [calls EXCEPT ![t] = s],
         \A i \in DOMAIN s : i # 1 => Blank(s[i])
  PROVE  /\ QueuesOK'
         /\ \A u \in Tabs : u # t => Front(u)' = Front(u)
         /\ Front(t)' = IF s = <<>> THEN NewCall("page") ELSE Head(s)
<1>1. calls \in [Tabs -> Seq(Call)]
  BY DEF IInv, TypeOK
<1>2. calls' \in [Tabs -> Seq(Call)] /\ calls'[t] = s
  BY <1>1
<1>3. \A u \in Tabs : u # t => calls'[u] = calls[u]
  BY <1>1
<1>4. Waiting'
  BY <1>2, <1>3 DEF IInv, Waiting, Blank, NoCookies
<1>5. \A u \in Tabs : Len(calls'[u]) <= MaxQueue
  BY <1>2, <1>3 DEF IInv, TypeOK
<1> QED
  BY <1>2, <1>3, <1>4, <1>5 DEF QueuesOK, Front, NewCall, NoCookies

LEMMA FrontBecomes ==
  ASSUME IInv, NEW t \in Tabs, calls[t] # <<>>, NEW c \in Call, Becomes(t, c)
  PROVE  QueuesOK' /\ Front(t)' = c /\ \A u \in Tabs : u # t => Front(u)' = Front(u)
<1> DEFINE s == [calls[t] EXCEPT ![1] = c]
<1>1. calls[t] \in Seq(Call) /\ Len(calls[t]) <= MaxQueue
      /\ \A i \in DOMAIN calls[t] : i # 1 => Blank(calls[t][i])
  BY DEF IInv, TypeOK, Waiting
<1>2. s \in Seq(Call) /\ Len(s) = Len(calls[t]) /\ s[1] = c /\ s # <<>>
  BY <1>1
<1>3. \A i \in DOMAIN s : i # 1 => s[i] = calls[t][i] /\ i \in DOMAIN calls[t]
  BY <1>1
<1>4. calls' = [calls EXCEPT ![t] = s]
  BY DEF Becomes
<1> HIDE DEF s
<1>5. Len(s) <= MaxQueue /\ Head(s) = c
  BY <1>1, <1>2
<1> QED
  BY <1>1, <1>2, <1>3, <1>4, <1>5, QueueStep

LEMMA FrontReceives ==
  ASSUME IInv, NEW t \in Tabs, calls[t] # <<>>,
         Receive(t) \/ \E op \in Ops : ReceiveThen(t, op)
  PROVE  /\ QueuesOK' /\ Front(t)' \in Call /\ Blank(Front(t)')
         /\ \A u \in Tabs : u # t => Front(u)' = Front(u)
<1>1. calls[t] \in Seq(Call) /\ Len(calls[t]) <= MaxQueue
      /\ \A i \in DOMAIN calls[t] : i # 1 => Blank(calls[t][i])
  BY DEF IInv, TypeOK, Waiting
<1>2. Tail(calls[t]) \in Seq(Call) /\ Len(Tail(calls[t])) = Len(calls[t]) - 1
      /\ \A i \in DOMAIN Tail(calls[t]) : Blank(Tail(calls[t])[i])
  BY <1>1
<1>3. NewCall("page") \in Call /\ Blank(NewCall("page"))
  BY NewCallType DEF Ops
<1>4. CASE Receive(t)
  <2> DEFINE s == Tail(calls[t])
  <2>1. calls' = [calls EXCEPT ![t] = s]
    BY <1>4 DEF Receive
  <2>2. Len(s) <= MaxQueue /\ s \in Seq(Call) /\ \A i \in DOMAIN s : Blank(s[i])
    BY <1>1, <1>2, TryAssumption
  <2> HIDE DEF s
  <2>3. s # <<>> => 1 \in DOMAIN s /\ Head(s) = s[1] /\ s[1] \in Call
    BY <2>2
  <2> QED
    BY <1>3, <2>1, <2>2, <2>3, QueueStep
<1>5. ASSUME NEW op \in Ops, ReceiveThen(t, op)
      PROVE  /\ QueuesOK' /\ Front(t)' \in Call /\ Blank(Front(t)')
             /\ \A u \in Tabs : u # t => Front(u)' = Front(u)
  <2> DEFINE n == NewCall(op)
             s == Append(Tail(calls[t]), n)
  <2>1. calls' = [calls EXCEPT ![t] = s]
    BY <1>5 DEF ReceiveThen
  <2>2. n \in Call /\ Blank(n)
    BY NewCallType
  <2> HIDE DEF n
  <2>3. Len(s) <= MaxQueue /\ s \in Seq(Call) /\ \A i \in DOMAIN s : Blank(s[i])
    BY <1>1, <1>2, <2>2, TryAssumption
  <2>4. s # <<>> /\ Len(s) > 0
    BY <1>1, <1>2, <2>2
  <2> HIDE DEF s
  <2>5. 1 \in DOMAIN s /\ Head(s) = s[1] /\ s[1] \in Call
    BY <2>3, <2>4
  <2> QED
    BY <2>1, <2>3, <2>4, <2>5, QueueStep
<1> QED
  BY <1>4, <1>5

LEMMA FrontAsks ==
  ASSUME IInv, NEW t \in Tabs, NEW op \in Ops, Request(t, op)
  PROVE  /\ QueuesOK' /\ Front(t)' \in Call
         /\ Front(t)' = Front(t) \/ Blank(Front(t)')
         /\ \A u \in Tabs : u # t => Front(u)' = Front(u)
<1> DEFINE n == NewCall(op)
           s == Append(calls[t], n)
<1>1. calls[t] \in Seq(Call) /\ Len(calls[t]) < MaxQueue
      /\ \A i \in DOMAIN calls[t] : i # 1 => Blank(calls[t][i])
  BY DEF IInv, TypeOK, Waiting, Request
<1>2. n \in Call /\ Blank(n)
  BY NewCallType
<1>3. calls' = [calls EXCEPT ![t] = s]
  BY DEF Request
<1> HIDE DEF n
<1>4. s \in Seq(Call) /\ Len(s) = Len(calls[t]) + 1 /\ s[Len(s)] = n
      /\ \A i \in DOMAIN s : i # Len(s) => s[i] = calls[t][i] /\ i \in DOMAIN calls[t]
  <2>1. s \in Seq(Call) /\ Len(s) = Len(calls[t]) + 1
    BY <1>1, <1>2
  <2>2. s[Len(s)] = n
    BY <1>1, <2>1
  <2>3. \A i \in DOMAIN s : i # Len(s) => s[i] = calls[t][i] /\ i \in DOMAIN calls[t]
    BY <1>1, <2>1
  <2> QED
    BY <2>1, <2>2, <2>3
<1> HIDE DEF s
<1>5. s # <<>> /\ 1 \in DOMAIN s /\ Head(s) = s[1] /\ s[1] \in Call
  BY <1>1, <1>4
<1>6. calls[t] = <<>> => s[1] = n
  BY <1>1, <1>4
<1>7. calls[t] # <<>> => s[1] = Head(calls[t])
  BY <1>1, <1>4
<1>8. \A i \in DOMAIN s : i # 1 => Blank(s[i])
  BY <1>1, <1>2, <1>4
<1>9. Len(s) <= MaxQueue
  BY <1>1, <1>4, TryAssumption
<1>10. /\ QueuesOK' /\ Front(t)' = s[1]
       /\ \A u \in Tabs : u # t => Front(u)' = Front(u)
  BY <1>3, <1>4, <1>5, <1>8, <1>9, QueueStep
<1>11. s[1] = Front(t) \/ s[1] = n
  BY <1>6, <1>7 DEF Front
<1>12. Front(t)' \in Call
  BY <1>5, <1>10
<1>13. PICK x : x = Front(t)' /\ (x = Front(t) \/ x = n)
  BY <1>10, <1>11
<1> QED
  BY <1>2, <1>10, <1>12, <1>13 DEF Blank

LEMMA AskedBehind ==
  ASSUME IInv, NEW t \in Tabs, NEW op \in Ops, Request(t, op), calls[t] # <<>>
  PROVE  Front(t)' = Front(t)
<1>1. calls[t] \in Seq(Call) /\ NewCall(op) \in Call
  BY NewCallType DEF IInv, TypeOK
<1>2. calls'[t] = Append(calls[t], NewCall(op))
  BY DEF Request, IInv, TypeOK
<1>3. Append(calls[t], NewCall(op)) # <<>>
      /\ Head(Append(calls[t], NewCall(op))) = Head(calls[t])
  <2> DEFINE n == NewCall(op)
  <2>1. n \in Call
    BY <1>1
  <2> HIDE DEF n
  <2>2. Len(Append(calls[t], n)) > 0 /\ Append(calls[t], n)[1] = calls[t][1]
    BY <1>1, <2>1
  <2>3. Append(calls[t], n) \in Seq(Call)
    BY <1>1, <2>1
  <2> QED
    BY <1>1, <2>2, <2>3 DEF n
<1> QED
  BY <1>2, <1>3 DEF Front, NewCall, NoCookies

-----------------------------------------------------------------------------
(* Steps of the rows.                                                      *)

(* Rows are added and go forward: nothing changes hands, and nothing that  *)
(* was made here is begun but j.                                           *)
Grow(j) ==
  /\ assignment' \in [Assignments -> Assignment] /\ link' \in [Links -> Link]
  /\ \A s \in Assignments : assignment[s].stage # "ABSENT" =>
        /\ assignment'[s].stage # "ABSENT"
        /\ assignment'[s].email = assignment[s].email
  /\ \A i \in Links : link[i].status # "ABSENT" =>
        /\ link'[i].status # "ABSENT"
        /\ link'[i].assignment = link[i].assignment
        /\ link'[i].here = link[i].here
        /\ i # j /\ link[i].here /\ link[i].attempt = "NO" => link'[i].attempt = "NO"
  /\ \A i \in Links : i # j /\ link'[i].here /\ UnderWay(i)' =>
        link[i].here /\ UnderWay(i)
  /\ RowsLinked' /\ OneActive' /\ OneLive'

LEMMA GrowStay ==
  ASSUME IInv, UNCHANGED rows
  PROVE  Grow(None)
BY DEF IInv, TypeOK, Grow, RowsLinked, Begun, OneActive, Active, OneLive, UnderWay

LEMMA GrowAssignment ==
  ASSUME IInv, NEW s \in Assignments, NEW e \in Emails, ActiveOf(e) = {},
         assignment[s].stage = "ABSENT", assignment' = WithAssignment(s, e),
         UNCHANGED link
  PROVE  Grow(None) /\ assignment'[s].stage = "PENDING" /\ assignment'[s].email = e
<1>1. assignment' \in [Assignments -> Assignment]
  BY DEF WithAssignment, IInv, TypeOK, Assignment
<1>2. /\ assignment'[s].stage = "PENDING" /\ assignment'[s].email = e
      /\ \A u \in Assignments : u # s => assignment'[u] = assignment[u]
  BY DEF WithAssignment, IInv, TypeOK, Assignment
<1>3. \A i \in Links : link[i].status # "ABSENT" =>
         link[i].assignment \in Assignments /\ link[i].assignment # s
  BY DEF IInv, TypeOK, Link, RowsLinked
<1>4. \A i \in Links : UnderWay(i)' => UnderWay(i)
  BY <1>2, <1>3 DEF UnderWay
<1>5. RowsLinked' /\ OneLive'
  BY <1>2, <1>3, TryAssumption DEF IInv, RowsLinked, Begun, OneLive
<1>6. \A u \in Assignments : Active(u) => assignment[u].email # e
  BY DEF ActiveOf, Active
<1>7. OneActive'
  BY <1>2, <1>6 DEF IInv, OneActive, Active
<1> QED
  BY <1>1, <1>2, <1>4, <1>5, <1>7 DEF Grow, IInv, TypeOK

LEMMA NewLinkIs ==
  ASSUME NEW s \in Assignments, NEW c \in Links \cup {None}, NEW h \in BOOLEAN
  PROVE  LET x == NewLink(s, c, h)
         IN  /\ x \in Link /\ x.assignment = s /\ x.status = "ACTIVE"
             /\ x.attempt = "NO" /\ x.here = h
BY DEF NewLink, Link

(* The link i is added, and those in over are revoked before it.           *)
LEMMA GrowLink ==
  ASSUME IInv, NEW s \in Assignments, NEW i \in Links, NEW x \in Link,
         x.assignment = s, x.status = "ACTIVE", x.attempt = "NO",
         link[i].status = "ABSENT", assignment[s].stage # "ABSENT",
         link' \in [Links -> Link], link'[i] = x,
         \A k \in Links : k # i =>
            link'[k] = link[k] \/ (link'[k] = [link[k] EXCEPT !.status = "REVOKED"]
                                   /\ link[k].status # "ABSENT"),
         \A k \in Links : k # i /\ link[k].assignment = s => link'[k].status # "ACTIVE",
         UNCHANGED assignment
  PROVE  Grow(None)
<1>1. \A k \in Links : k # i =>
         /\ link'[k].assignment = link[k].assignment
         /\ link'[k].here = link[k].here
         /\ link'[k].attempt = link[k].attempt
         /\ link'[k].status = "ABSENT" <=> link[k].status = "ABSENT"
         /\ link'[k].status = "ACTIVE" => link[k].status = "ACTIVE"
  BY DEF IInv, TypeOK, Link
<1>2. RowsLinked'
  BY <1>1, TryAssumption DEF IInv, RowsLinked, Begun
<1>3. OneLive'
  BY <1>1 DEF IInv, OneLive
<1>4. OneActive'
  BY DEF IInv, OneActive, Active
<1>5. \A k \in Links : UnderWay(k)' => k # i /\ UnderWay(k)
  BY <1>1 DEF UnderWay
<1> QED
  BY <1>1, <1>2, <1>3, <1>4, <1>5 DEF Grow, IInv, TypeOK

LEMMA GrowIssue ==
  ASSUME IInv, NEW s \in Assignments, NEW i \in Links, NEW h \in BOOLEAN,
         assignment[s].stage # "ABSENT", LiveLinks(s) = {},
         link[i].status = "ABSENT", link' = [link EXCEPT ![i] = NewLink(s, None, h)],
         UNCHANGED assignment
  PROVE  Grow(None) /\ link'[i].status # "ABSENT" /\ link'[i].assignment = s
         /\ link'[i].here = h /\ link'[i].attempt = "NO"
<1>1. PICK x \in Link : /\ x = NewLink(s, None, h) /\ x.assignment = s
                        /\ x.status = "ACTIVE" /\ x.attempt = "NO" /\ x.here = h
  BY NewLinkIs
<1>2. link' \in [Links -> Link] /\ link'[i] = x
      /\ \A k \in Links : k # i => link'[k] = link[k]
  BY <1>1 DEF IInv, TypeOK
<1>3. \A k \in Links : k # i /\ link[k].assignment = s => link'[k].status # "ACTIVE"
  BY <1>2 DEF LiveLinks
<1> QED
  BY <1>1, <1>2, <1>3, GrowLink

LEMMA GrowRegenerate ==
  ASSUME IInv, NEW current \in Links, NEW i \in Links, NEW h \in BOOLEAN,
         link[current].status # "ABSENT", RegenerationAllowed(current),
         link[i].status = "ABSENT", link' = Regenerated(current, i, h),
         UNCHANGED assignment
  PROVE  Grow(None) /\ link'[i].status # "ABSENT"
         /\ link'[i].assignment = link[current].assignment
         /\ link'[i].here = h /\ link'[i].attempt = "NO"
<1>1. PICK s \in Assignments : s = link[current].assignment
                               /\ assignment[s].stage # "ABSENT"
  BY DEF IInv, TypeOK, Link, RowsLinked
<1>2. PICK x \in Link : /\ x = NewLink(s, current, h) /\ x.assignment = s
                        /\ x.status = "ACTIVE" /\ x.attempt = "NO" /\ x.here = h
  BY NewLinkIs
<1>3. link' = [link EXCEPT ![current].status = "REVOKED", ![i] = x]
  BY <1>1, <1>2 DEF Regenerated
<1>4. i # current
  OBVIOUS
<1>5. [link[current] EXCEPT !.status = "REVOKED"] \in Link
  BY DEF IInv, TypeOK, Link
<1>6. /\ link' \in [Links -> Link] /\ link'[i] = x
      /\ link'[current] = [link[current] EXCEPT !.status = "REVOKED"]
      /\ \A k \in Links : k # i /\ k # current => link'[k] = link[k]
  BY <1>3, <1>4, <1>5 DEF IInv, TypeOK
<1>7. link'[current].status = "REVOKED"
  BY <1>6 DEF IInv, TypeOK, Link
<1>8. \A k \in Links : k # i /\ link[k].assignment = s => link'[k].status # "ACTIVE"
  BY <1>1, <1>6, <1>7 DEF RegenerationAllowed, LiveLinks
<1> QED
  BY <1>1, <1>2, <1>6, <1>8, GrowLink

LEMMA GrowBegin ==
  ASSUME IInv, NEW i \in Links, link[i].status # "ABSENT", Begin(i)
  PROVE  Grow(i) /\ (~ link[i].here => Grow(None))
<1>1. PICK s \in Assignments : s = link[i].assignment
                               /\ assignment[s].stage # "ABSENT"
  BY DEF IInv, TypeOK, Link, RowsLinked
<1>2. PICK g \in {"IN_PROGRESS", "COMPLETED"} :
        /\ g = IF assignment[s].stage = "PENDING" THEN "IN_PROGRESS"
               ELSE assignment[s].stage
        /\ assignment[s].stage = "COMPLETED" => g = "COMPLETED"
  BY <1>1 DEF IInv, TypeOK, Assignment
<1>3. assignment' = [assignment EXCEPT ![s].stage = g]
  BY <1>1, <1>2 DEF Begin
<1>4. /\ assignment' \in [Assignments -> Assignment]
      /\ assignment'[s].stage = g
      /\ \A u \in Assignments : assignment'[u].email = assignment[u].email
      /\ \A u \in Assignments : u # s => assignment'[u] = assignment[u]
  BY <1>3 DEF IInv, TypeOK, Assignment
<1>5. /\ link' \in [Links -> Link]
      /\ \A k \in Links : /\ link'[k].status = link[k].status
                          /\ link'[k].assignment = link[k].assignment
                          /\ link'[k].here = link[k].here
                          /\ k # i => link'[k].attempt = link[k].attempt
  BY DEF Begin, IInv, TypeOK, Link
<1>6. \A u \in Assignments : Begun(u) => Begun(u)'
  BY <1>2, <1>4 DEF Begun
<1>7. Begun(s)'
  BY <1>4 DEF Begun
<1>8. \A u \in Assignments : /\ assignment[u].stage # "ABSENT"
                                  <=> assignment'[u].stage # "ABSENT"
                             /\ Active(u)' => Active(u)
  BY <1>1, <1>2, <1>4 DEF Active, IInv, TypeOK, Assignment
<1>9. \A k \in Links : link[k].status # "ABSENT" => link[k].assignment \in Assignments
  BY DEF IInv, TypeOK, Link, RowsLinked
<1>10. RowsLinked'
  <2>1. \A u \in Assignments : assignment'[u].stage # "ABSENT" => assignment'[u].email # None
    BY <1>4, <1>8 DEF IInv, RowsLinked
  <2>2. ASSUME NEW k \in Links
        PROVE  /\ link'[k].status # "ABSENT" =>
                     /\ link'[k].assignment # None
                     /\ assignment'[link'[k].assignment].stage # "ABSENT"
               /\ link'[k].attempt # "NO" => link'[k].status # "ABSENT"
                                             /\ Begun(link[k].assignment)'
    BY <1>1, <1>5, <1>6, <1>7, <1>8, <1>9 DEF IInv, RowsLinked
  <2>3. \A k \in Links : Begun(link[k].assignment)' => assignment'[link'[k].assignment].stage
                            \in {"IN_PROGRESS", "COMPLETED"}
    BY <1>5 DEF Begun
  <2> QED
    BY <2>1, <2>2, <2>3 DEF RowsLinked, Begun
<1>11. OneActive' /\ OneLive'
  BY <1>4, <1>5, <1>8 DEF IInv, OneActive, OneLive
<1>12. ASSUME NEW k \in Links, k # i, UnderWay(k)' PROVE UnderWay(k)
  <2>1. /\ link[k].attempt = "OPEN" /\ link[k].status = "ACTIVE"
        /\ assignment'[link[k].assignment].stage = "IN_PROGRESS"
    BY <1>5, <1>12 DEF UnderWay
  <2>2. Begun(link[k].assignment) /\ link[k].assignment \in Assignments
    BY <1>9, <2>1 DEF IInv, RowsLinked
  <2> QED
    BY <1>2, <1>4, <2>1, <2>2 DEF UnderWay, Begun
<1> QED
  BY <1>4, <1>5, <1>8, <1>10, <1>11, <1>12 DEF Grow

LEMMA GrowFinalize ==
  ASSUME IInv, NEW i \in Links, link[i].attempt = "OPEN", Finalize(i)
  PROVE  Grow(None)
<1>1. PICK s \in Assignments : s = link[i].assignment
                               /\ assignment[s].stage # "ABSENT"
  BY DEF IInv, TypeOK, Link, RowsLinked
<1>2. /\ assignment' \in [Assignments -> Assignment]
      /\ assignment'[s].stage = "COMPLETED"
      /\ \A u \in Assignments : assignment'[u].email = assignment[u].email
      /\ \A u \in Assignments : u # s => assignment'[u] = assignment[u]
  BY <1>1 DEF Finalize, IInv, TypeOK, Assignment
<1>3. /\ link' \in [Links -> Link]
      /\ \A k \in Links : /\ link'[k].assignment = link[k].assignment
                          /\ link'[k].here = link[k].here
                          /\ k # i => link'[k] = link[k]
      /\ link'[i].status = "USED" /\ link'[i].attempt = "CLOSED"
  BY DEF Finalize, IInv, TypeOK, Link
<1>4. link[i].status # "ABSENT"
  BY DEF IInv, RowsLinked
<1>5. \A k \in Links : link[k].status # "ABSENT" => link[k].assignment \in Assignments
  BY DEF IInv, TypeOK, Link, RowsLinked
<1>6. RowsLinked'
  BY <1>1, <1>2, <1>3, <1>4, <1>5 DEF IInv, RowsLinked, Begun
<1>7. OneActive' /\ OneLive'
  BY <1>2, <1>3 DEF IInv, OneActive, Active, OneLive
<1>8. \A k \in Links : UnderWay(k)' => UnderWay(k)
  BY <1>2, <1>3, <1>5 DEF UnderWay
<1> QED
  BY <1>1, <1>2, <1>3, <1>4, <1>6, <1>7, <1>8 DEF Grow

LEMMA GrowRevoke ==
  ASSUME IInv, NEW i \in Links, link[i].status = "ACTIVE",
         link' = [link EXCEPT ![i].status = "REVOKED"], UNCHANGED assignment
  PROVE  Grow(None)
<1>1. /\ link' \in [Links -> Link]
      /\ \A k \in Links : /\ link'[k].assignment = link[k].assignment
                          /\ link'[k].here = link[k].here
                          /\ link'[k].attempt = link[k].attempt
                          /\ k # i => link'[k] = link[k]
      /\ link'[i].status = "REVOKED"
  BY DEF IInv, TypeOK, Link
<1>2. RowsLinked' /\ OneLive' /\ OneActive'
  BY <1>1 DEF IInv, RowsLinked, Begun, OneLive, OneActive, Active
<1>3. \A k \in Links : UnderWay(k)' => UnderWay(k)
  BY <1>1 DEF UnderWay
<1> QED
  BY <1>1, <1>2, <1>3 DEF Grow, IInv, TypeOK

(* What a call has read stays sound.                                       *)
LEMMA GrowSound ==
  ASSUME IInv, NEW j \in Links \cup {None}, Grow(j), NEW z \in Call, Sound(z),
         z.op = "start" => z.token = None \/ z.token # j
  PROVE  Sound(z)'
<1>1. ASSUME NEW i \in Links, NEW e, OwnLink(e, i) PROVE OwnLink(e, i)'
  <2>1. link[i].assignment \in Assignments /\ assignment[link[i].assignment].stage # "ABSENT"
    BY <1>1 DEF OwnLink, IInv, TypeOK, Link, RowsLinked
  <2>2. /\ link'[i].status # "ABSENT" /\ link'[i].assignment = link[i].assignment
        /\ assignment'[link[i].assignment].email = assignment[link[i].assignment].email
    BY <1>1, <2>1 DEF Grow, OwnLink
  <2> QED
    BY <1>1, <2>2 DEF OwnLink, EmailOf
<1>2. z.assignment \in Assignments \cup {None} /\ z.current \in Links \cup {None}
      /\ z.token \in Links \cup {None}
  BY DEF Call
<1>3. z.stage \in {"invite", "find"} =>
        /\ z.assignment # None
        /\ assignment'[z.assignment].stage # "ABSENT"
        /\ assignment'[z.assignment].email = z.cookies.session
  BY <1>2 DEF Sound, Grow
<1>4. z.stage = "regenerate" =>
        z.current # None /\ OwnLink(z.cookies.session, z.current)'
  BY <1>1, <1>2 DEF Sound
<1>5. z.token # None => OwnLink(z.cookies.session, z.token)'
  BY <1>1, <1>2 DEF Sound
<1>6. z.op = "start" /\ z.token # None => link'[z.token].here
  BY <1>2 DEF Sound, Grow, OwnLink
<1>7. z.stage \in {"validate", "create"} => z.token # None /\ link'[z.token].attempt = "NO"
  BY <1>2 DEF Sound, Grow, OwnLink, Starting
<1> QED
  BY <1>3, <1>4, <1>5, <1>6, <1>7 DEF Sound

-----------------------------------------------------------------------------
(* A step of the rows, the calls, the cookies and the tabs together.       *)

Rest == /\ jar' \in Jar /\ tab' \in [Tabs -> Tab] /\ profile' \subseteq Emails
        /\ outside' \in 0 .. MaxOutside
        /\ dropped \subseteq dropped' /\ dropped' \subseteq Links
        /\ QueuesOK'

(* Without its token, a may be lost.                                       *)
Loses(a) == jar'.token = a \/ a \in dropped' \/ ~ UnderWay(a)

LEMMA Step ==
  ASSUME IInv, Rest, NEW j \in Links \cup {None}, Grow(j),
         \A u \in Tabs : Sound(Front(u))',
         \A a \in Links, u \in Tabs : Held(u, a)' =>
            \/ Held(u, a)
            \/ link[a].status = "ABSENT" /\ \A v \in Tabs : Held(v, a)' => v = u,
         \A a \in Links, u \in Tabs : Held(u, a) => Held(u, a)' \/ Loses(a),
         \A a \in Links : Known(a)' =>
            \/ Known(a)
            \/ link[a].status # "ABSENT" /\ \A u \in Tabs : ~ Held(u, a)',
         \A a \in Links : jar.token = a => Loses(a),
         j # None => \E u \in Tabs : Held(u, j)'
  PROVE  IInv'
<1>1. ASSUME NEW a \in Links, NEW u \in Tabs, Held(u, a)
      PROVE  link[a].status # "ABSENT"
  BY <1>1, TryAssumption DEF IInv, Held, Sound, OwnLink
<1>2. Tokens'
  <2>1. ASSUME NEW a \in Links, Known(a)'
        PROVE  link'[a].status # "ABSENT" /\ \A u \in Tabs : ~ Held(u, a)'
    <3>1. CASE Known(a)
      <4>1. link[a].status # "ABSENT" /\ \A u \in Tabs : ~ Held(u, a)
        BY <3>1 DEF IInv, Tokens
      <4> QED
        BY <4>1 DEF Grow
    <3>2. CASE ~ Known(a)
      BY <2>1, <3>2 DEF Grow
    <3> QED
      BY <3>1, <3>2
  <2>2. ASSUME NEW a \in Links, NEW t \in Tabs, NEW u \in Tabs, Held(t, a)', Held(u, a)'
        PROVE  u = t
    <3>1. CASE Held(t, a)
      <4>1. Held(u, a)
        BY <1>1, <2>2, <3>1
      <4> QED
        BY <3>1, <4>1 DEF IInv, Tokens
    <3>2. CASE ~ Held(t, a)
      BY <2>2, <3>2
    <3> QED
      BY <3>1, <3>2
  <2> QED
    BY <2>1, <2>2 DEF Tokens
<1>3. InReach'
  <2>1. ASSUME NEW a \in Links, link'[a].here, UnderWay(a)'
        PROVE  jar'.token = a \/ a \in dropped' \/ \E u \in Tabs : Held(u, a)'
    <3>1. CASE a = j
      BY <3>1, TryAssumption
    <3>2. CASE a # j
      <4>1. link[a].here /\ UnderWay(a)
        BY <2>1, <3>2 DEF Grow
      <4>2. jar.token = a \/ a \in dropped \/ \E u \in Tabs : Held(u, a)
        BY <4>1 DEF IInv, InReach
      <4> QED
        BY <4>1, <4>2 DEF Rest, Loses
    <3> QED
      BY <3>1, <3>2
  <2> QED
    BY <2>1 DEF InReach
<1>4. TypeOK' /\ Waiting'
  BY DEF Rest, Grow, QueuesOK, TypeOK
<1> QED
  BY <1>2, <1>3, <1>4 DEF IInv, Grow


-----------------------------------------------------------------------------
(* One tab's first call turns into x; the others wait.                     *)

OthersWait(t) == \A u \in Tabs : u # t => Front(u)' = Front(u)
Turns(t, x)   == Front(t)' = x /\ OthersWait(t)
TabsKnow      == \A u \in Tabs : tab'[u].token = None \/ Known(tab'[u].token)

(* The call holds the token it held, or none it made, or one it has made.  *)
Keeps(t, x) == Front(t).op = "start" /\ x.op = "start" /\ x.token = Front(t).token
Drops(t, x) ==
  /\ Front(t).op = "start" /\ Front(t).token # None => Loses(Front(t).token)
  /\ x.token = None \/ (x.op # "start" /\ Known(x.token))
Gains(t, x) ==
  /\ Front(t).token = None /\ x.op = "start" /\ x.token # None
  /\ link[x.token].status = "ABSENT"

JarStays == /\ jar'.token \in {None, jar.token}
            /\ jar.token # None => Loses(jar.token)

LEMMA Turn ==
  ASSUME IInv, Rest, NEW t \in Tabs, NEW x \in Call, Turns(t, x),
         NEW j \in Links \cup {None}, Grow(j), Sound(x)', TabsKnow, JarStays,
         x.cookies.token = None \/ Known(x.cookies.token),
         Keeps(t, x) \/ Drops(t, x) \/ Gains(t, x),
         j # None => Keeps(t, x) /\ x.token = j
  PROVE  IInv'
<1>1. \A u \in Tabs : u # t => Front(u)' = Front(u)
  BY DEF Turns, OthersWait
<1>2. Front(t)' = x
  BY DEF Turns
<1>3. x.token \in Links \cup {None}
  BY DEF Call
<1>4. ASSUME NEW a \in Links, NEW u \in Tabs, Held(u, a)
      PROVE  link[a].status # "ABSENT"
  BY <1>4, TryAssumption DEF IInv, Held, Sound, OwnLink
<1>5. ASSUME NEW u \in Tabs PROVE Sound(Front(u))'
  <2>1. CASE u = t
    <3>1. PICK z : z = Front(t)' /\ z = x
      BY <1>2
    <3> QED
      BY <2>1, <3>1 DEF Sound
  <2>2. CASE u # t
    <3>1. PICK z \in Call : z = Front(u) /\ Sound(z) /\ z = Front(u)'
      BY <1>1, <2>2, FrontType
    <3>2. z.op = "start" => z.token = None \/ z.token # j
      <4>1. CASE j = None
        BY <4>1
      <4>2. CASE j # None
        <5>1. Held(t, j)
          BY <4>2 DEF Held, Keeps
        <5> QED
          BY <2>2, <3>1, <4>2, <5>1 DEF IInv, Tokens, Held
      <4> QED
        BY <4>1, <4>2
    <3>3. Sound(z)'
      BY <3>1, <3>2, GrowSound
    <3> QED
      BY <3>1, <3>3 DEF Sound
  <2> QED
    BY <2>1, <2>2
<1>6. ASSUME NEW a \in Links, NEW u \in Tabs, Held(u, a)'
      PROVE  \/ Held(u, a)
             \/ link[a].status = "ABSENT" /\ \A v \in Tabs : Held(v, a)' => v = u
  <2>1. CASE u # t
    BY <1>1, <1>6, <2>1 DEF Held
  <2>2. CASE u = t
    <3>1. x.op = "start" /\ x.token = a /\ a # None
      BY <1>2, <1>6, <2>2, TryAssumption DEF Held
    <3>2. CASE Keeps(t, x)
      BY <2>2, <3>1, <3>2 DEF Keeps, Held
    <3>3. CASE Gains(t, x)
      <4>1. link[a].status = "ABSENT"
        BY <3>1, <3>3 DEF Gains
      <4>2. \A v \in Tabs : v # t /\ Held(v, a)' => Held(v, a)
        BY <1>1 DEF Held
      <4> QED
        BY <1>4, <2>2, <4>1, <4>2
    <3> QED
      BY <3>1, <3>2, <3>3 DEF Drops
  <2> QED
    BY <2>1, <2>2
<1>7. ASSUME NEW a \in Links, NEW u \in Tabs, Held(u, a)
      PROVE  Held(u, a)' \/ Loses(a)
  <2>1. CASE u # t
    BY <1>1, <1>7, <2>1 DEF Held
  <2>2. CASE u = t
    <3>1. Front(t).op = "start" /\ Front(t).token = a /\ a # None
      BY <1>7, <2>2, TryAssumption DEF Held
    <3>2. CASE Keeps(t, x)
      BY <1>2, <2>2, <3>1, <3>2 DEF Keeps, Held
    <3> QED
      BY <3>1, <3>2 DEF Drops, Gains
  <2> QED
    BY <2>1, <2>2
<1>8. ASSUME NEW a \in Links, Known(a)' PROVE Known(a)
  <2>1. a # None
    BY TryAssumption
  <2>2. ASSUME NEW u \in Tabs,
               \/ tab'[u].token = a
               \/ Front(u)'.cookies.token = a
               \/ Front(u)'.op # "start" /\ Front(u)'.token = a
        PROVE  Known(a)
    <3>1. CASE tab'[u].token = a
      BY <2>1, <3>1 DEF TabsKnow
    <3>2. CASE u # t
      BY <1>1, <2>2, <3>1, <3>2 DEF Known
    <3>3. CASE u = t /\ x.cookies.token = a
      BY <2>1, <3>3
    <3>4. CASE u = t /\ x.op # "start" /\ x.token = a
      BY <2>1, <3>4 DEF Keeps, Drops, Gains
    <3> QED
      BY <1>2, <2>2, <3>1, <3>2, <3>3, <3>4
  <2>3. CASE jar'.token = a
    BY <2>1, <2>3 DEF JarStays, Known
  <2> QED
    BY <1>8, <2>2, <2>3 DEF Known
<1>9. \A a \in Links : jar.token = a => Loses(a)
  BY TryAssumption DEF JarStays
<1>10. j # None => \E u \in Tabs : Held(u, j)'
  BY <1>2 DEF Keeps, Held
<1> QED
  BY <1>5, <1>6, <1>7, <1>8, <1>9, <1>10, Step

LEMMA CallsStay ==
  ASSUME IInv, UNCHANGED calls
  PROVE  QueuesOK' /\ \A u \in Tabs : Front(u)' = Front(u)
BY DEF IInv, TypeOK, QueuesOK, Waiting, Blank, NoCookies, Front, NewCall

(* Only rows change, or the session.                                       *)
LEMMA RowsStep ==
  ASSUME IInv, Grow(None), UNCHANGED <<tab, calls, profile, dropped>>,
         jar' \in Jar, jar'.token = jar.token, outside' \in 0 .. MaxOutside
  PROVE  IInv'
<1>1. Rest
  BY CallsStay DEF Rest, IInv, TypeOK
<1>2. \A u \in Tabs : Front(u)' = Front(u)
  BY CallsStay
<1>3. ASSUME NEW u \in Tabs PROVE Sound(Front(u))'
  <2>1. PICK z \in Call : z = Front(u) /\ Sound(z) /\ z = Front(u)'
    BY <1>2, FrontType
  <2>2. Sound(z)'
    BY <2>1, GrowSound
  <2> QED
    BY <2>1, <2>2 DEF Sound
<1>4. \A a \in Links : /\ Known(a)' <=> Known(a)
                       /\ \A u \in Tabs : Held(u, a)' <=> Held(u, a)
  BY <1>2 DEF Known, Held
<1>5. \A a \in Links : jar.token = a => Loses(a)
  BY DEF Loses
<1> QED
  BY <1>1, <1>3, <1>4, <1>5, Step

LEMMA BlankSound ==
  ASSUME NEW x \in Call, Blank(x)
  PROVE  Sound(x)' /\ x.token = None /\ x.cookies.token = None
BY DEF Blank, Sound, Starting, NoCookies, Call

(* A step of the server's.                                                 *)
LEMMA ServerTurn ==
  ASSUME IInv, NEW t \in Tabs, calls[t] # <<>>, NEW x \in Call, Becomes(t, x),
         NEW j \in Links \cup {None}, Grow(j), Sound(x)',
         x.cookies.token = None \/ Known(x.cookies.token),
         Keeps(t, x) \/ Drops(t, x) \/ Gains(t, x),
         j # None => Keeps(t, x) /\ x.token = j,
         UNCHANGED <<jar, tab, ghosts>>, profile' \subseteq Emails
  PROVE  IInv'
<1>1. QueuesOK' /\ Turns(t, x)
  BY FrontBecomes DEF Turns, OthersWait
<1>2. Rest
  BY <1>1 DEF Rest, IInv, TypeOK
<1>3. TabsKnow /\ JarStays
  BY DEF TabsKnow, Known, JarStays, Loses
<1> QED
  BY <1>1, <1>2, <1>3, Turn

(* The tab has the answer.                                                 *)
LEMMA ReceiveTurn ==
  ASSUME IInv, NEW t \in Tabs, calls[t] # <<>>,
         Receive(t) \/ \E op \in Ops : ReceiveThen(t, op),
         UNCHANGED <<rows, profile>>, outside' \in 0 .. MaxOutside,
         dropped \subseteq dropped', dropped' \subseteq Links,
         jar' \in Jar, tab' \in [Tabs -> Tab], TabsKnow, JarStays,
         Front(t).op = "start" /\ Front(t).token # None => Loses(Front(t).token)
  PROVE  IInv'
<1>1. PICK x \in Call : x = Front(t)' /\ Blank(x)
  BY FrontReceives DEF Blank, NoCookies
<1>2. QueuesOK' /\ Turns(t, x)
  BY <1>1, FrontReceives DEF Turns, OthersWait
<1>3. Rest
  BY <1>2 DEF Rest, IInv, TypeOK
<1>4. Grow(None)
  BY GrowStay
<1>5. Sound(x)' /\ x.token = None /\ x.cookies.token = None
  BY <1>1, BlankSound
<1>6. Drops(t, x)
  BY <1>5 DEF Drops
<1> QED
  BY <1>2, <1>3, <1>4, <1>5, <1>6, Turn

(* The tab asks something.                                                 *)
LEMMA AskTurn ==
  ASSUME IInv, NEW t \in Tabs, NEW op \in Ops, Request(t, op),
         UNCHANGED <<jar, server, ghosts>>, tab' \in [Tabs -> Tab], TabsKnow
  PROVE  IInv'
<1>1. PICK x \in Call : x = Front(t)' /\ (x = Front(t) \/ Blank(x))
  BY FrontAsks DEF Blank, NoCookies
<1>2. QueuesOK' /\ Turns(t, x)
  BY <1>1, FrontAsks DEF Turns, OthersWait
<1>3. Rest
  BY <1>2 DEF Rest, IInv, TypeOK
<1>4. Grow(None) /\ JarStays
  BY GrowStay DEF JarStays, Loses
<1>5. CASE x = Front(t)
  <2>1. Sound(x)'
    BY <1>4, <1>5, FrontType, GrowSound
  <2>2. x.cookies.token = None \/ Known(x.cookies.token)
    BY <1>5 DEF Known
  <2>3. Keeps(t, x) \/ Drops(t, x)
    BY <1>5 DEF Keeps, Drops, Known
  <2> QED
    BY <1>2, <1>3, <1>4, <2>1, <2>2, <2>3, Turn
<1>6. CASE x # Front(t)
  <2>1. calls[t] = <<>>
    BY <1>1, <1>6, AskedBehind
  <2>2. Front(t).op # "start"
    BY <2>1, NewCallType DEF Front, Ops
  <2>3. Sound(x)' /\ x.token = None /\ x.cookies.token = None
    BY <1>1, <1>6, BlankSound
  <2>4. Drops(t, x)
    BY <2>2, <2>3 DEF Drops
  <2> QED
    BY <1>2, <1>3, <1>4, <2>3, <2>4, Turn
<1> QED
  BY <1>5, <1>6

-----------------------------------------------------------------------------
(* Tabs.                                                                   *)

LEMMA TabMoves ==
  ASSUME IInv, NEW t \in Tabs, NEW x \in Tab, tab' = [tab EXCEPT ![t] = x],
         x.token = None \/ Known(x.token)
  PROVE  tab' \in [Tabs -> Tab] /\ TabsKnow
BY DEF IInv, TypeOK, TabsKnow, Known

LEMMA TabType ==
  ASSUME IInv, NEW t \in Tabs
  PROVE  tab[t] \in Tab /\ (tab[t].token = None \/ Known(tab[t].token))
BY DEF IInv, TypeOK, Known

LEMMA LoadingType == Loading \in Tab /\ Loading.token = None
BY DEF Loading, Tab, Views

LEMMA BusyIs ==
  ASSUME IInv, NEW t \in Tabs, NEW b \in BOOLEAN,
         tab' = [tab EXCEPT ![t].busy = b]
  PROVE  tab' \in [Tabs -> Tab] /\ TabsKnow
<1>1. PICK x : x = [tab[t] EXCEPT !.busy = b]
  OBVIOUS
<1>2. x \in Tab /\ x.token = tab[t].token
  BY <1>1, TabType DEF Tab
<1>3. tab' = [tab EXCEPT ![t] = x]
  BY <1>1
<1> QED
  BY <1>2, <1>3, TabType, TabMoves

LEMMA TabsStay ==
  ASSUME IInv, UNCHANGED tab
  PROVE  tab' \in [Tabs -> Tab] /\ TabsKnow
BY DEF IInv, TypeOK, TabsKnow, Known

-----------------------------------------------------------------------------
(* The visitor's steps.                                                    *)

LEMMA PressStep ==
  ASSUME IInv, NEW t \in Tabs, NEW view, NEW op \in Ops, Press(t, view, op),
         UNCHANGED <<jar, server, ghosts>>
  PROVE  IInv'
<1>1. tab' \in [Tabs -> Tab] /\ TabsKnow
  BY BusyIs DEF Press
<1> QED
  BY <1>1, AskTurn DEF Press

LEMMA AskStep ==
  ASSUME IInv, NEW t \in Tabs, NEW op \in Ops, Request(t, op),
         UNCHANGED <<jar, tab, server, ghosts>>
  PROVE  IInv'
BY TabsStay, AskTurn

LEMMA LoadPageStep ==
  ASSUME IInv, NEW t \in Tabs, LoadPage(t)
  PROVE  IInv'
<1>1. tab' \in [Tabs -> Tab] /\ TabsKnow
  BY LoadingType, TabMoves DEF LoadPage
<1> QED
  BY <1>1, AskTurn DEF LoadPage, Ops

LEMMA SubmitEmailStep ==
  ASSUME IInv, NEW t \in Tabs, NEW e \in Emails, SubmitEmail(t, e)
  PROVE  IInv'
<1>1. PICK x : x = [tab[t] EXCEPT !.view = "code", !.email = e]
  OBVIOUS
<1>2. x \in Tab /\ x.token = tab[t].token
  BY <1>1, TabType DEF Tab, Views
<1>3. tab' = [tab EXCEPT ![t] = x]
  BY <1>1, TabType DEF SubmitEmail, IInv, TypeOK, Tab
<1>4. tab' \in [Tabs -> Tab] /\ TabsKnow
  BY <1>2, <1>3, TabType, TabMoves
<1>5. Rest /\ \A u \in Tabs : Front(u)' = Front(u)
  BY <1>4, CallsStay DEF SubmitEmail, Rest, IInv, TypeOK
<1>6. PICK y \in Call : y = Front(t) /\ Sound(y) /\ y = Front(t)'
  BY <1>5, FrontType
<1>7. Grow(None) /\ JarStays /\ Turns(t, y)
  BY <1>5, <1>6, GrowStay DEF SubmitEmail, JarStays, Loses, Turns, OthersWait
<1>8. Sound(y)'
  BY <1>6, <1>7, GrowSound
<1>9. /\ y.cookies.token = None \/ Known(y.cookies.token)
      /\ Keeps(t, y) \/ Drops(t, y)
  BY <1>6 DEF Known, Keeps, Drops
<1> QED
  BY <1>4, <1>5, <1>7, <1>8, <1>9, Turn

LEMMA FinishAttemptStep ==
  ASSUME IInv, NEW t \in Tabs, NEW i \in Links, FinishAttempt(t, i)
  PROVE  IInv'
<1>1. UNCHANGED <<jar, tab, calls, profile, ghosts>> /\ jar' \in Jar
      /\ outside' \in 0 .. MaxOutside
  BY DEF FinishAttempt, IInv, TypeOK
<1> QED
  BY <1>1, GrowFinalize, RowsStep DEF FinishAttempt

-----------------------------------------------------------------------------
(* The server's steps.                                                     *)

Replies == Views \cup {"OK", "REFUSED"}

LEMMA RepliedIs ==
  ASSUME NEW c \in Call, NEW r \in Replies, NEW a \in Links \cup {None}
  PROVE  LET x == Replied(c, r, a)
         IN  /\ x \in Call /\ x.op = c.op /\ x.stage = "answered"
             /\ x.reply = r /\ x.token = a /\ x.cookies.token = None
             /\ a # None => x.cookies.session = c.cookies.session
BY DEF Replied, NewCall, NoCookies, Call, Jar, Replies

LEMMA FrontIs ==
  ASSUME NEW t \in Tabs, calls[t] # <<>>
  PROVE  Front(t) = Head1(t)
BY DEF Front, Head1

(* The link a call is about to use has no attempt yet.                     *)
LEMMA NotUnderWay ==
  ASSUME IInv, NEW t \in Tabs, Front(t).stage # "answered", Front(t).token # None
  PROVE  Loses(Front(t).token)
BY FrontType DEF Sound, Loses, UnderWay

(* An answer without a token.                                              *)
LEMMA RefuseStep ==
  ASSUME IInv, NEW t \in Tabs, calls[t] # <<>>, Front(t).stage # "answered",
         NEW r \in Replies, Front(t).op \in {"page", "status"} => r \in Views,
         Reply(t, r), UNCHANGED <<jar, tab, rows, ghosts>>, profile' \subseteq Emails
  PROVE  IInv'
<1>1. PICK x \in Call :
        /\ x = Replied(Front(t), r, None)
        /\ x.op = Front(t).op /\ x.stage = "answered" /\ x.reply = r
        /\ x.token = None /\ x.cookies.token = None
  BY FrontType, RepliedIs
<1>2. Becomes(t, x)
  BY <1>1, FrontIs DEF Reply
<1>3. Sound(x)'
  BY <1>1 DEF Sound, Starting
<1>4. Drops(t, x) /\ Grow(None)
  BY <1>1, NotUnderWay, GrowStay DEF Drops
<1> QED
  BY <1>1, <1>2, <1>3, <1>4, ServerTurn

(* An answer that carries a token the browser sent.                        *)
LEMMA ReplyStep ==
  ASSUME IInv, NEW t \in Tabs, calls[t] # <<>>, Front(t).stage # "answered",
         Front(t).op # "start", NEW r \in Replies,
         Front(t).op \in {"page", "status"} => r \in Views,
         Front(t).cookies.session # None,
         TokenBelongsToIdentity(Front(t).cookies.session, Front(t).cookies.token),
         ReplyWith(t, r, Front(t).cookies.token),
         UNCHANGED <<jar, tab, server, ghosts>>
  PROVE  IInv'
<1>1. PICK a \in Links : a = Front(t).cookies.token /\ Known(a)
  BY FrontType DEF Call, Jar, TokenBelongsToIdentity, Known
<1>2. PICK x \in Call :
        /\ x = Replied(Front(t), r, a)
        /\ x.op = Front(t).op /\ x.stage = "answered" /\ x.reply = r
        /\ x.token = a /\ x.cookies.token = None
        /\ x.cookies.session = Front(t).cookies.session
  BY FrontType, RepliedIs, TryAssumption
<1>3. Becomes(t, x)
  BY <1>1, <1>2, FrontIs DEF ReplyWith
<1>4. OwnLink(x.cookies.session, a)
  BY <1>1, <1>2 DEF TokenBelongsToIdentity, OwnLink
<1>5. Sound(x)
  BY <1>2, <1>4 DEF Sound, Starting
<1>6. Drops(t, x) /\ Grow(None)
  BY <1>1, <1>2, GrowStay DEF Drops
<1>7. Sound(x)'
  BY <1>2, <1>5, <1>6, GrowSound
<1>8. profile' \subseteq Emails
  BY DEF IInv, TypeOK
<1> QED
  BY <1>2, <1>3, <1>6, <1>7, <1>8, ServerTurn

(* The call goes on, with the token it holds.                              *)
LEMMA GoesOn ==
  ASSUME IInv, NEW t \in Tabs, calls[t] # <<>>, NEW c \in Call, Becomes(t, c),
         c.op = Front(t).op, c.token = Front(t).token,
         c.cookies.token \in {None, Front(t).cookies.token, jar.token},
         Grow(None), Sound(c)', UNCHANGED <<jar, tab, profile, ghosts>>
  PROVE  IInv'
<1>1. c.cookies.token = None \/ Known(c.cookies.token)
  BY DEF Known
<1>2. Keeps(t, c) \/ Drops(t, c)
  BY DEF Keeps, Drops, Known
<1>3. profile' \subseteq Emails
  BY DEF IInv, TypeOK
<1> QED
  BY <1>1, <1>2, <1>3, ServerTurn

LEMMA GoesOnStill ==
  ASSUME IInv, NEW t \in Tabs, calls[t] # <<>>, NEW c \in Call, Becomes(t, c),
         c.op = Front(t).op, c.token = Front(t).token,
         c.cookies.token \in {None, Front(t).cookies.token, jar.token},
         Sound(c), UNCHANGED <<jar, tab, server, ghosts>>
  PROVE  IInv'
<1>1. Grow(None)
  BY GrowStay
<1>2. Sound(c)'
  BY <1>1, GrowSound
<1> QED
  BY <1>1, <1>2, GoesOn

LEMMA AtIs ==
  ASSUME IInv, NEW t \in Tabs, NEW stage, At(t, stage)
  PROVE  /\ calls[t] # <<>> /\ Front(t) = Head1(t) /\ Front(t).stage = stage
         /\ Front(t) \in Call /\ Sound(Front(t))
BY FrontIs, FrontType DEF At

LEMMA SendStep ==
  ASSUME IInv, NEW t \in Tabs, Send(t)
  PROVE  IInv'
<1>1. /\ calls[t] # <<>> /\ Front(t) = Head1(t) /\ Front(t).stage = "queued"
      /\ Front(t) \in Call /\ Sound(Front(t))
  BY AtIs DEF Send
<1>2. PICK k : k = IF Front(t).op \in {"profile", "start"}
                   THEN [jar EXCEPT !.token = None] ELSE jar
  OBVIOUS
<1>3. k \in Jar /\ k.token \in {None, jar.token}
  BY <1>2 DEF IInv, TypeOK, Jar
<1>4. PICK c : c = [Front(t) EXCEPT !.stage = "sent", !.cookies = k]
  OBVIOUS
<1>5. /\ c \in Call /\ c.stage = "sent" /\ c.token = Front(t).token
      /\ c.op = Front(t).op /\ c.cookies = k
  BY <1>1, <1>3, <1>4 DEF Call
<1>6. c.token = None
  BY <1>1, <1>5 DEF Sound
<1>7. Sound(c)
  BY <1>5, <1>6 DEF Sound, Starting
<1>8. Becomes(t, c)
  BY <1>1, <1>2, <1>4 DEF Send
<1> QED
  BY <1>1, <1>3, <1>5, <1>7, <1>8, GoesOnStill DEF Send

LEMMA VerifyCodeStep ==
  ASSUME IInv, NEW t \in Tabs, VerifyCode(t)
  PROVE  IInv'
<1>1. calls[t] # <<>> /\ Front(t) = Head1(t) /\ Front(t).stage = "queued"
      /\ Front(t).op = "verify"
  BY AtIs DEF VerifyCode
<1>2. PICK r \in {"OK", "REFUSED"} : Reply(t, r)
  BY DEF VerifyCode
<1>3. UNCHANGED <<jar, tab, rows, ghosts>> /\ profile' \subseteq Emails
  BY DEF VerifyCode, IInv, TypeOK
<1> QED
  BY <1>1, <1>2, <1>3, RefuseStep DEF Replies

LEMMA SwitchToStep ==
  ASSUME IInv, NEW t \in Tabs, SwitchToAnotherEmail(t)
  PROVE  IInv'
<1>1. calls[t] # <<>> /\ Front(t) = Head1(t) /\ Front(t).stage = "queued"
      /\ Front(t).op = "switch" /\ Reply(t, "OK")
  BY AtIs DEF SwitchToAnotherEmail
<1>2. UNCHANGED <<jar, tab, rows, ghosts>> /\ profile' \subseteq Emails
  BY DEF SwitchToAnotherEmail, IInv, TypeOK
<1> QED
  BY <1>1, <1>2, RefuseStep DEF Replies

LEMMA ServingIs ==
  ASSUME IInv, NEW t \in Tabs, NEW op, Serving(t, op)
  PROVE  /\ calls[t] # <<>> /\ Front(t) = Head1(t) /\ Front(t).stage = "sent"
         /\ Front(t).op = op /\ Front(t) \in Call /\ Sound(Front(t))
BY AtIs DEF Serving, At

LEMMA UpdateProfileStep ==
  ASSUME IInv, NEW t \in Tabs, UpdateProfile(t)
  PROVE  IInv'
<1>1. calls[t] # <<>> /\ Front(t) = Head1(t) /\ Front(t).stage = "sent"
      /\ Front(t).op = "profile"
  BY ServingIs DEF UpdateProfile
<1>2. UNCHANGED <<jar, tab, rows, ghosts>>
  BY DEF UpdateProfile
<1>3. Front(t).cookies.session \in Emails \cup {None}
  BY FrontType DEF Call, Jar
<1>4. profile' \subseteq Emails
  BY <1>1, <1>3 DEF UpdateProfile, IInv, TypeOK
<1>5. \E r \in {"OK", "REFUSED"} : Reply(t, r)
  BY DEF UpdateProfile
<1> QED
  BY <1>1, <1>2, <1>4, <1>5, RefuseStep DEF Replies

LEMMA ResumeStep ==
  ASSUME IInv, NEW t \in Tabs, ResumeActiveAttempt(t)
  PROVE  IInv'
<1>1. calls[t] # <<>> /\ Front(t) = Head1(t) /\ Front(t).stage = "sent"
      /\ Front(t).op = "resume"
  BY ServingIs DEF ResumeActiveAttempt
<1>2. UNCHANGED <<jar, tab, server, ghosts>> /\ profile' \subseteq Emails
  BY DEF ResumeActiveAttempt, IInv, TypeOK
<1>3. CASE Reply(t, "REFUSED")
  BY <1>1, <1>2, <1>3, RefuseStep DEF Replies
<1>4. CASE ~ Reply(t, "REFUSED")
  BY <1>1, <1>2, <1>4, ReplyStep DEF ResumeActiveAttempt, Replies
<1> QED
  BY <1>3, <1>4

(* The call has read something.                                            *)
LEMMA ReadStep ==
  ASSUME IInv, NEW t \in Tabs, calls[t] # <<>>, Front(t).op # "start",
         Front(t).stage \in {"sent", "reading"}, Front(t).cookies.session # None,
         NEW c \in Call, Becomes(t, c), c.stage = "reading", c.op = Front(t).op,
         c.token = Front(t).token, c.cookies = Front(t).cookies,
         UNCHANGED <<jar, tab, server, ghosts>>
  PROVE  IInv'
<1>1. c.token = None
  BY FrontType DEF Sound
<1>2. Sound(c)
  BY <1>1 DEF Sound, Starting
<1> QED
  BY <1>2, GoesOnStill

LEMMA ReadEligibilityStep ==
  ASSUME IInv, NEW t \in Tabs, ReadEligibility(t)
  PROVE  IInv'
<1>1. calls[t] # <<>> /\ Front(t) = Head1(t) /\ Front(t).stage = "sent"
      /\ Front(t).op \in {"page", "status"}
  BY ServingIs DEF ReadEligibility
<1>2. UNCHANGED <<jar, tab, server, ghosts>> /\ profile' \subseteq Emails
  BY DEF ReadEligibility, IInv, TypeOK
<1>3. ASSUME NEW r \in {"email", "profile"}, Reply(t, r)
      PROVE  IInv'
  BY <1>1, <1>2, <1>3, RefuseStep DEF Views, Replies
<1>4. ASSUME Front(t).cookies.session # None,
             Becomes(t, [Front(t) EXCEPT !.stage = "reading"])
      PROVE  IInv'
  <2>1. PICK c : c = [Front(t) EXCEPT !.stage = "reading"]
    OBVIOUS
  <2>2. /\ c \in Call /\ c.stage = "reading" /\ c.token = Front(t).token
        /\ c.cookies = Front(t).cookies /\ c.op = Front(t).op
    BY <2>1, FrontType DEF Call
  <2> QED
    BY <1>1, <1>2, <1>4, <2>1, <2>2, ReadStep
<1> QED
  BY <1>1, <1>3, <1>4 DEF ReadEligibility

LEMMA ReadingIs ==
  ASSUME IInv, NEW t \in Tabs, At(t, "reading")
  PROVE  /\ calls[t] # <<>> /\ Front(t) = Head1(t) /\ Front(t).stage = "reading"
         /\ Front(t).op # "start" /\ Front(t).cookies.session # None
BY AtIs DEF Sound

LEMMA CountCompletedStep ==
  ASSUME IInv, NEW t \in Tabs, CountCompleted(t)
  PROVE  IInv'
<1>1. /\ calls[t] # <<>> /\ Front(t) = Head1(t) /\ Front(t).stage = "reading"
      /\ Front(t).op # "start" /\ Front(t).cookies.session # None
  BY ReadingIs DEF CountCompleted
<1>2. PICK b \in BOOLEAN : b = UsedUp(Front(t).cookies.session)
  <2>1. UsedUp(Front(t).cookies.session) \in BOOLEAN
    BY DEF UsedUp
  <2> QED
    BY <2>1
<1>3. PICK c : c = [Front(t) EXCEPT !.over = {b}]
  OBVIOUS
<1>4. /\ c \in Call /\ c.stage = "reading" /\ c.token = Front(t).token
      /\ c.cookies = Front(t).cookies /\ c.op = Front(t).op
  BY <1>1, <1>3, FrontType DEF Call
<1>5. Becomes(t, c)
  BY <1>1, <1>2, <1>3 DEF CountCompleted
<1> QED
  BY <1>1, <1>4, <1>5, ReadStep DEF CountCompleted

LEMMA FindActiveStep ==
  ASSUME IInv, NEW t \in Tabs, FindActive(t)
  PROVE  IInv'
<1>1. /\ calls[t] # <<>> /\ Front(t) = Head1(t) /\ Front(t).stage = "reading"
      /\ Front(t).op # "start" /\ Front(t).cookies.session # None
  BY ReadingIs DEF FindActive
<1>2. PICK b \in BOOLEAN : b = (ActiveOf(Front(t).cookies.session) # {})
  OBVIOUS
<1>3. PICK c : c = [Front(t) EXCEPT !.active = {b}]
  OBVIOUS
<1>4. /\ c \in Call /\ c.stage = "reading" /\ c.token = Front(t).token
      /\ c.cookies = Front(t).cookies /\ c.op = Front(t).op
  BY <1>1, <1>3, FrontType DEF Call
<1>5. Becomes(t, c)
  BY <1>1, <1>2, <1>3 DEF FindActive
<1> QED
  BY <1>1, <1>4, <1>5, ReadStep DEF FindActive

LEMMA DecideStep ==
  ASSUME IInv, NEW t \in Tabs, Decide(t)
  PROVE  IInv'
<1>1. /\ calls[t] # <<>> /\ Front(t) = Head1(t) /\ Front(t).stage = "reading"
      /\ Front(t).op # "start" /\ Front(t).cookies.session # None
  BY ReadingIs DEF Decide
<1>2. UNCHANGED <<jar, tab, server, ghosts>> /\ profile' \subseteq Emails
  BY DEF Decide, IInv, TypeOK
<1>3. ASSUME NEW r \in {"closed", "ready"}, Reply(t, r)
      PROVE  IInv'
  BY <1>1, <1>2, <1>3, RefuseStep DEF Views, Replies
<1>4. ASSUME TokenBelongsToIdentity(Front(t).cookies.session, Front(t).cookies.token),
             NEW r \in {"runner", "resume"}, ReplyWith(t, r, Front(t).cookies.token)
      PROVE  IInv'
  BY <1>1, <1>2, <1>4, ReplyStep DEF Views, Replies
<1> QED
  BY <1>1, <1>3, <1>4 DEF Decide

LEMMA FailCallStep ==
  ASSUME IInv, NEW t \in Tabs, FailCall(t)
  PROVE  IInv'
<1>1. calls[t] # <<>> /\ Front(t) = Head1(t) /\ Front(t).stage # "answered"
  BY FrontIs DEF FailCall, At, Starting
<1>2. UNCHANGED <<jar, tab, rows, ghosts>> /\ profile' \subseteq Emails
  BY DEF FailCall, IInv, TypeOK
<1> QED
  BY <1>1, <1>2, RefuseStep DEF FailCall, Views, Replies

-----------------------------------------------------------------------------
(* The steps of a start.                                                   *)

LEMMA StartIs ==
  ASSUME IInv, NEW t \in Tabs, NEW stage \in Starting, At(t, stage)
  PROVE  /\ calls[t] # <<>> /\ Front(t) = Head1(t) /\ Front(t).stage = stage
         /\ Front(t) \in Call /\ Sound(Front(t)) /\ Front(t).op = "start"
         /\ Front(t).cookies.session \in Emails
BY AtIs DEF Sound, Call, Jar

LEMMA NotAnswered == "answered" \notin Starting
BY DEF Starting

LEMMA RefuseStart ==
  ASSUME IInv, NEW t \in Tabs, NEW stage \in Starting \cup {"sent"}, At(t, stage),
         Front(t).op = "start", Reply(t, "REFUSED"),
         UNCHANGED <<jar, tab, server, ghosts>>
  PROVE  IInv'
<1>1. calls[t] # <<>> /\ Front(t).stage # "answered"
  BY AtIs, NotAnswered
<1>2. profile' \subseteq Emails
  BY DEF IInv, TypeOK
<1> QED
  BY <1>1, <1>2, RefuseStep DEF Replies

LEMMA StartPublicStep ==
  ASSUME IInv, NEW t \in Tabs, StartPublicAttempt(t)
  PROVE  IInv'
<1>1. /\ calls[t] # <<>> /\ Front(t) = Head1(t) /\ Front(t).stage = "sent"
      /\ Front(t).op = "start" /\ Front(t) \in Call /\ Sound(Front(t))
  BY ServingIs DEF StartPublicAttempt
<1>2. UNCHANGED <<jar, tab, server, ghosts>>
  BY DEF StartPublicAttempt
<1>3. CASE MayStart(Front(t).cookies.session)
  <2>1. PICK c : c = [Front(t) EXCEPT !.stage = "assign"]
    OBVIOUS
  <2>2. /\ c \in Call /\ c.stage = "assign" /\ c.token = Front(t).token
        /\ c.cookies = Front(t).cookies /\ c.op = Front(t).op
    BY <1>1, <2>1 DEF Call, Starting
  <2>3. Becomes(t, c)
    BY <1>1, <1>3, <2>1 DEF StartPublicAttempt, GoOn
  <2>4. Sound(c)
    BY <1>1, <1>3, <2>2 DEF Sound, MayStart
  <2> QED
    BY <1>1, <1>2, <2>2, <2>3, <2>4, GoesOnStill
<1>4. CASE ~ MayStart(Front(t).cookies.session)
  BY <1>1, <1>2, <1>4, RefuseStart DEF StartPublicAttempt, Serving
<1> QED
  BY <1>3, <1>4

LEMMA CreateAssignmentStep ==
  ASSUME IInv, NEW t \in Tabs, CreateAssignment(t)
  PROVE  IInv'
<1> DEFINE c0 == Front(t)
           e == c0.cookies.session
<1>1. /\ calls[t] # <<>> /\ c0 = Head1(t) /\ c0.stage = "assign" /\ c0 \in Call
      /\ Sound(c0) /\ c0.op = "start" /\ e \in Emails
  BY StartIs DEF CreateAssignment, Starting
<1>2. c0.token = None
  BY <1>1 DEF Sound
<1>3. UNCHANGED <<jar, tab, profile, link, ghosts>>
  BY DEF CreateAssignment
<1>4. CASE GoOn(t, "recover") /\ UNCHANGED assignment
  <2>1. PICK c : c = [c0 EXCEPT !.stage = "recover"]
    OBVIOUS
  <2>2. /\ c \in Call /\ c.stage = "recover" /\ c.token = c0.token
        /\ c.cookies = c0.cookies /\ c.op = c0.op
    BY <1>1, <2>1 DEF Call, Starting
  <2>3. Sound(c)
    BY <1>1, <1>2, <2>2, TryAssumption DEF Sound
  <2>4. Becomes(t, c)
    BY <1>1, <1>4, <2>1 DEF GoOn
  <2> QED
    BY <1>1, <1>3, <1>4, <2>2, <2>3, <2>4, GoesOnStill
<1>5. ASSUME NEW s \in Assignments, ActiveOf(e) = {}, assignment[s].stage = "ABSENT",
             assignment' = WithAssignment(s, e),
             Becomes(t, [c0 EXCEPT !.stage = "invite", !.assignment = s])
      PROVE  IInv'
  <2>1. PICK c : c = [c0 EXCEPT !.stage = "invite", !.assignment = s]
    OBVIOUS
  <2>2. /\ c \in Call /\ c.stage = "invite" /\ c.token = c0.token
        /\ c.cookies = c0.cookies /\ c.op = c0.op /\ c.assignment = s
    BY <1>1, <2>1 DEF Call, Starting
  <2>3. Grow(None) /\ assignment'[s].stage = "PENDING" /\ assignment'[s].email = e
    BY <1>1, <1>3, <1>5, GrowAssignment
  <2>4. Sound(c)'
    BY <1>1, <1>2, <2>2, <2>3, TryAssumption DEF Sound
  <2> QED
    BY <1>1, <1>3, <1>5, <2>1, <2>2, <2>3, <2>4, GoesOn
<1> QED
  BY <1>1, <1>4, <1>5 DEF CreateAssignment

(* The call has made the link i.                                           *)
LEMMA HoldStep ==
  ASSUME IInv, NEW t \in Tabs, NEW stage \in {"invite", "regenerate"}, At(t, stage),
         NEW i \in Links, Holding(t, i), link[i].status = "ABSENT", Grow(None),
         NEW e \in Emails, e = Front(t).cookies.session,
         link'[i].status # "ABSENT", link'[i].here, link'[i].attempt = "NO",
         assignment'[link'[i].assignment].email = e,
         UNCHANGED <<jar, tab, profile, ghosts>>
  PROVE  IInv'
<1>1. /\ calls[t] # <<>> /\ Front(t) = Head1(t) /\ Front(t).stage = stage
      /\ Front(t) \in Call /\ Sound(Front(t)) /\ Front(t).op = "start"
      /\ Front(t).cookies.session \in Emails
  BY StartIs DEF Starting
<1>2. PICK c : c = [Front(t) EXCEPT !.stage = "validate", !.assignment = None,
                                    !.current = None, !.token = i]
  OBVIOUS
<1>3. /\ c \in Call /\ c.stage = "validate" /\ c.token = i /\ i # None
      /\ c.cookies = Front(t).cookies /\ c.op = "start"
  BY <1>1, <1>2, TryAssumption DEF Call, Starting
<1>4. Becomes(t, c)
  BY <1>1, <1>2 DEF Holding
<1>5. Front(t).token = None
  BY <1>1 DEF Sound
<1>6. Gains(t, c)
  BY <1>3, <1>5 DEF Gains
<1>7. c.cookies.session = e /\ e # None
  BY <1>3, TryAssumption
<1>8. OwnLink(e, i)'
  BY DEF OwnLink, EmailOf
<1>9. Sound(c)'
  BY <1>3, <1>7, <1>8 DEF Sound
<1>10. c.cookies.token = None \/ Known(c.cookies.token)
  BY <1>3 DEF Known
<1>11. profile' \subseteq Emails
  BY DEF IInv, TypeOK
<1> QED
  BY <1>1, <1>3, <1>4, <1>6, <1>9, <1>10, <1>11, ServerTurn

LEMMA CreateInvitationStep ==
  ASSUME IInv, NEW t \in Tabs, CreateInvitation(t)
  PROVE  IInv'
<1>1. /\ calls[t] # <<>> /\ Front(t) = Head1(t) /\ Front(t).stage = "invite"
      /\ Front(t) \in Call /\ Sound(Front(t)) /\ Front(t).op = "start"
      /\ Front(t).cookies.session \in Emails
  BY StartIs DEF CreateInvitation, Starting
<1>2. PICK e \in Emails : e = Front(t).cookies.session
  BY <1>1
<1>3. PICK s \in Assignments : s = Front(t).assignment
                               /\ assignment[s].stage # "ABSENT"
                               /\ assignment[s].email = e
  BY <1>1, <1>2 DEF Sound, Call
<1>4. UNCHANGED <<jar, tab, profile, assignment, ghosts>>
  BY DEF CreateInvitation
<1>5. CASE /\ Becomes(t, [Front(t) EXCEPT !.stage = "recover", !.assignment = None])
           /\ UNCHANGED link
  <2>1. PICK c : c = [Front(t) EXCEPT !.stage = "recover", !.assignment = None]
    OBVIOUS
  <2>2. /\ c \in Call /\ c.stage = "recover" /\ c.token = Front(t).token
        /\ c.cookies = Front(t).cookies /\ c.op = Front(t).op
    BY <1>1, <2>1 DEF Call, Starting
  <2>3. Sound(c)
    BY <1>1, <2>2, TryAssumption DEF Sound
  <2> QED
    BY <1>1, <1>4, <1>5, <2>1, <2>2, <2>3, GoesOnStill
<1>6. ASSUME NEW i \in Links, LiveLinks(s) = {}, link[i].status = "ABSENT",
             link' = [link EXCEPT ![i] = NewLink(s, None, TRUE)], Holding(t, i)
      PROVE  IInv'
  <2>1. PICK h \in BOOLEAN : h = TRUE
    OBVIOUS
  <2>2. Grow(None) /\ link'[i].status # "ABSENT" /\ link'[i].assignment = s
        /\ link'[i].here = h /\ link'[i].attempt = "NO"
    BY <1>3, <1>4, <1>6, <2>1, GrowIssue
  <2>3. OwnLink(e, i)'
    BY <1>3, <1>4, <2>2 DEF OwnLink, EmailOf
  <2>4. link'[i].here /\ link'[i].status # "ABSENT" /\ link'[i].attempt = "NO"
        /\ assignment'[link'[i].assignment].email = e
    BY <2>1, <2>2, <2>3 DEF OwnLink, EmailOf
  <2> QED
    BY <1>2, <1>4, <1>6, <2>2, <2>4, HoldStep DEF CreateInvitation
<1> QED
  BY <1>1, <1>3, <1>5, <1>6 DEF CreateInvitation

LEMMA RecoverAssignmentStep ==
  ASSUME IInv, NEW t \in Tabs, RecoverAssignment(t)
  PROVE  IInv'
<1>1. /\ calls[t] # <<>> /\ Front(t) = Head1(t) /\ Front(t).stage = "recover"
      /\ Front(t) \in Call /\ Sound(Front(t)) /\ Front(t).op = "start"
      /\ Front(t).cookies.session \in Emails
  BY StartIs DEF RecoverAssignment, Starting
<1>2. UNCHANGED <<jar, tab, server, ghosts>> /\ At(t, "recover")
  BY DEF RecoverAssignment
<1>3. CASE Reply(t, "REFUSED")
  BY <1>1, <1>2, <1>3, RefuseStart DEF Starting
<1>4. ASSUME NEW s \in ActiveOf(Front(t).cookies.session),
             Becomes(t, [Front(t) EXCEPT !.stage = "find", !.assignment = s])
      PROVE  IInv'
  <2>1. PICK c : c = [Front(t) EXCEPT !.stage = "find", !.assignment = s]
    OBVIOUS
  <2>2. s \in Assignments /\ assignment[s].email = Front(t).cookies.session
        /\ assignment[s].stage # "ABSENT"
    BY DEF ActiveOf
  <2>3. /\ c \in Call /\ c.stage = "find" /\ c.token = Front(t).token
        /\ c.cookies = Front(t).cookies /\ c.op = Front(t).op /\ c.assignment = s
    BY <1>1, <2>1, <2>2 DEF Call, Starting
  <2>4. Sound(c)
    BY <1>1, <2>2, <2>3, TryAssumption DEF Sound
  <2> QED
    BY <1>1, <1>2, <1>4, <2>1, <2>3, <2>4, GoesOnStill
<1> QED
  BY <1>1, <1>3, <1>4 DEF RecoverAssignment

LEMMA FindInvitationStep ==
  ASSUME IInv, NEW t \in Tabs, FindInvitation(t)
  PROVE  IInv'
<1>1. /\ calls[t] # <<>> /\ Front(t) = Head1(t) /\ Front(t).stage = "find"
      /\ Front(t) \in Call /\ Sound(Front(t)) /\ Front(t).op = "start"
      /\ Front(t).cookies.session \in Emails
  BY StartIs DEF FindInvitation, Starting
<1>2. UNCHANGED <<jar, tab, server, ghosts>> /\ At(t, "find")
  BY DEF FindInvitation
<1>3. CASE Reply(t, "REFUSED")
  BY <1>1, <1>2, <1>3, RefuseStart DEF Starting
<1>4. ASSUME NEW i \in LiveLinks(Front(t).assignment),
             Becomes(t, [Front(t) EXCEPT !.stage = "regenerate",
                                         !.assignment = None, !.current = i])
      PROVE  IInv'
  <2>1. PICK c : c = [Front(t) EXCEPT !.stage = "regenerate",
                                      !.assignment = None, !.current = i]
    OBVIOUS
  <2>2. i \in Links /\ OwnLink(Front(t).cookies.session, i)
    BY <1>1 DEF LiveLinks, OwnLink, EmailOf, Sound
  <2>3. /\ c \in Call /\ c.stage = "regenerate" /\ c.token = Front(t).token
        /\ c.cookies = Front(t).cookies /\ c.op = Front(t).op /\ c.current = i
    BY <1>1, <2>1, <2>2 DEF Call, Starting
  <2>4. Sound(c)
    BY <1>1, <2>2, <2>3, TryAssumption DEF Sound
  <2> QED
    BY <1>1, <1>2, <1>4, <2>1, <2>3, <2>4, GoesOnStill
<1> QED
  BY <1>1, <1>3, <1>4 DEF FindInvitation

LEMMA RegenerateInvitationStep ==
  ASSUME IInv, NEW t \in Tabs, RegenerateInvitation(t)
  PROVE  IInv'
<1>1. /\ calls[t] # <<>> /\ Front(t) = Head1(t) /\ Front(t).stage = "regenerate"
      /\ Front(t) \in Call /\ Sound(Front(t)) /\ Front(t).op = "start"
      /\ Front(t).cookies.session \in Emails
  BY StartIs DEF RegenerateInvitation, Starting
<1>2. PICK e \in Emails : e = Front(t).cookies.session
  BY <1>1
<1>3. PICK current \in Links : current = Front(t).current /\ OwnLink(e, current)
  BY <1>1, <1>2 DEF Sound, Call
<1>4. UNCHANGED <<jar, tab, profile, assignment, ghosts>> /\ At(t, "regenerate")
  BY DEF RegenerateInvitation
<1>5. CASE Reply(t, "REFUSED") /\ UNCHANGED link
  BY <1>1, <1>4, <1>5, RefuseStart DEF Starting
<1>6. ASSUME NEW i \in Links, RegenerationAllowed(current), link[i].status = "ABSENT",
             link' = Regenerated(current, i, TRUE), Holding(t, i)
      PROVE  IInv'
  <2>1. PICK h \in BOOLEAN : h = TRUE
    OBVIOUS
  <2>2. Grow(None) /\ link'[i].status # "ABSENT"
        /\ link'[i].assignment = link[current].assignment
        /\ link'[i].here = h /\ link'[i].attempt = "NO"
    BY <1>3, <1>4, <1>6, <2>1, GrowRegenerate DEF OwnLink
  <2>3. assignment'[link'[i].assignment].email = e
    BY <1>3, <1>4, <2>2 DEF OwnLink, EmailOf
  <2> QED
    BY <1>2, <1>4, <1>6, <2>1, <2>2, <2>3, HoldStep
<1> QED
  BY <1>1, <1>3, <1>5, <1>6 DEF RegenerateInvitation

LEMMA ValidateLinkStep ==
  ASSUME IInv, NEW t \in Tabs, ValidateLink(t)
  PROVE  IInv'
<1>1. /\ calls[t] # <<>> /\ Front(t) = Head1(t) /\ Front(t).stage = "validate"
      /\ Front(t) \in Call /\ Sound(Front(t)) /\ Front(t).op = "start"
      /\ Front(t).cookies.session \in Emails
  BY StartIs DEF ValidateLink, Starting
<1>2. UNCHANGED <<jar, tab, server, ghosts>> /\ At(t, "validate")
  BY DEF ValidateLink
<1>3. CASE Reply(t, "REFUSED")
  BY <1>1, <1>2, <1>3, RefuseStart DEF Starting
<1>4. CASE GoOn(t, "create")
  <2>1. PICK c : c = [Front(t) EXCEPT !.stage = "create"]
    OBVIOUS
  <2>2. /\ c \in Call /\ c.stage = "create" /\ c.token = Front(t).token
        /\ c.cookies = Front(t).cookies /\ c.op = Front(t).op
    BY <1>1, <2>1 DEF Call, Starting
  <2>3. Sound(c)
    BY <1>1, <2>2 DEF Sound
  <2>4. Becomes(t, c)
    BY <1>1, <1>4, <2>1 DEF GoOn
  <2> QED
    BY <1>1, <1>2, <2>2, <2>3, <2>4, GoesOnStill
<1> QED
  BY <1>3, <1>4 DEF ValidateLink

LEMMA CreateAttemptStep ==
  ASSUME IInv, NEW t \in Tabs, CreateAttempt(t)
  PROVE  IInv'
<1>1. /\ calls[t] # <<>> /\ Front(t) = Head1(t) /\ Front(t).stage = "create"
      /\ Front(t) \in Call /\ Sound(Front(t)) /\ Front(t).op = "start"
      /\ Front(t).cookies.session \in Emails
  BY StartIs DEF CreateAttempt, Starting
<1>2. PICK e \in Emails : e = Front(t).cookies.session /\ e # None
  BY <1>1, TryAssumption
<1>3. PICK i \in Links : i = Front(t).token /\ OwnLink(e, i) /\ link[i].here
                         /\ i # None
  BY <1>1, <1>2, TryAssumption DEF Sound, Call
<1>4. Begin(i) /\ ReplyWith(t, "OK", i) /\ UNCHANGED <<jar, tab, profile, ghosts>>
  BY <1>1, <1>3 DEF CreateAttempt
<1>5. Grow(i)
  BY <1>3, <1>4, GrowBegin DEF OwnLink
<1>6. PICK x \in Call :
        /\ x = Replied(Front(t), "OK", i)
        /\ x.op = "start" /\ x.stage = "answered" /\ x.reply = "OK"
        /\ x.token = i /\ x.cookies.token = None /\ x.cookies.session = e
  BY <1>1, <1>2, <1>3, RepliedIs DEF Replies
<1>7. Becomes(t, x)
  BY <1>1, <1>4, <1>6 DEF ReplyWith
<1>8. OwnLink(e, i)' /\ link'[i].here
  <2>1. link[i].assignment \in Assignments
        /\ assignment[link[i].assignment].stage # "ABSENT"
    BY <1>3 DEF OwnLink, IInv, TypeOK, Link, RowsLinked
  <2>2. /\ link'[i].status # "ABSENT" /\ link'[i].assignment = link[i].assignment
        /\ link'[i].here = link[i].here
        /\ assignment'[link[i].assignment].email = assignment[link[i].assignment].email
    BY <1>3, <1>5, <2>1 DEF Grow, OwnLink
  <2> QED
    BY <1>3, <2>2 DEF OwnLink, EmailOf
<1>9. Sound(x)'
  BY <1>2, <1>6, <1>8 DEF Sound, Starting
<1>10. Keeps(t, x)
  BY <1>1, <1>3, <1>6 DEF Keeps
<1>11. profile' \subseteq Emails
  BY <1>4 DEF IInv, TypeOK
<1> QED
  BY <1>1, <1>4, <1>5, <1>6, <1>7, <1>9, <1>10, <1>11, ServerTurn

-----------------------------------------------------------------------------
(* The browser's steps.                                                    *)

LEMMA AnsweredIs ==
  ASSUME IInv, NEW t \in Tabs, NEW op, Answered(t, op)
  PROVE  /\ calls[t] # <<>> /\ Front(t) = Head1(t) /\ Front(t) \in Call
         /\ Front(t).stage = "answered" /\ Front(t).op = op /\ Sound(Front(t))
BY FrontIs, FrontType DEF Answered, At

(* An answer to a call that is not a start.                                *)
LEMMA AnswerStep ==
  ASSUME IInv, NEW t \in Tabs, calls[t] # <<>>, Front(t).op # "start",
         Receive(t) \/ \E op \in Ops : ReceiveThen(t, op),
         jar' \in Jar, tab' \in [Tabs -> Tab], TabsKnow, JarStays,
         dropped \subseteq dropped', dropped' \subseteq Links,
         UNCHANGED <<server, outside>>
  PROVE  IInv'
<1>1. outside' \in 0 .. MaxOutside
  BY DEF IInv, TypeOK
<1> QED
  BY <1>1, ReceiveTurn

LEMMA SameToken ==
  ASSUME IInv, UNCHANGED dropped, jar'.token = jar.token
  PROVE  JarStays /\ dropped \subseteq dropped' /\ dropped' \subseteq Links
BY DEF JarStays, Loses, IInv, TypeOK

LEMMA VerifiedStep ==
  ASSUME IInv, NEW t \in Tabs, Verified(t)
  PROVE  IInv'
<1>1. calls[t] # <<>> /\ Front(t).op = "verify"
  BY AnsweredIs DEF Verified
<1>2. tab' \in [Tabs -> Tab] /\ TabsKnow
  BY BusyIs DEF Verified, Free
<1>3. jar' \in Jar /\ jar'.token = jar.token
  BY TabType DEF Verified, IInv, TypeOK, Jar, Tab
<1>4. Receive(t) \/ ReceiveThen(t, "status")
  BY DEF Verified
<1>5. UNCHANGED <<server, ghosts>>
  BY DEF Verified
<1> QED
  BY <1>1, <1>2, <1>3, <1>4, <1>5, SameToken, AnswerStep DEF Ops

LEMMA LosesThem ==
  ASSUME IInv, NEW tokens \in SUBSET Links, Lose(tokens)
  PROVE  /\ dropped \subseteq dropped' /\ dropped' \subseteq Links
         /\ \A a \in tokens : Loses(a)
BY DEF Lose, Loses, IInv, TypeOK

LEMMA SwitchedStep ==
  ASSUME IInv, NEW t \in Tabs, Switched(t)
  PROVE  IInv'
<1>1. calls[t] # <<>> /\ Front(t).op = "switch" /\ ReceiveThen(t, "page")
  BY AnsweredIs DEF Switched
<1>2. tab' \in [Tabs -> Tab] /\ TabsKnow
  BY LoadingType, TabMoves DEF Switched
<1>3. NoCookies \in Jar /\ NoCookies.token = None /\ jar \in Jar
  BY DEF NoCookies, Jar, IInv, TypeOK
<1>4. PICK tokens : tokens = {jar.token} \ {None}
  OBVIOUS
<1>5. tokens \in SUBSET Links
  BY <1>3, <1>4 DEF Jar
<1>6. UNCHANGED <<server, outside>>
  BY DEF Switched
<1>7. CASE jar' = NoCookies /\ Lose(tokens)
  <2>1. /\ dropped \subseteq dropped' /\ dropped' \subseteq Links /\ JarStays
    BY <1>3, <1>4, <1>5, <1>7, LosesThem DEF JarStays
  <2> QED
    BY <1>1, <1>2, <1>3, <1>6, <1>7, <2>1, AnswerStep DEF Ops
<1>8. CASE UNCHANGED <<jar, dropped>>
  BY <1>1, <1>2, <1>3, <1>6, <1>8, SameToken, AnswerStep DEF Ops
<1> QED
  BY <1>4, <1>7, <1>8 DEF Switched

LEMMA ProfileSavedStep ==
  ASSUME IInv, NEW t \in Tabs, ProfileSaved(t)
  PROVE  IInv'
<1>1. calls[t] # <<>> /\ Front(t).op = "profile"
  BY AnsweredIs DEF ProfileSaved
<1>2. tab' \in [Tabs -> Tab] /\ TabsKnow
  BY BusyIs DEF ProfileSaved, Free
<1>3. Receive(t) \/ ReceiveThen(t, "status")
  BY DEF ProfileSaved
<1>4. UNCHANGED <<jar, server, ghosts>> /\ jar' \in Jar
  BY DEF ProfileSaved, IInv, TypeOK
<1> QED
  BY <1>1, <1>2, <1>3, <1>4, SameToken, AnswerStep DEF Ops

LEMMA StatusShownStep ==
  ASSUME IInv, NEW t \in Tabs, StatusShown(t)
  PROVE  IInv'
<1>1. calls[t] # <<>> /\ Front(t).op \in {"page", "status"} /\ Front(t) = Head1(t)
      /\ Front(t).stage = "answered"
  BY AnsweredIs DEF StatusShown
<1>2. PICK c \in Call : c = Front(t) /\ Sound(c)
  BY FrontType
<1> DEFINE x == [view |-> c.reply, busy |-> FALSE, email |-> None,
                 token |-> IF c.reply = "runner" THEN c.token ELSE None]
<1>3. tab' = [tab EXCEPT ![t] = x]
  BY <1>1, <1>2 DEF StatusShown
<1>4. c.reply \in Views
  BY <1>1, <1>2 DEF Sound
<1>5. c.token \in Links \cup {None}
  BY DEF Call
<1>6. x \in Tab
  BY <1>4, <1>5 DEF Tab
<1>7. x.token = None \/ Known(x.token)
  BY <1>1, <1>2 DEF Known
<1> HIDE DEF x
<1>8. tab' \in [Tabs -> Tab] /\ TabsKnow
  BY <1>3, <1>6, <1>7, TabMoves
<1>9. UNCHANGED <<jar, server, ghosts>> /\ jar' \in Jar /\ Receive(t)
  BY DEF StatusShown, IInv, TypeOK
<1> QED
  BY <1>1, <1>8, <1>9, SameToken, AnswerStep

LEMMA RunnerType ==
  ASSUME NEW a \in Links
  PROVE  LET x == [view |-> "runner", busy |-> FALSE, token |-> a, email |-> None]
         IN  x \in Tab /\ x.token = a
BY DEF Tab, Views

LEMMA ResumedStep ==
  ASSUME IInv, NEW t \in Tabs, Resumed(t)
  PROVE  IInv'
<1>1. calls[t] # <<>> /\ Front(t).op = "resume" /\ Front(t) = Head1(t)
  BY AnsweredIs DEF Resumed
<1>2. PICK a \in Links \cup {None} : a = Front(t).token
  BY FrontType DEF Call
<1>3. tab' \in [Tabs -> Tab] /\ TabsKnow
  <2>1. CASE a = None
    BY <1>1, <1>2, <2>1, BusyIs DEF Resumed, Free
  <2>2. CASE a # None
    <3>1. Known(a)
      BY <1>1, <1>2 DEF Known
    <3> QED
      BY <1>1, <1>2, <2>2, <3>1, RunnerType, TabMoves DEF Resumed, OpenRunner
  <2> QED
    BY <2>1, <2>2
<1>4. UNCHANGED <<jar, server, ghosts>> /\ jar' \in Jar /\ Receive(t)
  BY DEF Resumed, IInv, TypeOK
<1> QED
  BY <1>1, <1>3, <1>4, SameToken, AnswerStep

LEMMA OutsideIs ==
  ASSUME IInv, Outside
  PROVE  outside' \in 0 .. MaxOutside
BY TryAssumption DEF Outside, IInv, TypeOK

LEMMA LoseAnswerStep ==
  ASSUME IInv, NEW t \in Tabs, LoseAnswer(t)
  PROVE  IInv'
<1>1. calls[t] # <<>> /\ Front(t) = Head1(t) /\ Receive(t)
  BY FrontIs DEF LoseAnswer, At
<1>2. PICK a \in Links \cup {None} : a = Front(t).token
  BY FrontType DEF Call
<1>3. PICK tokens \in SUBSET Links : tokens = {a} \ {None}
  OBVIOUS
<1>4. UNCHANGED <<jar, tab, server>> /\ outside' \in 0 .. MaxOutside /\ jar' \in Jar
  BY OutsideIs DEF LoseAnswer, IInv, TypeOK
<1>5. /\ dropped \subseteq dropped' /\ dropped' \subseteq Links
      /\ Front(t).op = "start" /\ a # None => Loses(a)
  <2>1. CASE Front(t).op = "start"
    BY <1>1, <1>2, <1>3, <2>1, LosesThem DEF LoseAnswer
  <2>2. CASE Front(t).op # "start"
    BY <1>1, <2>2 DEF LoseAnswer, IInv, TypeOK
  <2> QED
    BY <2>1, <2>2
<1>6. TabsKnow /\ tab' \in [Tabs -> Tab] /\ JarStays
  BY <1>4, TabsStay DEF JarStays, Loses
<1> QED
  BY <1>1, <1>2, <1>4, <1>5, <1>6, ReceiveTurn

(* Of one address only one attempt is under way.                           *)
LEMMA OneUnderWay ==
  ASSUME IInv, NEW a \in Links, NEW b \in Links, UnderWay(a), UnderWay(b),
         EmailOf(a) = EmailOf(b)
  PROVE  a = b
<1>1. /\ link[a].status = "ACTIVE" /\ link[b].status = "ACTIVE"
      /\ Active(link[a].assignment) /\ Active(link[b].assignment)
  BY DEF UnderWay, Active
<1>2. link[a].assignment \in Assignments /\ link[b].assignment \in Assignments
  BY <1>1 DEF IInv, TypeOK, Link, RowsLinked
<1>3. link[a].assignment = link[b].assignment
  BY <1>1, <1>2 DEF EmailOf, IInv, OneActive
<1> QED
  BY <1>1, <1>3 DEF IInv, OneLive

(* The answer to a start that made a: the browser has its token now.       *)
LEMMA StartedStep ==
  ASSUME IInv, NEW t \in Tabs, Started(t)
  PROVE  IInv'
<1>1. /\ calls[t] # <<>> /\ Front(t) = Head1(t) /\ Front(t).op = "start"
      /\ Receive(t)
  BY AnsweredIs DEF Started
<1>2. PICK a \in Links \cup {None} : a = Front(t).token
  BY FrontType DEF Call
<1>3. UNCHANGED <<server, outside>> /\ outside' \in 0 .. MaxOutside
  BY DEF Started, IInv, TypeOK
<1>4. CASE a = None
  <2>1. tab' \in [Tabs -> Tab] /\ TabsKnow
    BY <1>1, <1>2, <1>4, BusyIs DEF Started, Free
  <2>2. UNCHANGED <<jar, dropped>> /\ jar' \in Jar
    BY <1>1, <1>2, <1>4 DEF Started, IInv, TypeOK
  <2> QED
    BY <1>1, <1>2, <1>3, <1>4, <2>1, <2>2, SameToken, ReceiveTurn
<1>5. CASE a # None
  <2>1. PICK x \in Tab : x.token = a /\ tab' = [tab EXCEPT ![t] = x]
    BY <1>1, <1>2, <1>5, RunnerType DEF Started, OpenRunner
  <2>2. tab' \in [Tabs -> Tab] /\ \A u \in Tabs : tab'[u].token = a \/ tab'[u] = tab[u]
    BY <2>1 DEF IInv, TypeOK
  <2>3. jar' = [jar EXCEPT !.token = a] /\ jar' \in Jar /\ jar'.token = a
    BY <1>1, <1>2, <1>5 DEF Started, IInv, TypeOK, Jar
  <2>4. PICK tokens : /\ tokens = {b \in {jar.token} \ {None} :
                                     EmailOf(b) # EmailOf(a) \/ ~ UnderWay(a)}
                      /\ Lose(tokens)
    BY <1>1, <1>2, <1>5 DEF Started
  <2>5. tokens \in SUBSET Links
    BY <2>4 DEF IInv, TypeOK, Jar
  <2>6. /\ dropped \subseteq dropped' /\ dropped' \subseteq Links
        /\ \A b \in tokens : Loses(b)
    BY <2>4, <2>5, LosesThem
  <2>7. PICK y \in Call : y = Front(t)' /\ Blank(y)
    BY <1>1, FrontReceives DEF Blank, NoCookies
  <2>8. QueuesOK' /\ \A u \in Tabs : u # t => Front(u)' = Front(u)
    BY <1>1, FrontReceives
  <2>9. Sound(y)' /\ y.token = None /\ y.cookies.token = None
    BY <2>7, BlankSound
  <2>10. Rest
    BY <1>3, <2>2, <2>3, <2>6, <2>8 DEF Rest, IInv, TypeOK
  <2>11. Grow(None)
    BY <1>3, GrowStay
  <2>12. ASSUME NEW u \in Tabs PROVE Sound(Front(u))'
    <3>1. CASE u = t
      <4>1. PICK z : z = Front(t)' /\ z = y
        BY <2>7
      <4> QED
        BY <2>9, <3>1, <4>1 DEF Sound
    <3>2. CASE u # t
      <4>1. PICK z \in Call : z = Front(u) /\ Sound(z) /\ z = Front(u)'
        BY <2>8, <3>2, FrontType
      <4>2. Sound(z)'
        BY <2>11, <4>1, GrowSound
      <4> QED
        BY <4>1, <4>2 DEF Sound
    <3> QED
      BY <3>1, <3>2
  <2>13. Held(t, a) /\ link[a].status # "ABSENT"
    BY <1>1, <1>2, <1>5, FrontType DEF Held, Sound, OwnLink
  <2>14. ASSUME NEW u \in Tabs, NEW b \in Links
         PROVE  /\ Held(u, b)' => Held(u, b) /\ u # t
                /\ Held(u, b) => Held(u, b)' \/ b = a
    BY <1>2, <2>7, <2>8, <2>9, TryAssumption DEF Held
  <2>15. \A u \in Tabs : ~ Held(u, a)'
    <3>1. \A u \in Tabs : Held(u, a) => u = t
      BY <1>2, <1>5, <2>13 DEF IInv, Tokens
    <3> QED
      BY <1>2, <1>5, <2>14, <3>1
  <2>16. ASSUME NEW b \in Links, Known(b)' PROVE Known(b) \/ b = a
    <3>1. b # None
      BY TryAssumption
    <3>2. ASSUME NEW u \in Tabs,
                 \/ tab'[u].token = b
                 \/ Front(u)'.cookies.token = b
                 \/ Front(u)'.op # "start" /\ Front(u)'.token = b
          PROVE  Known(b) \/ b = a
      <4>1. CASE tab'[u].token = b
        BY <2>2, <4>1 DEF Known
      <4>2. CASE u = t /\ tab'[u].token # b
        BY <2>7, <2>9, <3>1, <3>2, <4>2
      <4>3. CASE u # t /\ tab'[u].token # b
        BY <2>8, <3>2, <4>3 DEF Known
      <4> QED
        BY <4>1, <4>2, <4>3
    <3> QED
      BY <2>3, <2>16, <3>2 DEF Known
  <2>17. ASSUME NEW b \in Links, jar.token = b PROVE Loses(b)
    <3>1. CASE b \in tokens
      BY <2>6, <3>1
    <3>2. CASE b \notin tokens
      <4>1. EmailOf(b) = EmailOf(a) /\ UnderWay(a)
        BY <2>4, <2>17, <3>2, TryAssumption
      <4>2. CASE UnderWay(b)
        BY <1>2, <1>5, <2>3, <4>1, <4>2, OneUnderWay DEF Loses
      <4> QED
        BY <4>2 DEF Loses
    <3> QED
      BY <3>1, <3>2
  <2>18. Loses(a)
    BY <2>3 DEF Loses
  <2>19. \A b \in Links, u \in Tabs : Held(u, b) => Held(u, b)' \/ Loses(b)
    BY <2>14, <2>18
  <2>20. \A b \in Links, u \in Tabs : Held(u, b)' => Held(u, b)
    BY <2>14
  <2>21. \A b \in Links : Known(b)' =>
            \/ Known(b)
            \/ link[b].status # "ABSENT" /\ \A u \in Tabs : ~ Held(u, b)'
    BY <2>13, <2>15, <2>16
  <2> QED
    BY <2>10, <2>11, <2>12, <2>17, <2>19, <2>20, <2>21, Step
<1> QED
  BY <1>4, <1>5

-----------------------------------------------------------------------------
(* The steps of other browsers and of administrators.                      *)

LEMMA ElsewhereStep ==
  ASSUME IInv, Outside, Grow(None), UNCHANGED Elsewhere
  PROVE  IInv'
<1>1. jar' \in Jar /\ outside' \in 0 .. MaxOutside
  BY OutsideIs DEF IInv, TypeOK
<1> QED
  BY <1>1, RowsStep

LEMMA ReserveElsewhereStep ==
  ASSUME IInv, NEW e \in Emails, NEW s \in Assignments, ReserveElsewhere(e, s)
  PROVE  IInv'
BY GrowAssignment, ElsewhereStep DEF ReserveElsewhere

LEMMA IssueElsewhereStep ==
  ASSUME IInv, NEW s \in Assignments, NEW i \in Links, IssueElsewhere(s, i)
  PROVE  IInv'
<1>1. PICK h \in BOOLEAN : h = FALSE
  OBVIOUS
<1>2. Grow(None)
  BY <1>1, GrowIssue DEF IssueElsewhere
<1> QED
  BY <1>2, ElsewhereStep DEF IssueElsewhere

LEMMA RegenerateElsewhereStep ==
  ASSUME IInv, NEW current \in Links, NEW i \in Links, RegenerateElsewhere(current, i)
  PROVE  IInv'
<1>1. PICK h \in BOOLEAN : h = FALSE
  OBVIOUS
<1>2. Grow(None)
  BY <1>1, GrowRegenerate DEF RegenerateElsewhere
<1> QED
  BY <1>2, ElsewhereStep DEF RegenerateElsewhere

LEMMA BeginElsewhereStep ==
  ASSUME IInv, NEW i \in Links, BeginElsewhere(i)
  PROVE  IInv'
BY GrowBegin, ElsewhereStep DEF BeginElsewhere

LEMMA FinishElsewhereStep ==
  ASSUME IInv, NEW i \in Links, FinishElsewhere(i)
  PROVE  IInv'
BY GrowFinalize, ElsewhereStep DEF FinishElsewhere

LEMMA RevokeElsewhereStep ==
  ASSUME IInv, NEW i \in Links, RevokeElsewhere(i)
  PROVE  IInv'
BY GrowRevoke, ElsewhereStep DEF RevokeElsewhere

LEMMA SessionExpiresStep ==
  ASSUME IInv, SessionExpires
  PROVE  IInv'
<1>1. jar' \in Jar /\ jar'.token = jar.token
  BY DEF SessionExpires, IInv, TypeOK, Jar
<1>2. Grow(None) /\ outside' \in 0 .. MaxOutside
  BY GrowStay, OutsideIs DEF SessionExpires
<1> QED
  BY <1>1, <1>2, RowsStep DEF SessionExpires

-----------------------------------------------------------------------------
LEMMA InitRowsHold ==
  ASSUME InitRows
  PROVE  /\ assignment \in [Assignments -> Assignment] /\ link \in [Links -> Link]
         /\ RowsLinked /\ OneActive /\ OneLive /\ \A i \in Links : ~ link[i].here
<1> DEFINE NoAssignments == [s \in Assignments |-> [email |-> None, stage |-> "ABSENT"]]
           NoLinks == [i \in Links |-> [assignment |-> None, status |-> "ABSENT",
                          from |-> None, attempt |-> "NO", here |-> FALSE]]
           With(s, e, stage) ==
             [NoAssignments EXCEPT ![s] = [email |-> e, stage |-> stage]]
           Linked(i, s) == [NoLinks EXCEPT ![i] = NewLink(s, None, FALSE)]
<1>1. NoAssignments \in [Assignments -> Assignment] /\ NoLinks \in [Links -> Link]
  BY DEF Assignment, Link
<1>2. CASE assignment = NoAssignments /\ link = NoLinks
  BY <1>1, <1>2 DEF RowsLinked, OneActive, Active, OneLive
<1>3. ASSUME NEW s \in Assignments, NEW e \in Emails, NEW stage \in {"PENDING", "IN_PROGRESS"},
             assignment = With(s, e, stage)
      PROVE  /\ assignment \in [Assignments -> Assignment]
             /\ assignment[s].stage = stage /\ assignment[s].email = e
             /\ \A u \in Assignments : u # s => assignment[u].stage = "ABSENT"
             /\ OneActive
  <2>1. [email |-> e, stage |-> stage] \in Assignment
    BY DEF Assignment
  <2>2. /\ assignment \in [Assignments -> Assignment]
        /\ assignment[s].stage = stage /\ assignment[s].email = e
        /\ \A u \in Assignments : u # s => assignment[u].stage = "ABSENT"
    BY <1>1, <1>3, <2>1
  <2> QED
    BY <2>2 DEF OneActive, Active
<1>4. ASSUME NEW s \in Assignments, NEW i \in Links,
             NEW x \in Link, x.assignment = s, x.status = "ACTIVE", ~ x.here,
             link = [NoLinks EXCEPT ![i] = x]
      PROVE  /\ link \in [Links -> Link] /\ link[i] = x
             /\ \A k \in Links : k # i => link[k].status = "ABSENT" /\ ~ link[k].here
                                          /\ link[k].attempt = "NO"
             /\ OneLive /\ \A k \in Links : ~ link[k].here
  <2>1. /\ link \in [Links -> Link] /\ link[i] = x
        /\ \A k \in Links : k # i => link[k].status = "ABSENT" /\ ~ link[k].here
                                     /\ link[k].attempt = "NO"
    BY <1>1, <1>4
  <2> QED
    BY <1>4, <2>1 DEF OneLive
<1>5. ASSUME NEW s \in Assignments, NEW e \in Emails,
             assignment = With(s, e, "PENDING"), link = NoLinks
      PROVE  /\ assignment \in [Assignments -> Assignment] /\ link \in [Links -> Link]
             /\ RowsLinked /\ OneActive /\ OneLive /\ \A i \in Links : ~ link[i].here
  <2>1. /\ link \in [Links -> Link] /\ OneLive /\ \A i \in Links : ~ link[i].here
        /\ \A i \in Links : link[i].status = "ABSENT" /\ link[i].attempt = "NO"
    BY <1>1, <1>5 DEF OneLive
  <2>2. /\ assignment \in [Assignments -> Assignment] /\ OneActive
        /\ assignment[s].email = e
        /\ \A u \in Assignments : u # s => assignment[u].stage = "ABSENT"
    BY <1>3, <1>5
  <2> HIDE DEF NoAssignments, NoLinks, With, Linked
  <2>3. RowsLinked
    BY <2>1, <2>2, TryAssumption DEF RowsLinked
  <2> QED
    BY <2>1, <2>2, <2>3
<1>6. ASSUME NEW s \in Assignments, NEW e \in Emails, NEW i \in Links,
             NEW stage \in {"PENDING", "IN_PROGRESS"}, assignment = With(s, e, stage),
             NEW x \in Link, x.assignment = s, x.status = "ACTIVE", ~ x.here,
             x.attempt # "NO" => stage = "IN_PROGRESS",
             link = [NoLinks EXCEPT ![i] = x]
      PROVE  /\ assignment \in [Assignments -> Assignment] /\ link \in [Links -> Link]
             /\ RowsLinked /\ OneActive /\ OneLive /\ \A k \in Links : ~ link[k].here
  <2>1. /\ link \in [Links -> Link] /\ link[i] = x
        /\ \A k \in Links : k # i => link[k].status = "ABSENT" /\ ~ link[k].here
                                     /\ link[k].attempt = "NO"
        /\ OneLive /\ \A k \in Links : ~ link[k].here
    BY <1>4, <1>6
  <2>2. /\ assignment \in [Assignments -> Assignment] /\ OneActive
        /\ assignment[s].stage = stage /\ assignment[s].email = e
        /\ \A u \in Assignments : u # s => assignment[u].stage = "ABSENT"
    BY <1>3, <1>6
  <2> HIDE DEF NoAssignments, NoLinks, With, Linked
  <2>3. RowsLinked
    BY <1>6, <2>1, <2>2, TryAssumption DEF RowsLinked, Begun
  <2> QED
    BY <2>1, <2>2, <2>3
<1>7. ASSUME NEW s \in Assignments, NEW i \in Links
      PROVE  /\ \E x \in Link : /\ x.assignment = s /\ x.status = "ACTIVE" /\ ~ x.here
                                /\ x.attempt = "NO"
                                /\ Linked(i, s) = [NoLinks EXCEPT ![i] = x]
             /\ \E x \in Link : /\ x.assignment = s /\ x.status = "ACTIVE" /\ ~ x.here
                                /\ [Linked(i, s) EXCEPT ![i].attempt = "OPEN"]
                                     = [NoLinks EXCEPT ![i] = x]
  <2>1. PICK n \in Link : /\ n = NewLink(s, None, FALSE) /\ n.assignment = s
                          /\ n.status = "ACTIVE" /\ n.attempt = "NO" /\ ~ n.here
    BY <1>1, NewLinkIs
  <2>2. PICK o : o = [n EXCEPT !.attempt = "OPEN"]
    OBVIOUS
  <2>3. o \in Link /\ o.assignment = s /\ o.status = "ACTIVE" /\ ~ o.here
    BY <2>1, <2>2 DEF Link
  <2>4. Linked(i, s) = [NoLinks EXCEPT ![i] = n]
    BY <2>1
  <2>5. [[NoLinks EXCEPT ![i] = n] EXCEPT ![i].attempt = "OPEN"]
          = [NoLinks EXCEPT ![i] = o]
    BY <1>1, <2>2
  <2> QED
    BY <2>1, <2>3, <2>4, <2>5
<1>8. CASE \E s \in Assignments, e \in Emails :
             /\ assignment = With(s, e, "PENDING")
             /\ link \in {NoLinks} \cup {Linked(i, s) : i \in Links}
  <2>1. PICK s \in Assignments, e \in Emails :
             /\ assignment = With(s, e, "PENDING")
             /\ link \in {NoLinks} \cup {Linked(i, s) : i \in Links}
    BY <1>8
  <2> HIDE DEF NoAssignments, NoLinks, With, Linked
  <2>2. CASE link = NoLinks
    BY <1>5, <2>1, <2>2
  <2>3. ASSUME NEW i \in Links, link = Linked(i, s)
        PROVE  /\ assignment \in [Assignments -> Assignment] /\ link \in [Links -> Link]
               /\ RowsLinked /\ OneActive /\ OneLive /\ \A k \in Links : ~ link[k].here
    <3>1. PICK x \in Link : /\ x.assignment = s /\ x.status = "ACTIVE" /\ ~ x.here
                            /\ x.attempt = "NO"
                            /\ Linked(i, s) = [NoLinks EXCEPT ![i] = x]
      BY <1>7
    <3> QED
      BY <1>6, <2>1, <2>3, <3>1
  <2> QED
    BY <2>1, <2>2, <2>3
<1>9. CASE \E s \in Assignments, e \in Emails :
             /\ assignment = With(s, e, "IN_PROGRESS")
             /\ link \in {[Linked(i, s) EXCEPT ![i].attempt = "OPEN"] : i \in Links}
  <2> HIDE DEF NoAssignments, NoLinks, With, Linked
  <2>1. PICK s \in Assignments, e \in Emails, i \in Links :
             /\ assignment = With(s, e, "IN_PROGRESS")
             /\ link = [Linked(i, s) EXCEPT ![i].attempt = "OPEN"]
    BY <1>9
  <2>2. PICK x \in Link : /\ x.assignment = s /\ x.status = "ACTIVE" /\ ~ x.here
                          /\ [Linked(i, s) EXCEPT ![i].attempt = "OPEN"]
                               = [NoLinks EXCEPT ![i] = x]
    BY <1>7
  <2> QED
    BY <1>6, <2>1, <2>2
<1> QED
  BY <1>2, <1>8, <1>9 DEF InitRows

LEMMA InitIInv == Init => IInv
<1> SUFFICES ASSUME Init PROVE IInv
  OBVIOUS
<1>1. \A t \in Tabs : Front(t) = NewCall("page")
  BY DEF Init, Front
<1>2. NewCall("page").token = None /\ NewCall("page").cookies.token = None
      /\ Sound(NewCall("page"))
  BY NewCallType DEF Ops, Blank, NoCookies
<1>3. jar.token = None /\ \A t \in Tabs : tab[t].token = None
  BY DEF Init, NoCookies, Loading
<1>4. \A a \in Links : ~ Known(a) /\ \A t \in Tabs : ~ Held(t, a)
  BY <1>1, <1>2, <1>3, TryAssumption DEF Known, Held
<1>5. /\ assignment \in [Assignments -> Assignment] /\ link \in [Links -> Link]
      /\ RowsLinked /\ OneActive /\ OneLive /\ \A i \in Links : ~ link[i].here
  BY InitRowsHold DEF Init
<1>6. Tokens /\ InReach
  BY <1>4, <1>5 DEF Tokens, InReach
<1>7. TypeOK /\ Waiting
  <2>1. jar \in Jar
    BY DEF Init, NoCookies, Jar
  <2>2. tab \in [Tabs -> Tab]
    BY DEF Init, Loading, Tab, Views
  <2>3. calls \in [Tabs -> Seq(Call)] /\ Waiting
        /\ \A t \in Tabs : Len(calls[t]) <= MaxQueue
    BY TryAssumption DEF Init, Waiting
  <2>4. outside \in 0 .. MaxOutside
    BY TryAssumption DEF Init
  <2> QED
    BY <1>5, <2>1, <2>2, <2>3, <2>4 DEF Init, TypeOK
<1> QED
  BY <1>1, <1>2, <1>5, <1>6, <1>7 DEF IInv

LEMMA NextIInv == IInv /\ [Next]_vars => IInv'
<1> SUFFICES ASSUME IInv, [Next]_vars PROVE IInv'
  OBVIOUS
<1>1. ASSUME NEW t \in Tabs, Visitor(t) PROVE IInv'
  <2>1. CASE SubmitCode(t)
    BY <2>1, PressStep DEF SubmitCode, Ops
  <2>2. CASE SubmitProfile(t)
    BY <2>2, PressStep DEF SubmitProfile, Ops
  <2>3. CASE PressStart(t)
    BY <2>3, AskStep DEF PressStart, Ops
  <2>4. CASE PressResume(t)
    BY <2>4, AskStep DEF PressResume, Ops
  <2>5. CASE SwitchEmail(t)
    BY <2>5, AskStep DEF SwitchEmail, Ops
  <2> QED
    BY <1>1, <2>1, <2>2, <2>3, <2>4, <2>5, LoadPageStep, SubmitEmailStep,
       FinishAttemptStep DEF Visitor
<1>2. ASSUME NEW t \in Tabs, Server(t) PROVE IInv'
  BY <1>2, VerifyCodeStep, SwitchToStep, UpdateProfileStep, StartPublicStep,
     CreateAssignmentStep, CreateInvitationStep, RecoverAssignmentStep,
     FindInvitationStep, RegenerateInvitationStep, ValidateLinkStep,
     CreateAttemptStep, ResumeStep, ReadEligibilityStep, CountCompletedStep,
     FindActiveStep, DecideStep, FailCallStep DEF Server
<1>3. ASSUME NEW t \in Tabs, Browser(t) PROVE IInv'
  BY <1>3, SendStep, VerifiedStep, SwitchedStep, ProfileSavedStep,
     StatusShownStep, StartedStep, ResumedStep, LoseAnswerStep DEF Browser
<1>4. CASE UNCHANGED vars
  BY <1>4, GrowStay, RowsStep DEF IInv, TypeOK
<1> QED
  BY <1>1, <1>2, <1>3, <1>4, ReserveElsewhereStep, IssueElsewhereStep,
     RegenerateElsewhereStep, BeginElsewhereStep, FinishElsewhereStep,
     RevokeElsewhereStep, SessionExpiresStep DEF Next

-----------------------------------------------------------------------------
(* The theorems.                                                           *)

(* The inductive invariant holds in every reachable state, whatever the    *)
(* queries of startPublicAttempt overlap with: what a call has read is     *)
(* still there when it acts on it, a token is with one start until the     *)
(* browser has it, and the partial unique indexes hold.                    *)
THEOREM Invariance == Spec => []IInv
BY InitIInv, NextIInv, PTL DEF Spec

(* Tabs, cookies, calls, assignments and links stay of their types.        *)
THEOREM TypeCorrect == Spec => []TypeOK
<1>1. IInv => TypeOK
  BY DEF IInv
<1> QED
  BY <1>1, Invariance, PTL

(* The first call of a queue is its front.                                 *)
LEMMA CallIs ==
  ASSUME IInv, NEW t \in Tabs, NEW i \in DOMAIN calls[t], ~ Blank(calls[t][i])
  PROVE  i = 1 /\ calls[t][i] = Front(t)
<1>1. i = 1
  BY DEF IInv, Waiting
<1>2. calls[t] \in Seq(Call) /\ calls[t] # <<>> /\ Head(calls[t]) = calls[t][1]
  BY <1>1 DEF IInv, TypeOK
<1> QED
  BY <1>1, <1>2 DEF Front

LEMMA IInvAnswers == IInv => AnswersAreOwn
<1> SUFFICES ASSUME IInv, NEW t \in Tabs, NEW n \in DOMAIN calls[t],
                    calls[t][n].stage = "answered", calls[t][n].token # None
             PROVE  EmailOf(calls[t][n].token) = calls[t][n].cookies.session
  BY DEF AnswersAreOwn
<1>1. calls[t][n] = Front(t)
  BY CallIs DEF Blank
<1> QED
  BY <1>1, FrontType DEF Sound, OwnLink

LEMMA IInvReach == IInv => OnlyALossStrands
<1> SUFFICES ASSUME IInv, NEW a \in Links, link[a].here, UnderWay(a),
                    jar.token # a, a \notin dropped
             PROVE  \E t \in Tabs : Answering(t, a)
  BY DEF OnlyALossStrands
<1>1. PICK t \in Tabs : Held(t, a)
  BY DEF IInv, InReach
<1>2. a # None /\ Front(t).token = a /\ Front(t).op = "start"
  BY <1>1, TryAssumption DEF Held
<1>3. Front(t).stage = "answered"
  BY <1>2, FrontType DEF Sound, UnderWay
<1>4. calls[t] # <<>>
  BY <1>2, NewCallType DEF Front, Blank, Ops
<1>5. calls[t] \in Seq(Call)
  BY DEF IInv, TypeOK
<1>6. 1 \in DOMAIN calls[t] /\ calls[t][1] = Front(t)
  BY <1>4, <1>5 DEF Front
<1> QED
  BY <1>2, <1>3, <1>6 DEF Answering

(* An answer never carries the token of another address's attempt,         *)
(* although startPublicAttemptAction and createSelfServeSession set the two*)
(* cookies at different times from different tabs, and a start may go on   *)
(* with the assignment and the link another one made.                      *)
THEOREM AnswersStayOwn == Spec => []AnswersAreOwn
BY Invariance, IInvAnswers, PTL

(* However the steps of several starts of startPublicAttempt interleave,   *)
(* nothing but a lost answer, "Use another email", a start for another     *)
(* address or the late answer of a start whose link another one has revoked*)
(* takes the token of an attempt under way from the browser.               *)
THEOREM OnlyLossesStrand == Spec => []OnlyALossStrands
BY Invariance, IInvReach, PTL
=============================================================================
