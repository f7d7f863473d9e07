-------------------------- MODULE VerificationCodes --------------------------
(***************************************************************************)
(* One-time codes for one e-mail address: requestVerificationCode and      *)
(* verifyCode of self-serve.service.ts behind the rate limiter they share  *)
(* (recordAndEnforce), for any number of overlapping requests.             *)
(*                                                                         *)
(* Neither of the two functions uses a transaction: one step is one query  *)
(* with the code up to the next await.  Time is counted in ticks.  The     *)
(* bucket of the address is modelled in full; the bucket of the IP address *)
(* is shared with other addresses, and may refuse any request.             *)
(***************************************************************************)
EXTENDS Integers, FiniteSets, Functions

CONSTANTS
  Requests,      \* overlapping server invocations
  Codes,         \* ids a public_verification_codes row may get
  RequestLimit,  \* requests for a code admitted per window, 5 in the code
  VerifyLimit,   \* verifications admitted per window, 20 in the code
  Window,        \* the limiter's window, an hour in the code
  Cooldown,      \* RESEND_COOLDOWN_MS, a minute in the code
  Lifetime,      \* VERIFICATION_CODE_TTL_MS, ten minutes in the code
  MaxTries,      \* MAX_VERIFICATION_ATTEMPTS, 5 in the code
  MaxTime,       \* bound of the clock
  MaxCalls       \* bound of the number of calls

ASSUME TimesAssumption ==
  /\ {RequestLimit, VerifyLimit, MaxTries, MaxTime, MaxCalls} \subseteq Nat
  /\ {Window, Cooldown, Lifetime} \subseteq Nat \ {0}
ASSUME RequestsAssumption == IsFiniteSet(Requests) /\ Requests # {}

VARIABLES
  now,        \* the clock
  calls,      \* calls made so far
  events,     \* events[b][t]: rate_limit_events rows of bucket b made at t
  admitted,   \* admitted[b][t]: how many of them the limiter let through
  code,       \* code[c]: the row of code c
  delivered,  \* codes whose e-mail has reached the visitor
  granted,    \* granted[c]: sessions opened with code c
  req         \* req[p]: where invocation p stands and what it has read

vars == <<now, calls, events, admitted, code, delivered, granted, req>>

-----------------------------------------------------------------------------
Time    == 0 .. MaxTime
Buckets == {"code-request", "code-verify"}

Limit(b) == IF b = "code-request" THEN RequestLimit ELSE VerifyLimit

CodeRow == [made : BOOLEAN, createdAt : Time, attempts : Nat,
            consumed : BOOLEAN]

NoCode == [made |-> FALSE, createdAt |-> 0, attempts |-> 0, consumed |-> FALSE]

Step ==
  [pc     : {"idle", "count", "clean", "admitted", "create", "send",
             "miss", "consume"},
   bucket : Buckets,
   start  : Time,                    \* when it read the clock, and its event
   codes  : SUBSET Codes]            \* the row it works on, if any

Idle == [pc |-> "idle", bucket |-> "code-request", start |-> 0, codes |-> {}]

Goto(p, to) == req' = [req EXCEPT ![p].pc = to]
Finish(p)   == req' = [req EXCEPT ![p] = Idle]

TypeOK ==
  /\ now \in Time /\ calls \in 0 .. MaxCalls
  /\ events \in [Buckets -> [Time -> Nat]]
  /\ admitted \in [Buckets -> [Time -> Nat]]
  /\ code \in [Codes -> CodeRow]
  /\ delivered \subseteq {c \in Codes : code[c].made}
  /\ granted \in [Codes -> Nat]
  /\ req \in [Requests -> Step]

-----------------------------------------------------------------------------
(* recordAndEnforce.                                                       *)

Total(f, S) == FoldFunctionOnSet(+, 0, f, S)

Within(start) == {t \in Time : t >= start - Window}

(* An event is in the table before it is counted.  (The variant counts     *)
(* the others only.)                                                       *)
OverLimitOfOthers(b, start) ==
  Total(events[b], Within(start)) - 1 > Limit(b)
OverLimit(b, start) ==
  Total(events[b], Within(start)) > Limit(b)

(* The clock is read and the event inserted.                               *)
Call(p, b) ==
  /\ req[p].pc = "idle"
  /\ calls < MaxCalls
  /\ calls' = calls + 1
  /\ events' = [events EXCEPT ![b][now] = @ + 1]
  /\ req' = [req EXCEPT ![p] =
               [Idle EXCEPT !.pc = "count", !.bucket = b, !.start = now]]
  /\ UNCHANGED <<now, admitted, code, delivered, granted>>

CountEvents(p) ==
  LET r == req[p]
  IN  /\ r.pc = "count"
      /\ IF OverLimit(r.bucket, r.start)
         THEN Finish(p) /\ UNCHANGED admitted
         ELSE /\ admitted' = [admitted EXCEPT ![r.bucket][r.start] = @ + 1]
              /\ Goto(p, "clean")
      /\ UNCHANGED <<now, calls, events, code, delivered, granted>>

CleanUp(p) ==
  LET r == req[p]
  IN  /\ r.pc = "clean"
      /\ events' = [events EXCEPT ![r.bucket] =
                      [t \in Time |-> IF t \in Within(r.start) THEN @[t] ELSE 0]]
      /\ Goto(p, "admitted")
      /\ UNCHANGED <<now, calls, admitted, code, delivered, granted>>

(* The same limiter on the bucket of the IP address.                       *)
RefusedByAddress(p) ==
  /\ req[p].pc = "admitted"
  /\ Finish(p)
  /\ UNCHANGED <<now, calls, events, admitted, code, delivered, granted>>

-----------------------------------------------------------------------------
(* requestVerificationCode.                                                *)

Made == {c \in Codes : code[c].made}

(* orderBy createdAt desc: rows made in one millisecond come in any order. *)
Latest(S) == {c \in S : \A d \in S : code[d].createdAt <= code[c].createdAt}

(* (The variant looks at unused codes only, as verifyCode does.)           *)
RestedUnused ==
  \A c \in Latest({d \in Made : ~ code[d].consumed}) :
     now - code[c].createdAt >= Cooldown
Rested ==
  \A c \in Latest(Made) : now - code[c].createdAt >= Cooldown

CheckCooldown(p) ==
  /\ req[p].pc = "admitted" /\ req[p].bucket = "code-request"
  /\ IF Rested THEN Goto(p, "create") ELSE Finish(p)
  /\ UNCHANGED <<now, calls, events, admitted, code, delivered, granted>>

CreateCode(p, c) ==
  /\ req[p].pc = "create"
  /\ ~ code[c].made
  /\ code' = [code EXCEPT ![c] =
                [NoCode EXCEPT !.made = TRUE, !.createdAt = now]]
  /\ req' = [req EXCEPT ![p].pc = "send", ![p].codes = {c}]
  /\ UNCHANGED <<now, calls, events, admitted, delivered, granted>>

(* sendVerificationCode: whether or not it fails, the row stays.           *)
SendCode(p) ==
  /\ req[p].pc = "send"
  /\ \/ delivered' = delivered \cup req[p].codes
     \/ UNCHANGED delivered
  /\ Finish(p)
  /\ UNCHANGED <<now, calls, events, admitted, code, granted>>

-----------------------------------------------------------------------------
(* verifyCode.                                                             *)

(* (The variants allow one try more, or forget which codes are used.)      *)
OutOfTriesLate(c) == code[c].attempts > MaxTries
OutOfTries(c)     == code[c].attempts >= MaxTries

Expired(c) == code[c].createdAt + Lifetime <= now

AnyCode == Latest(Made)
Usable  == Latest({c \in Made : ~ code[c].consumed})

(* The newest unused code is compared with what was typed: a code the      *)
(* visitor has received, or anything else.                                 *)
LoadCode(p) ==
  /\ req[p].pc = "admitted" /\ req[p].bucket = "code-verify"
  /\ \/ Usable = {} /\ Finish(p)
     \/ \E c \in Usable :
          IF OutOfTries(c) \/ Expired(c)
          THEN Finish(p)
          ELSE \/ /\ c \in delivered
                  /\ req' = [req EXCEPT ![p].pc = "consume", ![p].codes = {c}]
               \/ req' = [req EXCEPT ![p].pc = "miss", ![p].codes = {c}]
  /\ UNCHANGED <<now, calls, events, admitted, code, delivered, granted>>

RecordMiss(p) ==
  /\ req[p].pc = "miss"
  /\ code' = [c \in Codes |-> IF c \in req[p].codes
                              THEN [code[c] EXCEPT !.attempts = @ + 1]
                              ELSE code[c]]
  /\ Finish(p)
  /\ UNCHANGED <<now, calls, events, admitted, delivered, granted>>

(* consumedAt is set by id, whatever the row says by then; verifyCodeAction *)
(* then opens the session.                                                 *)
ConsumeCode(p) ==
  /\ req[p].pc = "consume"
  /\ code' = [c \in Codes |-> IF c \in req[p].codes
                              THEN [code[c] EXCEPT !.consumed = TRUE]
                              ELSE code[c]]
  /\ granted' = [c \in Codes |-> IF c \in req[p].codes THEN granted[c] + 1
                                 ELSE granted[c]]
  /\ Finish(p)
  /\ UNCHANGED <<now, calls, events, admitted, delivered>>

-----------------------------------------------------------------------------
(* A serverless invocation may end between two queries.                    *)
Die(p) ==
  /\ req[p].pc # "idle"
  /\ Finish(p)
  /\ UNCHANGED <<now, calls, events, admitted, code, delivered, granted>>

Tick ==
  /\ now < MaxTime
  /\ now' = now + 1
  /\ UNCHANGED <<calls, events, admitted, code, delivered, granted, req>>

Init ==
  /\ now = 0 /\ calls = 0
  /\ events = [b \in Buckets |-> [t \in Time |-> 0]]
  /\ admitted = [b \in Buckets |-> [t \in Time |-> 0]]
  /\ code = [c \in Codes |-> NoCode]
  /\ delivered = {}
  /\ granted = [c \in Codes |-> 0]
  /\ req = [p \in Requests |-> Idle]

Serve(p) ==
  \/ \E b \in Buckets : Call(p, b)
  \/ CountEvents(p) \/ CleanUp(p) \/ RefusedByAddress(p)
  \/ CheckCooldown(p) \/ SendCode(p)
  \/ \E c \in Codes : CreateCode(p, c)
  \/ LoadCode(p) \/ RecordMiss(p) \/ ConsumeCode(p)
  \/ Die(p)

Next == Tick \/ \E p \in Requests : Serve(p)

Spec == Init /\ [][Next]_vars

-----------------------------------------------------------------------------
(* Properties.                                                             *)

Overlap == Cardinality(Requests)

(* recordAndEnforce: of the events of any stretch of one window, the       *)
(* limiter lets through its limit and at most one more for every other     *)
(* overlapping request, which may count after a later request's clean-up   *)
(* has deleted events of its own window.                                   *)
AdmissionsAreBounded ==
  \A b \in Buckets : \A t \in Time :
     Total(admitted[b], {u \in Time : t <= u /\ u <= t + Window})
       <= Limit(b) + Overlap - 1

(* requestVerificationCode checks the cooldown before it creates the code: *)
(* whatever the overlap, the codes made within one cooldown are no more    *)
(* than the requests that overlap, because nobody makes two.               *)
CooldownHolds ==
  \A t \in Time :
     Cardinality({c \in Made : /\ t <= code[c].createdAt
                               /\ code[c].createdAt < t + Cooldown}) <= Overlap

(* verifyCode checks the number of tries before it counts one: a code      *)
(* takes its limit and at most one more for every other overlapping        *)
(* request, those that are about to be counted included.                   *)
TriesAreBounded ==
  \A c \in Codes :
     code[c].attempts + Cardinality({p \in Requests :
                                       req[p].pc = "miss" /\ c \in req[p].codes})
       <= MaxTries + Overlap - 1

(* verifyCode marks a code used after it has compared it: one code opens   *)
(* at most one session for every request that overlaps the first use, and  *)
(* none later.                                                             *)
UseIsBounded ==
  \A c \in Codes :
     granted[c] + Cardinality({p \in Requests :
                                 req[p].pc = "consume" /\ c \in req[p].codes})
       <= Overlap
=============================================================================
