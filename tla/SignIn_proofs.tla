---------------------------- MODULE SignIn_proofs ----------------------------
(***************************************************************************)
(* Theorems about the two ways in: the codes that open a visitor's session *)
(* (VerificationCodes) and the accounts behind an admin's (Accounts).      *)
(*                                                                         *)
(* For every finite set of overlapping requests and every limit: by how    *)
(* much overlapping requests can exceed the tries of a code, its single    *)
(* use, the cooldown between two codes and the limits of the rate limiter. *)
(* For every set of accounts, browsers and overlapping Server Actions: by  *)
(* how much a removed account outlives its removal, and how often a page   *)
(* request is sent on.                                                     *)
(***************************************************************************)
EXTENDS VerificationCodes, Accounts, FiniteSetTheorems,
        WellFoundedInduction, TLAPS

USE DEF vars

-----------------------------------------------------------------------------
(* The inductive invariant: what a request holds exists, and a code that   *)
(* has opened a session is marked used.                                    *)

HeldIsMade    == \A p \in Requests : \A c \in req[p].codes : code[c].made
GrantedIsUsed == \A c \in Codes : granted[c] > 0 => code[c].made /\ code[c].consumed

IInv == /\ TypeOK /\ HeldIsMade /\ GrantedIsUsed
        /\ TriesAreBounded /\ UseIsBounded

(* The requests that stand at `pc` with code c in hand.                    *)
Holding(pc, c) == {p \in Requests : req[p].pc = pc /\ c \in req[p].codes}

LEMMA HoldingFinite ==
  ASSUME NEW pc, NEW c
  PROVE  /\ IsFiniteSet(Holding(pc, c))
         /\ Cardinality(Holding(pc, c)) \in 0 .. Overlap
<1>1. Holding(pc, c) \in SUBSET Requests
  BY DEF Holding
<1>2. IsFiniteSet(Requests)
  BY RequestsAssumption
<1>3. IsFiniteSet(Holding(pc, c)) /\ Cardinality(Holding(pc, c)) <= Cardinality(Requests)
  BY <1>1, <1>2, FS_Subset
<1>4. Cardinality(Holding(pc, c)) \in Nat /\ Cardinality(Requests) \in Nat
  BY <1>2, <1>3, FS_CardinalityType
<1> QED
  BY <1>3, <1>4 DEF Overlap

LEMMA HoldingFinitePrimed ==
  ASSUME NEW pc, NEW c
  PROVE  /\ IsFiniteSet(Holding(pc, c)')
         /\ Cardinality(Holding(pc, c)') \in 0 .. Overlap
<1>1. Holding(pc, c)' \in SUBSET Requests
  BY DEF Holding
<1>2. IsFiniteSet(Requests)
  BY RequestsAssumption
<1>3. IsFiniteSet(Holding(pc, c)') /\ Cardinality(Holding(pc, c)') <= Cardinality(Requests)
  BY <1>1, <1>2, FS_Subset
<1>4. Cardinality(Holding(pc, c)') \in Nat /\ Cardinality(Requests) \in Nat
  BY <1>2, <1>3, FS_CardinalityType
<1> QED
  BY <1>3, <1>4 DEF Overlap

LEMMA OverlapPositive == Overlap \in Nat /\ Overlap >= 1
<1>1. IsFiniteSet(Requests) /\ Requests # {}
  BY RequestsAssumption
<1>2. Overlap \in Nat
  BY <1>1, FS_CardinalityType DEF Overlap
<1>3. Overlap # 0
  BY <1>1, FS_EmptySet DEF Overlap
<1> QED
  BY <1>2, <1>3

(* The two bounds in terms of Holding.                                     *)
LEMMA TriesBoundIs ==
  TriesAreBounded <=>
    \A c \in Codes : code[c].attempts + Cardinality(Holding("miss", c))
                       <= MaxTries + Overlap - 1
BY DEF TriesAreBounded, Holding

LEMMA UseBoundIs ==
  UseIsBounded <=>
    \A c \in Codes : granted[c] + Cardinality(Holding("consume", c)) <= Overlap
BY DEF UseIsBounded, Holding
-----------------------------------------------------------------------------
(* Types.                                                                  *)

LEMMA IdleType == Idle \in Step
<1>1. 0 \in Time
  BY TimesAssumption DEF Time
<1> QED
  BY <1>1 DEF Idle, Step, Buckets

LEMMA NoCodeType == NoCode \in CodeRow
<1>1. 0 \in Time
  BY TimesAssumption DEF Time
<1> QED
  BY <1>1 DEF NoCode, CodeRow

LEMMA InitType == Init => TypeOK
<1> SUFFICES ASSUME Init PROVE TypeOK
  OBVIOUS
<1>1. now \in Time /\ calls \in 0 .. MaxCalls
  BY TimesAssumption DEF Init, Time
<1> QED
  BY <1>1, IdleType, NoCodeType DEF Init, TypeOK, Buckets, NoCode

(* A request goes on with what it holds, or ends.                          *)
Places == {"idle", "count", "clean", "admitted", "create", "send", "miss",
           "consume"}

LEMMA GotoType ==
  ASSUME TypeOK, NEW p \in Requests, NEW to \in Places, Goto(p, to)
  PROVE  /\ req' \in [Requests -> Step]
         /\ \A q \in Requests : req'[q].codes = req[q].codes
BY DEF TypeOK, Goto, Step, Places

LEMMA FinishType ==
  ASSUME TypeOK, NEW p \in Requests, Finish(p)
  PROVE  /\ req' \in [Requests -> Step]
         /\ \A q \in Requests : req'[q].codes \subseteq req[q].codes
<1>1. req' = [req EXCEPT ![p] = Idle]
  BY DEF Finish
<1>2. req' \in [Requests -> Step]
  BY <1>1, IdleType DEF TypeOK
<1>3. Idle.codes = {}
  BY DEF Idle
<1>4. ASSUME NEW q \in Requests PROVE req'[q].codes \subseteq req[q].codes
  <2>1. CASE q = p
    BY <1>1, <1>3, <2>1 DEF TypeOK
  <2>2. CASE q # p
    BY <1>1, <2>2 DEF TypeOK
  <2> QED
    BY <2>1, <2>2
<1> QED
  BY <1>2, <1>4

(* A request takes up a code.                                              *)
LEMMA TakeType ==
  ASSUME TypeOK, NEW p \in Requests, NEW to \in Places, NEW c \in Codes,
         req' = [req EXCEPT ![p].pc = to, ![p].codes = {c}]
  PROVE  /\ req' \in [Requests -> Step]
         /\ req'[p].codes = {c} /\ req'[p].pc = to
         /\ \A q \in Requests \ {p} : req'[q] = req[q]
<1>1. req' = [req EXCEPT ![p] = [req[p] EXCEPT !.pc = to, !.codes = {c}]]
  BY DEF TypeOK
<1>2. req[p] \in Step
  BY DEF TypeOK
<1>3. [req[p] EXCEPT !.pc = to, !.codes = {c}] \in Step
  BY <1>2 DEF Step, Places
<1>4. req'[p] = [req[p] EXCEPT !.pc = to, !.codes = {c}]
  BY <1>1 DEF TypeOK
<1>5. req'[p].codes = {c} /\ req'[p].pc = to
  BY <1>2, <1>4 DEF Step
<1> QED
  BY <1>1, <1>3, <1>5 DEF TypeOK

-----------------------------------------------------------------------------
(* The limiter writes events and moves requests; it leaves the codes alone *)
(* and takes none up.                                                      *)
codes == <<code, delivered, granted>>

Limiter(p) ==
  (\E b \in Buckets : Call(p, b)) \/ CountEvents(p) \/ CleanUp(p) \/ RefusedByAddress(p)

LEMMA LimiterStep ==
  ASSUME TypeOK, NEW p \in Requests, Limiter(p)
  PROVE  /\ TypeOK' /\ UNCHANGED codes
         /\ \A q \in Requests : req'[q].codes \subseteq req[q].codes
         /\ \A q \in Requests : req'[q].pc \in {"miss", "consume"} => req'[q] = req[q]
<1>i. Idle.codes = {} /\ Idle.pc = "idle"
  BY DEF Idle
<1>1. CASE \E b \in Buckets : Call(p, b)
  <2> PICK b \in Buckets : Call(p, b)
    BY <1>1
  <2> DEFINE r == [Idle EXCEPT !.pc = "count", !.bucket = b, !.start = now]
  <2>1. r \in Step /\ r.codes = {} /\ r.pc = "count"
    BY IdleType DEF TypeOK, Step, Idle
  <2>2. req' = [req EXCEPT ![p] = r]
    BY DEF Call
  <2>3. req' \in [Requests -> Step]
    BY <2>1, <2>2 DEF TypeOK
  <2>4. req'[p] = r /\ \A q \in Requests \ {p} : req'[q] = req[q]
    BY <2>2 DEF TypeOK
  <2>5. calls' \in 0 .. MaxCalls
    BY TimesAssumption DEF Call, TypeOK
  <2>6. events' \in [Buckets -> [Time -> Nat]]
    BY DEF Call, TypeOK
  <2>7. TypeOK'
    BY <2>3, <2>5, <2>6 DEF Call, TypeOK
  <2> HIDE DEF r
  <2>8. UNCHANGED codes
    BY DEF Call, codes
  <2> QED
    BY <2>1, <2>4, <2>7, <2>8
<1>2. CASE CountEvents(p)
  <2>1. Finish(p) \/ Goto(p, "clean")
    BY <1>2 DEF CountEvents
  <2>2. req' \in [Requests -> Step]
        /\ \A q \in Requests : req'[q].codes \subseteq req[q].codes
    BY <2>1, FinishType, GotoType DEF Places
  <2>3. \A q \in Requests : req'[q].pc \in {"miss", "consume"} => req'[q] = req[q]
    BY <1>i, <2>1 DEF Finish, Goto, TypeOK, Step
  <2>4. admitted' \in [Buckets -> [Time -> Nat]]
    <3>1. req[p].bucket \in Buckets /\ req[p].start \in Time
      BY DEF TypeOK, Step
    <3>2. \/ UNCHANGED admitted
          \/ admitted' = [admitted EXCEPT ![req[p].bucket][req[p].start] = @ + 1]
      BY <1>2 DEF CountEvents
    <3>3. CASE admitted' = [admitted EXCEPT ![req[p].bucket][req[p].start] = @ + 1]
      <4> DEFINE row == admitted[req[p].bucket]
      <4>1. row \in [Time -> Nat] /\ admitted \in [Buckets -> [Time -> Nat]]
        BY <3>1 DEF TypeOK
      <4>2. [row EXCEPT ![req[p].start] = @ + 1] \in [Time -> Nat]
        BY <3>1, <4>1
      <4>3. admitted' = [admitted EXCEPT ![req[p].bucket] =
                           [row EXCEPT ![req[p].start] = @ + 1]]
        BY <3>3
      <4> HIDE DEF row
      <4> QED
        BY <4>1, <4>2, <4>3
    <3> QED
      BY <3>2, <3>3 DEF TypeOK
  <2>5. TypeOK'
    BY <1>2, <2>2, <2>4 DEF CountEvents, TypeOK
  <2> QED
    BY <1>2, <2>2, <2>3, <2>5 DEF CountEvents, codes
<1>3. CASE CleanUp(p)
  <2>1. Goto(p, "admitted")
    BY <1>3 DEF CleanUp
  <2>2. req' \in [Requests -> Step]
        /\ \A q \in Requests : req'[q].codes \subseteq req[q].codes
    BY <2>1, GotoType DEF Places
  <2>3. \A q \in Requests : req'[q].pc \in {"miss", "consume"} => req'[q] = req[q]
    BY <2>1 DEF Goto, TypeOK, Step
  <2>4. events' \in [Buckets -> [Time -> Nat]]
    <3>1. req[p].bucket \in Buckets
      BY DEF TypeOK, Step
    <3> QED
      BY <1>3, <3>1 DEF CleanUp, TypeOK
  <2>5. TypeOK'
    BY <1>3, <2>2, <2>4 DEF CleanUp, TypeOK
  <2> QED
    BY <1>3, <2>2, <2>3, <2>5 DEF CleanUp, codes
<1>4. CASE RefusedByAddress(p)
  <2>1. Finish(p)
    BY <1>4 DEF RefusedByAddress
  <2>2. req' \in [Requests -> Step]
        /\ \A q \in Requests : req'[q].codes \subseteq req[q].codes
    BY <2>1, FinishType
  <2>3. \A q \in Requests : req'[q].pc \in {"miss", "consume"} => req'[q] = req[q]
    BY <1>i, <2>1 DEF Finish, TypeOK
  <2>4. TypeOK'
    BY <1>4, <2>2 DEF RefusedByAddress, TypeOK
  <2> QED
    BY <1>4, <2>2, <2>3, <2>4 DEF RefusedByAddress, codes
<1> QED
  BY <1>1, <1>2, <1>3, <1>4 DEF Limiter

(* The steps that work on codes.                                           *)
LEMMA CheckCooldownStep ==
  ASSUME TypeOK, NEW p \in Requests, CheckCooldown(p)
  PROVE  /\ TypeOK' /\ UNCHANGED codes
         /\ \A q \in Requests : req'[q].codes \subseteq req[q].codes
         /\ \A q \in Requests : req'[q].pc \in {"miss", "consume"} => req'[q] = req[q]
<1>i. Idle.pc = "idle"
  BY DEF Idle
<1>1. Goto(p, "create") \/ Finish(p)
  BY DEF CheckCooldown
<1>2. req' \in [Requests -> Step]
      /\ \A q \in Requests : req'[q].codes \subseteq req[q].codes
  BY <1>1, GotoType, FinishType DEF Places
<1>3. \A q \in Requests : req'[q].pc \in {"miss", "consume"} => req'[q] = req[q]
  BY <1>i, <1>1 DEF Goto, Finish, TypeOK, Step
<1>4. TypeOK'
  BY <1>2 DEF CheckCooldown, TypeOK
<1> QED
  BY <1>2, <1>3, <1>4 DEF CheckCooldown, codes

(* A request that ends without writing a code: its e-mail is sent or not,  *)
(* there is no code to check, or its server is gone.                       *)
Ends(p) == SendCode(p) \/ Die(p)

LEMMA EndsStep ==
  ASSUME TypeOK, HeldIsMade, NEW p \in Requests, Ends(p)
  PROVE  /\ TypeOK' /\ UNCHANGED <<code, granted>>
         /\ \A q \in Requests : req'[q].codes \subseteq req[q].codes
         /\ \A q \in Requests : req'[q].pc \in {"miss", "consume"} => req'[q] = req[q]
<1>i. Idle.pc = "idle"
  BY DEF Idle
<1>1. Finish(p)
  BY DEF Ends, SendCode, Die
<1>2. req' \in [Requests -> Step]
      /\ \A q \in Requests : req'[q].codes \subseteq req[q].codes
  BY <1>1, FinishType
<1>3. \A q \in Requests : req'[q].pc \in {"miss", "consume"} => req'[q] = req[q]
  BY <1>i, <1>1 DEF Finish, TypeOK
<1>4. req[p].codes \subseteq {c \in Codes : code[c].made}
  BY DEF TypeOK, Step, HeldIsMade
<1>5. delivered' \subseteq {c \in Codes : code[c].made} /\ UNCHANGED code
  BY <1>4 DEF Ends, SendCode, Die, TypeOK
<1>6. TypeOK'
  BY <1>2, <1>5 DEF Ends, SendCode, Die, TypeOK
<1> QED
  BY <1>2, <1>3, <1>6 DEF Ends, SendCode, Die

LEMMA CreateCodeStep ==
  ASSUME TypeOK, NEW p \in Requests, NEW c \in Codes, CreateCode(p, c)
  PROVE  /\ TypeOK' /\ UNCHANGED granted
         /\ \A d \in Codes \ {c} : code'[d] = code[d]
         /\ ~ code[c].made /\ code'[c].made /\ code'[c].attempts = 0
         /\ req'[p].codes = {c} /\ req'[p].pc = "send"
         /\ \A q \in Requests \ {p} : req'[q] = req[q]
<1> DEFINE row == [NoCode EXCEPT !.made = TRUE, !.createdAt = now]
<1>1. row \in CodeRow /\ row.made /\ row.attempts = 0
  BY NoCodeType DEF TypeOK, CodeRow, NoCode
<1>2. code' = [code EXCEPT ![c] = row]
  BY DEF CreateCode
<1> HIDE DEF row
<1>3. /\ code' \in [Codes -> CodeRow]
      /\ code'[c] = row
      /\ \A d \in Codes \ {c} : code'[d] = code[d]
  BY <1>1, <1>2 DEF TypeOK
<1>4. /\ req' \in [Requests -> Step]
      /\ req'[p].codes = {c} /\ req'[p].pc = "send"
      /\ \A q \in Requests \ {p} : req'[q] = req[q]
  BY TakeType DEF CreateCode, Places
<1>5. \A d \in Codes : code[d].made => code'[d].made
  BY <1>1, <1>3
<1>6. TypeOK'
  BY <1>3, <1>4, <1>5 DEF CreateCode, TypeOK
<1> QED
  BY <1>1, <1>3, <1>4, <1>6 DEF CreateCode

(* A check ends, or goes on with a made and unused code that has tries     *)
(* left, to be counted as a miss or to be used.                            *)
Takes(p, to, c) ==
  /\ req' = [req EXCEPT ![p].pc = to, ![p].codes = {c}]
  /\ code[c].made /\ ~ code[c].consumed /\ code[c].attempts < MaxTries

LEMMA LoadCodeStep ==
  ASSUME TypeOK, NEW p \in Requests, LoadCode(p)
  PROVE  /\ TypeOK' /\ UNCHANGED codes
         /\ req[p].pc = "admitted"
         /\ \/ Finish(p)
            \/ \E c \in Codes, to \in {"miss", "consume"} : Takes(p, to, c)
<1>1. ASSUME NEW c \in Usable
      PROVE  c \in Codes /\ code[c].made /\ ~ code[c].consumed
  BY <1>1 DEF Usable, Latest, Made
<1>2. ASSUME NEW c \in Codes, ~ OutOfTries(c)
      PROVE  code[c].attempts < MaxTries
  <2>1. code[c].attempts \in Nat /\ MaxTries \in Nat
    BY TimesAssumption DEF TypeOK, CodeRow
  <2> QED
    BY <1>2, <2>1 DEF OutOfTries
<1>3. \/ Finish(p)
      \/ \E c \in Codes, to \in {"miss", "consume"} : Takes(p, to, c)
  BY <1>1, <1>2 DEF LoadCode, Takes
<1>4. req' \in [Requests -> Step]
  <2>1. CASE Finish(p)
    BY <2>1, FinishType
  <2>2. ASSUME NEW c \in Codes, NEW to \in {"miss", "consume"}, Takes(p, to, c)
        PROVE  req' \in [Requests -> Step]
    BY <2>2, TakeType DEF Takes, Places
  <2> QED
    BY <1>3, <2>1, <2>2
<1>5. TypeOK'
  BY <1>4 DEF LoadCode, TypeOK
<1> QED
  BY <1>3, <1>5 DEF LoadCode, codes

(* A request writes what it found of the code in its hand, and ends.       *)
LEMMA RecordMissStep ==
  ASSUME TypeOK, NEW p \in Requests, RecordMiss(p)
  PROVE  /\ TypeOK' /\ UNCHANGED granted /\ Finish(p)
         /\ req[p].pc = "miss"
         /\ \A c \in Codes :
              /\ code'[c].made = code[c].made
              /\ code'[c].consumed = code[c].consumed
              /\ code'[c].attempts = code[c].attempts
                                       + (IF c \in req[p].codes THEN 1 ELSE 0)
<1>1. \A c \in Codes : code'[c] = IF c \in req[p].codes
                                  THEN [code[c] EXCEPT !.attempts = @ + 1]
                                  ELSE code[c]
  BY DEF RecordMiss
<1>2. \A c \in Codes : code[c] \in CodeRow
  BY DEF TypeOK
<1>3. ASSUME NEW c \in Codes
      PROVE  /\ code'[c] \in CodeRow
             /\ code'[c].made = code[c].made
             /\ code'[c].consumed = code[c].consumed
             /\ code'[c].attempts = code[c].attempts
                                      + (IF c \in req[p].codes THEN 1 ELSE 0)
  <2>1. CASE c \in req[p].codes
    <3> DEFINE row == code[c]
    <3>1. row \in CodeRow
      BY <1>2
    <3>2. code'[c] = [row EXCEPT !.attempts = @ + 1]
      BY <1>1, <2>1
    <3> HIDE DEF row
    <3>3. code'[c].made = row.made /\ code'[c].consumed = row.consumed
      BY <3>1, <3>2 DEF CodeRow
    <3>4. code'[c].attempts = row.attempts + 1
      BY <3>1, <3>2 DEF CodeRow
    <3>5. code'[c] \in CodeRow
      BY <3>1, <3>2 DEF CodeRow
    <3> QED
      BY <2>1, <3>3, <3>4, <3>5 DEF row
  <2>2. CASE c \notin req[p].codes
    <3>1. code'[c] = code[c] /\ code[c].attempts \in Nat
      BY <1>1, <1>2, <2>2 DEF CodeRow
    <3> QED
      BY <1>2, <2>2, <3>1
  <2> QED
    BY <2>1, <2>2
<1>4. code' \in [Codes -> CodeRow]
  BY <1>3 DEF RecordMiss
<1>5. Finish(p) /\ req' \in [Requests -> Step]
  BY FinishType DEF RecordMiss
<1>6. TypeOK'
  BY <1>3, <1>4, <1>5 DEF RecordMiss, TypeOK
<1> QED
  BY <1>3, <1>5, <1>6 DEF RecordMiss

LEMMA ConsumeCodeStep ==
  ASSUME TypeOK, NEW p \in Requests, ConsumeCode(p)
  PROVE  /\ TypeOK' /\ Finish(p)
         /\ req[p].pc = "consume"
         /\ \A c \in Codes :
              /\ code'[c].made = code[c].made
              /\ code'[c].attempts = code[c].attempts
              /\ code'[c].consumed = (code[c].consumed \/ c \in req[p].codes)
              /\ granted'[c] = granted[c] + (IF c \in req[p].codes THEN 1 ELSE 0)
<1>1. \A c \in Codes : code'[c] = IF c \in req[p].codes
                                  THEN [code[c] EXCEPT !.consumed = TRUE]
                                  ELSE code[c]
  BY DEF ConsumeCode
<1>2. \A c \in Codes : code[c] \in CodeRow /\ granted[c] \in Nat
  BY DEF TypeOK
<1>3. ASSUME NEW c \in Codes
      PROVE  /\ code'[c] \in CodeRow
             /\ code'[c].made = code[c].made
             /\ code'[c].attempts = code[c].attempts
  BY <1>1, <1>2 DEF CodeRow
<1>4. ASSUME NEW c \in Codes
      PROVE  code'[c].consumed = (code[c].consumed \/ c \in req[p].codes)
  <2>1. CASE c \in req[p].codes
    BY <1>1, <1>2, <2>1 DEF CodeRow
  <2>2. CASE c \notin req[p].codes
    BY <1>1, <1>2, <2>2 DEF CodeRow
  <2> QED
    BY <2>1, <2>2
<1>5. ASSUME NEW c \in Codes
      PROVE  granted'[c] = granted[c] + (IF c \in req[p].codes THEN 1 ELSE 0)
             /\ granted'[c] \in Nat
  BY <1>2 DEF ConsumeCode
<1>6. code' \in [Codes -> CodeRow] /\ granted' \in [Codes -> Nat]
  BY <1>3, <1>5 DEF ConsumeCode
<1>7. Finish(p) /\ req' \in [Requests -> Step]
  BY FinishType DEF ConsumeCode
<1>8. TypeOK'
  BY <1>3, <1>6, <1>7 DEF ConsumeCode, TypeOK
<1> QED
  BY <1>3, <1>4, <1>5, <1>7, <1>8 DEF ConsumeCode

-----------------------------------------------------------------------------
(* The kinds of a step, as far as the codes are concerned.                 *)

(* No code is written and none is taken up.                                *)
Quiet ==
  /\ UNCHANGED <<code, granted>>
  /\ \A q \in Requests : req'[q].codes \subseteq req[q].codes
  /\ \A q \in Requests : req'[q].pc \in {"miss", "consume"} => req'[q] = req[q]

Loads(p) ==
  /\ UNCHANGED <<code, granted>>
  /\ req[p].pc = "admitted"
  /\ \E c \in Codes, to \in {"miss", "consume"} : Takes(p, to, c)

LEMMA StepKinds ==
  ASSUME TypeOK, HeldIsMade, [Next]_vars
  PROVE  /\ TypeOK'
         /\ \/ Quiet
            \/ \E p \in Requests : \/ \E c \in Codes : CreateCode(p, c)
                                   \/ Loads(p) \/ RecordMiss(p) \/ ConsumeCode(p)
<1>1. CASE UNCHANGED vars
  BY <1>1 DEF TypeOK, Quiet, Made
<1>2. CASE Tick
  <2>1. now' \in Time
    BY <1>2, TimesAssumption DEF Tick, TypeOK, Time
  <2> QED
    BY <1>2, <2>1 DEF Tick, TypeOK, Quiet
<1>3. ASSUME NEW p \in Requests, Serve(p)
      PROVE  /\ TypeOK'
             /\ \/ Quiet
                \/ \E c \in Codes : CreateCode(p, c)
                \/ Loads(p) \/ RecordMiss(p) \/ ConsumeCode(p)
  <2>1. CASE Limiter(p)
    BY <2>1, LimiterStep DEF Quiet, codes
  <2>2. CASE CheckCooldown(p)
    BY <2>2, CheckCooldownStep DEF Quiet, codes
  <2>3. CASE Ends(p)
    BY <2>3, EndsStep DEF Quiet
  <2>4. CASE \E c \in Codes : CreateCode(p, c)
    BY <2>4, CreateCodeStep
  <2>5. CASE LoadCode(p)
    <3>1. TypeOK' /\ UNCHANGED <<code, granted>> /\ req[p].pc = "admitted"
      BY <2>5, LoadCodeStep DEF codes
    <3>2. CASE Finish(p)
      <4>1. \A q \in Requests : req'[q].codes \subseteq req[q].codes
        BY <3>2, FinishType
      <4>2. Idle.pc = "idle"
        BY DEF Idle
      <4>3. \A q \in Requests : req'[q].pc \in {"miss", "consume"} => req'[q] = req[q]
        BY <3>2, <4>2 DEF Finish, TypeOK
      <4> QED
        BY <3>1, <4>1, <4>3 DEF Quiet
    <3> QED
      BY <2>5, <3>1, <3>2, LoadCodeStep DEF Loads
  <2>6. CASE RecordMiss(p)
    BY <2>6, RecordMissStep
  <2>7. CASE ConsumeCode(p)
    BY <2>7, ConsumeCodeStep
  <2> QED
    BY <1>3, <2>1, <2>2, <2>3, <2>4, <2>5, <2>6, <2>7 DEF Serve, Limiter, Ends
<1> QED
  BY <1>1, <1>2, <1>3 DEF Next

-----------------------------------------------------------------------------
(* What a step does to the requests that hold a code.                      *)

LEMMA QuietHolds ==
  ASSUME Quiet, NEW pc \in {"miss", "consume"}, NEW c \in Codes
  PROVE  Holding(pc, c)' \subseteq Holding(pc, c)
BY DEF Quiet, Holding

LEMMA CreateHolds ==
  ASSUME TypeOK, NEW p \in Requests, NEW d \in Codes, CreateCode(p, d),
         NEW pc \in {"miss", "consume"}, NEW c \in Codes
  PROVE  Holding(pc, c)' \subseteq Holding(pc, c)
<1>1. req'[p].pc = "send" /\ \A q \in Requests \ {p} : req'[q] = req[q]
  BY CreateCodeStep
<1> QED
  BY <1>1 DEF Holding

(* A request that loads a code is one more that holds that code only.      *)
LEMMA LoadHolds ==
  ASSUME TypeOK, NEW p \in Requests, req[p].pc = "admitted",
         NEW d \in Codes, NEW to \in {"miss", "consume"}, Takes(p, to, d),
         NEW pc \in {"miss", "consume"}, NEW c \in Codes, pc # to \/ c # d
  PROVE  Holding(pc, c)' \subseteq Holding(pc, c)
<1>1. /\ req'[p].codes = {d} /\ req'[p].pc = to
      /\ \A q \in Requests \ {p} : req'[q] = req[q]
  BY TakeType DEF Takes, Places
<1> QED
  BY <1>1 DEF Holding

LEMMA FinishHolds ==
  ASSUME TypeOK, NEW p \in Requests, Finish(p),
         NEW pc \in {"miss", "consume"}, NEW c \in Codes
  PROVE  Holding(pc, c)' = Holding(pc, c) \ {p}
<1>1. req'[p].pc = "idle" /\ \A q \in Requests \ {p} : req'[q] = req[q]
  BY DEF Finish, TypeOK, Idle
<1> QED
  BY <1>1 DEF Holding

(* Fewer hold it: there are no more of them.                               *)
LEMMA FewerHold ==
  ASSUME NEW pc, NEW c, Holding(pc, c)' \subseteq Holding(pc, c)
  PROVE  Cardinality(Holding(pc, c)') <= Cardinality(Holding(pc, c))
<1>1. Holding(pc, c)' \in SUBSET Holding(pc, c)
  OBVIOUS
<1> QED
  BY <1>1, HoldingFinite, FS_Subset

-----------------------------------------------------------------------------
(* The conjuncts of the invariant.                                         *)

LEMMA HeldStep ==
  ASSUME TypeOK, HeldIsMade, [Next]_vars
  PROVE  HeldIsMade'
<1> SUFFICES ASSUME NEW q \in Requests, NEW c \in req'[q].codes
             PROVE  code'[c].made
  BY DEF HeldIsMade
<1>t. TypeOK'
  BY StepKinds
<1>0. c \in Codes
  BY <1>t DEF TypeOK, Step
<1>1. CASE Quiet
  BY <1>1 DEF Quiet, HeldIsMade
<1>2. ASSUME NEW p \in Requests, NEW d \in Codes, CreateCode(p, d)
      PROVE  code'[c].made
  <2>1. /\ \A e \in Codes \ {d} : code'[e] = code[e]
        /\ code'[d].made /\ req'[p].codes = {d}
        /\ \A r \in Requests \ {p} : req'[r] = req[r]
    BY <1>2, CreateCodeStep
  <2> QED
    BY <1>0, <2>1 DEF HeldIsMade
<1>3. ASSUME NEW p \in Requests, Loads(p)
      PROVE  code'[c].made
  <2>1. PICK d \in Codes, to \in {"miss", "consume"} : Takes(p, to, d)
    BY <1>3 DEF Loads
  <2>2. /\ req'[p].codes = {d} /\ code[d].made
        /\ \A r \in Requests \ {p} : req'[r] = req[r]
    BY <2>1, TakeType DEF Takes, Places
  <2>3. UNCHANGED code
    BY <1>3 DEF Loads
  <2> QED
    BY <2>2, <2>3 DEF HeldIsMade
<1>4. ASSUME NEW p \in Requests, RecordMiss(p) \/ ConsumeCode(p)
      PROVE  code'[c].made
  <2>1. Finish(p) /\ code'[c].made = code[c].made
    BY <1>0, <1>4, RecordMissStep, ConsumeCodeStep
  <2>2. c \in req[q].codes
    BY <2>1, FinishType
  <2> QED
    BY <2>1, <2>2 DEF HeldIsMade
<1> QED
  BY <1>1, <1>2, <1>3, <1>4, StepKinds

LEMMA GrantedStep ==
  ASSUME TypeOK, HeldIsMade, GrantedIsUsed, [Next]_vars
  PROVE  GrantedIsUsed'
<1> SUFFICES ASSUME NEW c \in Codes, granted'[c] > 0
             PROVE  code'[c].made /\ code'[c].consumed
  BY DEF GrantedIsUsed
<1>1. CASE Quiet
  BY <1>1 DEF Quiet, GrantedIsUsed
<1>2. ASSUME NEW p \in Requests, NEW d \in Codes, CreateCode(p, d)
      PROVE  code'[c].made /\ code'[c].consumed
  <2>1. /\ \A e \in Codes \ {d} : code'[e] = code[e]
        /\ UNCHANGED granted /\ ~ code[d].made
    BY <1>2, CreateCodeStep
  <2>2. c # d
    BY <2>1 DEF GrantedIsUsed
  <2> QED
    BY <2>1, <2>2 DEF GrantedIsUsed
<1>3. ASSUME NEW p \in Requests, Loads(p)
      PROVE  code'[c].made /\ code'[c].consumed
  BY <1>3 DEF Loads, GrantedIsUsed
<1>4. ASSUME NEW p \in Requests, RecordMiss(p)
      PROVE  code'[c].made /\ code'[c].consumed
  BY <1>4, RecordMissStep DEF GrantedIsUsed
<1>5. ASSUME NEW p \in Requests, ConsumeCode(p)
      PROVE  code'[c].made /\ code'[c].consumed
  <2>1. /\ code'[c].made = code[c].made
        /\ code'[c].consumed = (code[c].consumed \/ c \in req[p].codes)
        /\ granted'[c] = granted[c] + (IF c \in req[p].codes THEN 1 ELSE 0)
    BY <1>5, ConsumeCodeStep
  <2>2. CASE c \in req[p].codes
    BY <2>1, <2>2 DEF HeldIsMade
  <2>3. CASE c \notin req[p].codes
    <3>1. granted[c] \in Nat
      BY DEF TypeOK
    <3>2. granted[c] > 0
      BY <2>1, <2>3, <3>1
    <3> QED
      BY <2>1, <3>2 DEF GrantedIsUsed
  <2> QED
    BY <2>2, <2>3
<1> QED
  BY <1>1, <1>2, <1>3, <1>4, <1>5, StepKinds

(* The request that counts a miss, or a use, gives up its place for it.    *)
LEMMA OneLessHolds ==
  ASSUME TypeOK, NEW p \in Requests, Finish(p),
         NEW pc \in {"miss", "consume"}, req[p].pc = pc,
         NEW c \in Codes, c \in req[p].codes
  PROVE  Cardinality(Holding(pc, c)') = Cardinality(Holding(pc, c)) - 1
<1>1. Holding(pc, c)' = Holding(pc, c) \ {p}
  BY FinishHolds
<1>2. p \in Holding(pc, c)
  BY DEF Holding
<1> QED
  BY <1>1, <1>2, HoldingFinite, FS_RemoveElement

LEMMA NoMoreHold ==
  ASSUME TypeOK, NEW p \in Requests, Finish(p),
         NEW pc \in {"miss", "consume"}, NEW c \in Codes
  PROVE  Cardinality(Holding(pc, c)') <= Cardinality(Holding(pc, c))
<1>1. Holding(pc, c)' \subseteq Holding(pc, c)
  BY FinishHolds
<1> QED
  BY <1>1, FewerHold

LEMMA Counts ==
  ASSUME NEW pc, NEW c
  PROVE  /\ Cardinality(Holding(pc, c)) \in Nat
         /\ Cardinality(Holding(pc, c)') \in Nat
         /\ Cardinality(Holding(pc, c)') <= Overlap
<1>1. Cardinality(Holding(pc, c)) \in 0 .. Overlap
  BY HoldingFinite
<1>2. Cardinality(Holding(pc, c)') \in 0 .. Overlap
  BY HoldingFinitePrimed
<1> QED
  BY <1>1, <1>2, OverlapPositive

LEMMA TriesStep ==
  ASSUME TypeOK, HeldIsMade, TriesAreBounded, [Next]_vars
  PROVE  TriesAreBounded'
<1> DEFINE Before(c) == code[c].attempts + Cardinality(Holding("miss", c))
           After(c)  == code'[c].attempts + Cardinality(Holding("miss", c)')
           Bound     == MaxTries + Overlap - 1
<1>b. \A c \in Codes : Before(c) <= Bound
  BY TriesBoundIs
<1>g. (\A c \in Codes : After(c) <= Bound) => TriesAreBounded'
  BY DEF TriesAreBounded, Holding, Overlap
<1> SUFFICES ASSUME NEW c \in Codes PROVE After(c) <= Bound
  BY <1>g
<1>t. TypeOK' /\ MaxTries \in Nat /\ Overlap \in Nat /\ Overlap >= 1
  BY StepKinds, OverlapPositive, TimesAssumption
<1>n. code[c].attempts \in Nat /\ code'[c].attempts \in Nat
  BY <1>t DEF TypeOK, CodeRow
<1>h. /\ Cardinality(Holding("miss", c)) \in Nat
      /\ Cardinality(Holding("miss", c)') \in Nat
      /\ Cardinality(Holding("miss", c)') <= Overlap
  BY Counts
<1>e. ASSUME code'[c].attempts <= code[c].attempts,
             Cardinality(Holding("miss", c)') <= Cardinality(Holding("miss", c))
      PROVE  After(c) <= Bound
  BY <1>b, <1>e, <1>t, <1>n, <1>h
<1>1. CASE Quiet
  <2>1. Holding("miss", c)' \subseteq Holding("miss", c)
    BY <1>1, QuietHolds
  <2>2. code'[c].attempts <= code[c].attempts
    BY <1>1, <1>n DEF Quiet
  <2> QED
    BY <1>e, <2>1, <2>2, FewerHold
<1>2. ASSUME NEW p \in Requests, NEW d \in Codes, CreateCode(p, d)
      PROVE  After(c) <= Bound
  <2>1. Holding("miss", c)' \subseteq Holding("miss", c)
    BY <1>2, CreateHolds
  <2>2. code'[c].attempts <= code[c].attempts
    BY <1>2, <1>n, CreateCodeStep
  <2> QED
    BY <1>e, <2>1, <2>2, FewerHold
<1>3. ASSUME NEW p \in Requests, Loads(p)
      PROVE  After(c) <= Bound
  <2>1. PICK d \in Codes, to \in {"miss", "consume"} : Takes(p, to, d)
    BY <1>3 DEF Loads
  <2>2. UNCHANGED code /\ req[p].pc = "admitted"
    BY <1>3 DEF Loads
  <2>3. CASE to = "miss" /\ c = d
    <3>1. code'[c].attempts < MaxTries
      BY <2>1, <2>2, <2>3 DEF Takes
    <3> QED
      BY <1>t, <1>n, <1>h, <3>1
  <2>4. CASE ~ (to = "miss" /\ c = d)
    <3>1. Holding("miss", c)' \subseteq Holding("miss", c)
      BY <2>1, <2>2, <2>4, LoadHolds
    <3>2. code'[c].attempts <= code[c].attempts
      BY <1>n, <2>2
    <3> QED
      BY <1>e, <3>1, <3>2, FewerHold
  <2> QED
    BY <2>3, <2>4
<1>4. ASSUME NEW p \in Requests, RecordMiss(p)
      PROVE  After(c) <= Bound
  <2>1. /\ Finish(p) /\ req[p].pc = "miss"
        /\ code'[c].attempts = code[c].attempts
                                 + (IF c \in req[p].codes THEN 1 ELSE 0)
    BY <1>4, RecordMissStep
  <2>2. CASE c \in req[p].codes
    <3>1. Cardinality(Holding("miss", c)') = Cardinality(Holding("miss", c)) - 1
      BY <2>1, <2>2, OneLessHolds
    <3>2. code'[c].attempts = code[c].attempts + 1
      BY <2>1, <2>2
    <3> QED
      BY <1>b, <1>t, <1>n, <1>h, <3>1, <3>2
  <2>3. CASE c \notin req[p].codes
    <3>1. code'[c].attempts <= code[c].attempts
      BY <1>n, <2>1, <2>3
    <3>2. Cardinality(Holding("miss", c)') <= Cardinality(Holding("miss", c))
      BY <2>1, NoMoreHold
    <3> QED
      BY <1>e, <3>1, <3>2
  <2> QED
    BY <2>2, <2>3
<1>5. ASSUME NEW p \in Requests, ConsumeCode(p)
      PROVE  After(c) <= Bound
  <2>1. Finish(p) /\ code'[c].attempts <= code[c].attempts
    BY <1>5, <1>n, ConsumeCodeStep
  <2>2. Cardinality(Holding("miss", c)') <= Cardinality(Holding("miss", c))
    BY <2>1, NoMoreHold
  <2> QED
    BY <1>e, <2>1, <2>2
<1> QED
  BY <1>1, <1>2, <1>3, <1>4, <1>5, StepKinds

LEMMA UseStep ==
  ASSUME TypeOK, HeldIsMade, GrantedIsUsed, UseIsBounded, [Next]_vars
  PROVE  UseIsBounded'
<1> DEFINE Before(c) == granted[c] + Cardinality(Holding("consume", c))
           After(c)  == granted'[c] + Cardinality(Holding("consume", c)')
<1>b. \A c \in Codes : Before(c) <= Overlap
  BY UseBoundIs
<1>g. (\A c \in Codes : After(c) <= Overlap) => UseIsBounded'
  BY DEF UseIsBounded, Holding, Overlap
<1> SUFFICES ASSUME NEW c \in Codes PROVE After(c) <= Overlap
  BY <1>g
<1>t. TypeOK' /\ Overlap \in Nat
  BY StepKinds, OverlapPositive
<1>n. granted[c] \in Nat /\ granted'[c] \in Nat
  BY <1>t DEF TypeOK
<1>h. /\ Cardinality(Holding("consume", c)) \in Nat
      /\ Cardinality(Holding("consume", c)') \in Nat
      /\ Cardinality(Holding("consume", c)') <= Overlap
  BY Counts
<1>e. ASSUME granted'[c] = granted[c],
             Cardinality(Holding("consume", c)') <= Cardinality(Holding("consume", c))
      PROVE  After(c) <= Overlap
  BY <1>b, <1>e, <1>t, <1>n, <1>h
<1>1. CASE Quiet
  <2>1. Holding("consume", c)' \subseteq Holding("consume", c)
    BY <1>1, QuietHolds
  <2> QED
    BY <1>1, <1>e, <2>1, FewerHold DEF Quiet
<1>2. ASSUME NEW p \in Requests, NEW d \in Codes, CreateCode(p, d)
      PROVE  After(c) <= Overlap
  <2>1. Holding("consume", c)' \subseteq Holding("consume", c)
    BY <1>2, CreateHolds
  <2> QED
    BY <1>2, <1>e, <2>1, FewerHold, CreateCodeStep
<1>3. ASSUME NEW p \in Requests, Loads(p)
      PROVE  After(c) <= Overlap
  <2>1. PICK d \in Codes, to \in {"miss", "consume"} : Takes(p, to, d)
    BY <1>3 DEF Loads
  <2>2. UNCHANGED granted /\ req[p].pc = "admitted"
    BY <1>3 DEF Loads
  <2>3. CASE to = "consume" /\ c = d
    <3>1. ~ (granted[c] > 0)
      BY <2>1, <2>3 DEF Takes, GrantedIsUsed
    <3>2. granted'[c] = 0
      BY <1>n, <2>2, <3>1
    <3> QED
      BY <1>t, <1>h, <3>2
  <2>4. CASE ~ (to = "consume" /\ c = d)
    <3>1. Holding("consume", c)' \subseteq Holding("consume", c)
      BY <2>1, <2>2, <2>4, LoadHolds
    <3> QED
      BY <1>e, <2>2, <3>1, FewerHold
  <2> QED
    BY <2>3, <2>4
<1>4. ASSUME NEW p \in Requests, RecordMiss(p)
      PROVE  After(c) <= Overlap
  <2>1. Finish(p) /\ UNCHANGED granted
    BY <1>4, RecordMissStep
  <2> QED
    BY <1>e, <2>1, NoMoreHold
<1>5. ASSUME NEW p \in Requests, ConsumeCode(p)
      PROVE  After(c) <= Overlap
  <2>1. /\ Finish(p) /\ req[p].pc = "consume"
        /\ granted'[c] = granted[c] + (IF c \in req[p].codes THEN 1 ELSE 0)
    BY <1>5, ConsumeCodeStep
  <2>2. CASE c \in req[p].codes
    <3>1. Cardinality(Holding("consume", c)') = Cardinality(Holding("consume", c)) - 1
      BY <2>1, <2>2, OneLessHolds
    <3>2. granted'[c] = granted[c] + 1
      BY <2>1, <2>2
    <3> QED
      BY <1>b, <1>t, <1>n, <1>h, <3>1, <3>2
  <2>3. CASE c \notin req[p].codes
    <3>1. granted'[c] = granted[c]
      BY <1>n, <2>1, <2>3
    <3> QED
      BY <1>e, <2>1, <3>1, NoMoreHold
  <2> QED
    BY <2>2, <2>3
<1> QED
  BY <1>1, <1>2, <1>3, <1>4, <1>5, StepKinds

-----------------------------------------------------------------------------
(* The cooldown.  A window that can still grow has room for a code of each *)
(* request that is past the check: when one passes it, the window is empty.*)

MadeIn(t) == {c \in Made : /\ t <= code[c].createdAt
                           /\ code[c].createdAt < t + Cooldown}

Creating == {p \in Requests : req[p].pc = "create"}

NotAhead == \A c \in Made : code[c].createdAt <= now

OpenWindows ==
  \A t \in Time : t + Cooldown > now
                    => Cardinality(MadeIn(t)) + Cardinality(Creating) <= Overlap

CInv == /\ IsFiniteSet(Made) /\ NotAhead /\ OpenWindows /\ CooldownHolds

LEMMA CooldownIs ==
  CooldownHolds <=> \A t \in Time : Cardinality(MadeIn(t)) <= Overlap
BY DEF CooldownHolds, MadeIn

LEMMA MadeInCounts ==
  ASSUME IsFiniteSet(Made), NEW t
  PROVE  IsFiniteSet(MadeIn(t)) /\ Cardinality(MadeIn(t)) \in Nat
<1>1. MadeIn(t) \in SUBSET Made
  BY DEF MadeIn
<1> QED
  BY <1>1, FS_Subset, FS_CardinalityType

LEMMA CreatingCounts ==
  /\ IsFiniteSet(Creating) /\ Cardinality(Creating) \in Nat
  /\ Cardinality(Creating) <= Overlap
<1>1. Creating \in SUBSET Requests /\ IsFiniteSet(Requests)
  BY RequestsAssumption DEF Creating
<1> QED
  BY <1>1, FS_Subset, FS_CardinalityType DEF Overlap

LEMMA CreatingCountsPrimed ==
  /\ IsFiniteSet(Creating') /\ Cardinality(Creating') \in Nat
  /\ Cardinality(Creating') <= Overlap
<1>1. Creating' \in SUBSET Requests /\ IsFiniteSet(Requests)
  BY RequestsAssumption DEF Creating
<1> QED
  BY <1>1, FS_Subset, FS_CardinalityType DEF Overlap

LEMMA LeastElement ==
  ASSUME NEW T \in SUBSET Nat, T # {}
  PROVE  \E n \in T : \A m \in T : n <= m
<1> DEFINE R == {ss \in Nat \X Nat : ss[1] < ss[2]}
<1>1. R = OpToRel(<, Nat)
  BY DEF OpToRel
<1>2. IsWellFoundedOn(R, Nat)
  BY <1>1, NatLessThanWellFounded
<1>3. \E n \in T : \A m \in T : ~ (<<m, n>> \in R)
  <2> HIDE DEF R
  <2> QED
    BY <1>2, WFMin
<1>4. PICK n \in T : \A m \in T : ~ (<<m, n>> \in R)
  BY <1>3
<1>5. ASSUME NEW m \in T PROVE n <= m
  <2>1. n \in Nat /\ m \in Nat /\ <<m, n>> \in Nat \X Nat
    OBVIOUS
  <2>2. m < n => <<m, n>> \in R
    BY <2>1
  <2>3. ~ (m < n)
    BY <1>4, <2>2
  <2> QED
    BY <2>1, <2>3
<1> QED
  BY <1>5

(* Looking at the newest code is looking at all of them.                   *)
LEMMA RestedMeansAll ==
  ASSUME TypeOK, Rested, NEW d \in Made
  PROVE  now - code[d].createdAt >= Cooldown
<1> DEFINE Ages == {MaxTime - code[c].createdAt : c \in Made}
<1>1. \A c \in Made : code[c].createdAt \in 0 .. MaxTime
  BY DEF Made, TypeOK, CodeRow, Time
<1>2. MaxTime \in Nat /\ now \in Nat /\ Cooldown \in Nat
  BY TimesAssumption DEF TypeOK, Time
<1>3. Ages \in SUBSET Nat /\ Ages # {}
  BY <1>1, <1>2
<1>4. PICK n \in Ages : \A m \in Ages : n <= m
  BY <1>3, LeastElement
<1>5. PICK c \in Made : n = MaxTime - code[c].createdAt
  BY <1>4
<1>6. ASSUME NEW e \in Made PROVE code[e].createdAt <= code[c].createdAt
  <2>1. MaxTime - code[e].createdAt \in Ages
    OBVIOUS
  <2>2. n <= MaxTime - code[e].createdAt
    BY <1>4, <2>1
  <2>3. code[e].createdAt \in Int /\ code[c].createdAt \in Int
    BY <1>1
  <2> HIDE DEF Ages
  <2> QED
    BY <1>2, <1>5, <2>2, <2>3
<1>7. c \in Latest(Made)
  BY <1>6 DEF Latest
<1>8. now - code[c].createdAt >= Cooldown
  BY <1>7 DEF Rested
<1> QED
  BY <1>1, <1>2, <1>6, <1>8

(* Steps that make no code and let no request past the check.              *)
Keeps ==
  /\ now' \in Time /\ now <= now'
  /\ \A c \in Codes : /\ code'[c].made = code[c].made
                       /\ code'[c].createdAt = code[c].createdAt
  /\ \A q \in Requests : req'[q].pc = "create" => req[q].pc = "create"

LEMMA KeepsStep ==
  ASSUME TypeOK, CInv, Keeps
  PROVE  CInv'
<1>1. Made' = Made /\ \A c \in Made : code'[c].createdAt = code[c].createdAt
  BY DEF Keeps, Made
<1>2. \A t : MadeIn(t)' = MadeIn(t)
  BY <1>1 DEF MadeIn
<1>3. IsFiniteSet(Made')
  BY <1>1 DEF CInv
<1>n. now \in Nat /\ now' \in Nat /\ now <= now'
  BY DEF Keeps, TypeOK, Time
<1>4. NotAhead'
  <2>1. \A c \in Made : code[c].createdAt \in Nat
    BY DEF Made, TypeOK, CodeRow, Time
  <2> QED
    BY <1>1, <1>n, <2>1 DEF NotAhead, CInv
<1>5. Cardinality(Creating') <= Cardinality(Creating)
  <2>1. Creating' \in SUBSET Creating
    BY DEF Keeps, Creating
  <2> QED
    BY <2>1, CreatingCounts, FS_Subset
<1>6. CooldownHolds'
  <2>1. \A t \in Time : Cardinality(MadeIn(t)') <= Overlap
    BY <1>2, CooldownIs DEF CInv
  <2> QED
    BY <2>1 DEF CooldownHolds, MadeIn, Overlap
<1>7. OpenWindows'
  <2> SUFFICES ASSUME NEW t \in Time, t + Cooldown > now'
               PROVE  Cardinality(MadeIn(t)') + Cardinality(Creating') <= Overlap
    BY DEF OpenWindows, Overlap
  <2>1. t \in Nat /\ Cooldown \in Nat /\ t + Cooldown > now
    BY <1>n, TimesAssumption DEF Time
  <2>2. Cardinality(MadeIn(t)) + Cardinality(Creating) <= Overlap
    BY <2>1 DEF CInv, OpenWindows
  <2>3. Cardinality(MadeIn(t)) \in Nat
    BY MadeInCounts DEF CInv
  <2> QED
    BY <1>2, <1>5, <2>2, <2>3, CreatingCounts, CreatingCountsPrimed, OverlapPositive
<1> QED
  BY <1>3, <1>4, <1>6, <1>7 DEF CInv

(* A request passes the check: the windows that are open are empty.        *)
LEMMA PassesStep ==
  ASSUME TypeOK, CInv, NEW p \in Requests, CheckCooldown(p), Rested
  PROVE  CInv'
<1>1. UNCHANGED <<now, code>>
  BY DEF CheckCooldown
<1>2. Made' = Made /\ \A t : MadeIn(t)' = MadeIn(t)
  BY <1>1 DEF Made, MadeIn
<1>3. IsFiniteSet(Made') /\ NotAhead'
  BY <1>1, <1>2 DEF CInv, NotAhead
<1>4. CooldownHolds'
  BY <1>1 DEF CInv, CooldownHolds, Made, Overlap
<1>5. OpenWindows'
  <2> SUFFICES ASSUME NEW t \in Time, t + Cooldown > now
               PROVE  Cardinality(MadeIn(t)') + Cardinality(Creating') <= Overlap
    BY <1>1 DEF OpenWindows, Overlap
  <2>1. ASSUME NEW c \in MadeIn(t) PROVE FALSE
    <3>1. c \in Made /\ t <= code[c].createdAt
      BY DEF MadeIn
    <3>2. now - code[c].createdAt >= Cooldown
      BY <3>1, RestedMeansAll
    <3>3. /\ now \in Nat /\ code[c].createdAt \in Nat /\ t \in Nat
          /\ Cooldown \in Nat
      BY <3>1, TimesAssumption DEF TypeOK, CodeRow, Time, Made
    <3> QED
      BY <3>1, <3>2, <3>3
  <2>2. MadeIn(t) = {}
    BY <2>1
  <2>3. Cardinality(MadeIn(t)') = 0
    BY <1>2, <2>2, FS_EmptySet
  <2> QED
    BY <2>3, CreatingCountsPrimed, OverlapPositive
<1> QED
  BY <1>3, <1>4, <1>5 DEF CInv

(* A code is made: its maker leaves its place in the window for it.        *)
LEMMA MakesStep ==
  ASSUME TypeOK, CInv, NEW p \in Requests, NEW c \in Codes, CreateCode(p, c)
  PROVE  CInv'
<1>1. /\ \A d \in Codes \ {c} : code'[d] = code[d]
      /\ ~ code[c].made /\ code'[c].made
      /\ req'[p].pc = "send" /\ \A q \in Requests \ {p} : req'[q] = req[q]
  BY CreateCodeStep
<1>2. code'[c].createdAt = now /\ now' = now
  BY DEF CreateCode, TypeOK, NoCode
<1>3. c \notin Made /\ Made' = Made \cup {c}
  BY <1>1 DEF Made
<1>4. IsFiniteSet(Made')
  BY <1>3, FS_AddElement DEF CInv
<1>n. now \in Nat /\ Cooldown \in Nat /\ Cooldown >= 1
  BY TimesAssumption DEF TypeOK, Time
<1>5. NotAhead'
  BY <1>1, <1>2, <1>3, <1>n DEF CInv, NotAhead, Made
<1>6. /\ req[p].pc = "create" /\ Creating' = Creating \ {p}
  BY <1>1 DEF CreateCode, Creating
<1>7. Cardinality(Creating') = Cardinality(Creating) - 1
  BY <1>6, CreatingCounts, FS_RemoveElement DEF Creating
<1>8. ASSUME NEW t \in Time, t + Cooldown > now
      PROVE  /\ Cardinality(MadeIn(t)') + Cardinality(Creating') <= Overlap
             /\ Cardinality(MadeIn(t)') <= Overlap
  <2>1. MadeIn(t)' \in SUBSET (MadeIn(t) \cup {c})
    BY <1>1, <1>3 DEF MadeIn, Made
  <2>2. /\ IsFiniteSet(MadeIn(t) \cup {c})
        /\ Cardinality(MadeIn(t) \cup {c}) <= Cardinality(MadeIn(t)) + 1
        /\ Cardinality(MadeIn(t)) \in Nat
    <3>1. IsFiniteSet(MadeIn(t)) /\ Cardinality(MadeIn(t)) \in Nat
      BY MadeInCounts DEF CInv
    <3> QED
      BY <3>1, FS_AddElement
  <2>3. /\ Cardinality(MadeIn(t)') <= Cardinality(MadeIn(t) \cup {c})
        /\ Cardinality(MadeIn(t)') \in Nat
        /\ Cardinality(MadeIn(t) \cup {c}) \in Nat
    <3> DEFINE S == MadeIn(t) \cup {c}
               T == MadeIn(t)'
    <3>1. IsFiniteSet(S) /\ T \in SUBSET S
      BY <2>1, <2>2
    <3> HIDE DEF S, T
    <3>2. IsFiniteSet(T) /\ Cardinality(T) <= Cardinality(S)
      BY <3>1, FS_Subset
    <3>3. Cardinality(S) \in Nat /\ Cardinality(T) \in Nat
      BY <3>1, <3>2, FS_CardinalityType
    <3> QED
      BY <3>2, <3>3 DEF S, T
  <2>4. Cardinality(MadeIn(t)) + Cardinality(Creating) <= Overlap
    BY <1>8 DEF CInv, OpenWindows
  <2> QED
    BY <1>7, <2>2, <2>3, <2>4, CreatingCounts, CreatingCountsPrimed, OverlapPositive
<1>9. ASSUME NEW t \in Time, ~ (t + Cooldown > now)
      PROVE  Cardinality(MadeIn(t)') <= Overlap
  <2>1. c \notin MadeIn(t)'
    <3>1. t \in Nat
      BY DEF Time
    <3> QED
      BY <1>2, <1>9, <1>n, <3>1 DEF MadeIn
  <2>2. MadeIn(t)' = MadeIn(t)
    BY <1>1, <1>3, <2>1 DEF MadeIn, Made
  <2> QED
    BY <2>2, CooldownIs DEF CInv
<1>10. CooldownHolds'
  <2>1. \A t \in Time : Cardinality(MadeIn(t)') <= Overlap
    BY <1>8, <1>9
  <2> QED
    BY <2>1 DEF CooldownHolds, MadeIn, Overlap
<1>11. OpenWindows'
  <2>1. \A t \in Time : t + Cooldown > now' =>
          Cardinality(MadeIn(t)') + Cardinality(Creating') <= Overlap
    BY <1>2, <1>8
  <2> QED
    BY <2>1 DEF OpenWindows, Overlap
<1> QED
  BY <1>4, <1>5, <1>10, <1>11 DEF CInv

LEMMA CooldownKinds ==
  ASSUME TypeOK, HeldIsMade, [Next]_vars
  PROVE  \/ Keeps
         \/ \E p \in Requests : CheckCooldown(p) /\ Rested
         \/ \E p \in Requests, c \in Codes : CreateCode(p, c)
<1>n. now \in Nat /\ now \in Time
  BY DEF TypeOK, Time
<1>i. Idle.pc = "idle"
  BY DEF Idle
<1>1. CASE UNCHANGED vars
  BY <1>1, <1>n DEF Keeps
<1>2. CASE Tick
  <2>1. now' \in Time /\ now <= now'
    BY <1>2, <1>n, TimesAssumption DEF Tick, Time
  <2> QED
    BY <1>2, <2>1 DEF Tick, Keeps
<1>3. ASSUME NEW p \in Requests, Serve(p)
      PROVE  \/ Keeps
             \/ CheckCooldown(p) /\ Rested
             \/ \E c \in Codes : CreateCode(p, c)
  <2>k. ASSUME now' = now,
               \A c \in Codes : /\ code'[c].made = code[c].made
                                /\ code'[c].createdAt = code[c].createdAt,
               \A q \in Requests \ {p} : req'[q] = req[q],
               req'[p].pc # "create"
        PROVE  Keeps
    BY <1>n, <2>k DEF Keeps
  <2>f. ASSUME Finish(p)
        PROVE  /\ \A q \in Requests \ {p} : req'[q] = req[q]
               /\ req'[p].pc # "create"
    BY <1>i, <2>f DEF Finish, TypeOK
  <2>g. ASSUME NEW to \in Places \ {"create"}, Goto(p, to)
        PROVE  /\ \A q \in Requests \ {p} : req'[q] = req[q]
               /\ req'[p].pc # "create"
    BY <2>g DEF Goto, TypeOK, Step
  <2>1. CASE \E b \in Buckets : Call(p, b)
    <3> PICK b \in Buckets : Call(p, b)
      BY <2>1
    <3> DEFINE r == [Idle EXCEPT !.pc = "count", !.bucket = b, !.start = now]
    <3>1. r.pc = "count"
      BY DEF Idle
    <3>2. req' = [req EXCEPT ![p] = r]
      BY DEF Call
    <3> HIDE DEF r
    <3>3. req'[p].pc # "create" /\ \A q \in Requests \ {p} : req'[q] = req[q]
      BY <3>1, <3>2 DEF TypeOK
    <3>4. UNCHANGED <<now, code>>
      BY DEF Call
    <3> QED
      BY <2>k, <3>3, <3>4
  <2>2. CASE CountEvents(p)
    <3>1. (Finish(p) \/ Goto(p, "clean")) /\ UNCHANGED <<now, code>>
      BY <2>2 DEF CountEvents
    <3> QED
      BY <2>f, <2>g, <2>k, <3>1 DEF Places
  <2>3. CASE CleanUp(p)
    <3>1. Goto(p, "admitted") /\ UNCHANGED <<now, code>>
      BY <2>3 DEF CleanUp
    <3> QED
      BY <2>g, <2>k, <3>1 DEF Places
  <2>4. CASE RefusedByAddress(p) \/ SendCode(p) \/ Die(p)
    <3>1. Finish(p) /\ UNCHANGED <<now, code>>
      BY <2>4 DEF RefusedByAddress, SendCode, Die
    <3> QED
      BY <2>f, <2>k, <3>1
  <2>5. CASE CheckCooldown(p)
    <3>1. CASE ~ Rested
      <4>1. Finish(p) /\ UNCHANGED <<now, code>>
        BY <2>5, <3>1 DEF CheckCooldown
      <4> QED
        BY <2>f, <2>k, <4>1
    <3> QED
      BY <2>5, <3>1
  <2>6. CASE LoadCode(p)
    <3>1. UNCHANGED <<now, code>>
      BY <2>6 DEF LoadCode
    <3>2. CASE Finish(p)
      BY <2>f, <2>k, <3>1, <3>2
    <3>3. ASSUME NEW c \in Codes, NEW to \in {"miss", "consume"}, Takes(p, to, c)
          PROVE  Keeps
      <4>1. req'[p].pc = to /\ \A q \in Requests \ {p} : req'[q] = req[q]
        BY <3>3, TakeType DEF Takes, Places
      <4> QED
        BY <2>k, <3>1, <4>1
    <3> QED
      BY <2>6, <3>2, <3>3, LoadCodeStep
  <2>7. CASE RecordMiss(p)
    <3>1. \A c \in Codes : /\ code[c] \in CodeRow
                           /\ code'[c] = IF c \in req[p].codes
                                         THEN [code[c] EXCEPT !.attempts = @ + 1]
                                         ELSE code[c]
      BY <2>7 DEF RecordMiss, TypeOK
    <3>2. \A c \in Codes : code'[c].createdAt = code[c].createdAt
      BY <3>1 DEF CodeRow
    <3>3. Finish(p) /\ now' = now /\ \A c \in Codes : code'[c].made = code[c].made
      BY <2>7, RecordMissStep DEF RecordMiss
    <3> QED
      BY <2>f, <2>k, <3>2, <3>3
  <2>8. CASE ConsumeCode(p)
    <3>1. \A c \in Codes : /\ code[c] \in CodeRow
                           /\ code'[c] = IF c \in req[p].codes
                                         THEN [code[c] EXCEPT !.consumed = TRUE]
                                         ELSE code[c]
      BY <2>8 DEF ConsumeCode, TypeOK
    <3>2. \A c \in Codes : code'[c].createdAt = code[c].createdAt
      BY <3>1 DEF CodeRow
    <3>3. Finish(p) /\ now' = now /\ \A c \in Codes : code'[c].made = code[c].made
      BY <2>8, ConsumeCodeStep DEF ConsumeCode
    <3> QED
      BY <2>f, <2>k, <3>2, <3>3
  <2> QED
    BY <1>3, <2>1, <2>2, <2>3, <2>4, <2>5, <2>6, <2>7, <2>8 DEF Serve
<1> QED
  BY <1>1, <1>2, <1>3 DEF Next

-----------------------------------------------------------------------------
LEMMA InitIInv == Init => IInv
<1> SUFFICES ASSUME Init PROVE IInv
  OBVIOUS
<1>1. \A p \in Requests : req[p] = Idle
  BY DEF Init
<1>2. Idle.codes = {} /\ Idle.pc = "idle"
  BY DEF Idle
<1>3. \A c \in Codes : code[c].attempts = 0 /\ granted[c] = 0
  BY DEF Init, NoCode
<1>4. \A pc \in {"miss", "consume"} : \A c : Holding(pc, c) = {}
  BY <1>1, <1>2 DEF Holding
<1>5. \A pc \in {"miss", "consume"} : \A c : Cardinality(Holding(pc, c)) = 0
  BY <1>4, FS_EmptySet
<1>6. HeldIsMade /\ GrantedIsUsed
  BY <1>1, <1>2, <1>3 DEF HeldIsMade, GrantedIsUsed
<1>7. Overlap \in Nat /\ Overlap >= 1 /\ MaxTries \in Nat
  BY OverlapPositive, TimesAssumption
<1>8. TriesAreBounded
  BY <1>3, <1>5, <1>7, TriesBoundIs
<1>9. UseIsBounded
  BY <1>3, <1>5, <1>7, UseBoundIs
<1> QED
  BY <1>6, <1>8, <1>9, InitType DEF IInv

(* The inductive invariant holds in every reachable state, for every       *)
(* number of requests and codes.                                           *)
THEOREM Invariance == Spec => []IInv
<1>1. IInv /\ [Next]_vars => IInv'
  BY StepKinds, HeldStep, GrantedStep, TriesStep, UseStep DEF IInv
<1> QED
  BY <1>1, InitIInv, PTL DEF Spec

(* Every variable keeps its type, and only codes that were made are ever   *)
(* delivered.                                                              *)
THEOREM TypeCorrect == Spec => []TypeOK
<1>1. IInv => TypeOK
  BY DEF IInv
<1> QED
  BY <1>1, Invariance, PTL

(* verifyCode reads the number of tries and counts one later: a code takes *)
(* fewer tries than its limit and the overlapping requests together.       *)
THEOREM TriesBound == Spec => []TriesAreBounded
<1>1. IInv => TriesAreBounded
  BY DEF IInv
<1> QED
  BY <1>1, Invariance, PTL

(* verifyCode reads that a code is unused and marks it later: a code opens *)
(* no more sessions than requests that can overlap.                        *)
THEOREM UseBound == Spec => []UseIsBounded
<1>1. IInv => UseIsBounded
  BY DEF IInv
<1> QED
  BY <1>1, Invariance, PTL

LEMMA InitCInv == Init => CInv
<1> SUFFICES ASSUME Init PROVE CInv
  OBVIOUS
<1>1. Made = {}
  BY DEF Init, Made, NoCode
<1>2. IsFiniteSet(Made) /\ NotAhead
  BY <1>1, FS_EmptySet DEF NotAhead
<1>3. \A t : Cardinality(MadeIn(t)) = 0
  BY <1>1, FS_EmptySet DEF MadeIn
<1>4. CooldownHolds
  BY <1>3, CooldownIs, OverlapPositive
<1>5. OpenWindows
  BY <1>3, CreatingCounts, OverlapPositive DEF OpenWindows
<1> QED
  BY <1>2, <1>4, <1>5 DEF CInv

(* requestVerificationCode looks for a recent code and creates one later:  *)
(* in any stretch of one cooldown no more codes are made than requests can *)
(* overlap, for every cooldown and every number of requests.               *)
THEOREM CooldownBound == Spec => []CooldownHolds
<1>1. IInv /\ CInv /\ [Next]_vars => CInv'
  BY CooldownKinds, KeepsStep, PassesStep, MakesStep DEF IInv
<1>2. CInv => CooldownHolds
  BY DEF CInv
<1> QED
  BY <1>1, <1>2, InitCInv, Invariance, PTL DEF Spec

-----------------------------------------------------------------------------
(* Sums.  Total is a fold, and a fold is a recursive function, which the   *)
(* provers know only as the CHOOSE of a function that satisfies its        *)
(* equation.  That there is one, and what a sum does, is shown by          *)
(* induction over the subsets of a finite set, stated for a set of subsets *)
(* and proved from a smallest counterexample.                              *)

LEMMA SubsetInduction ==
  ASSUME NEW T, IsFiniteSet(T), NEW Good,
         \A S \in SUBSET T : (\A R \in SUBSET S : R # S => R \in Good) => S \in Good
  PROVE  \A S \in SUBSET T : S \in Good
<1> DEFINE Bad   == {S \in SUBSET T : S \notin Good}
           Sizes == {Cardinality(S) : S \in Bad}
<1> SUFFICES ASSUME Bad # {} PROVE FALSE
  OBVIOUS
<1>1. \A S \in SUBSET T : IsFiniteSet(S) /\ Cardinality(S) \in Nat
  BY FS_Subset, FS_CardinalityType
<1>2. Sizes \in SUBSET Nat /\ Sizes # {}
  BY <1>1
<1>3. PICK n \in Sizes : \A m \in Sizes : n <= m
  BY <1>2, LeastElement
<1>4. PICK S \in Bad : Cardinality(S) = n
  BY <1>3
<1>5. ASSUME NEW R \in SUBSET S, R # S PROVE R \in Good
  <2>1. Cardinality(R) < Cardinality(S)
    <3>1. IsFiniteSet(S) /\ Cardinality(S) \in Nat /\ Cardinality(R) \in Nat
      BY <1>1
    <3>2. Cardinality(R) <= Cardinality(S) /\ Cardinality(R) # Cardinality(S)
      BY <1>5, <3>1, FS_Subset
    <3> QED
      BY <3>1, <3>2
  <2>2. R \in Bad => n <= Cardinality(R)
    BY <1>3
  <2>3. Cardinality(R) \in Nat /\ n \in Nat
    BY <1>1, <1>2
  <2> QED
    BY <1>4, <2>1, <2>2, <2>3
<1> QED
  BY <1>5

(* The function by which a sum is defined, and that there is one.          *)
IsSum(h, f, S) ==
  h = [s \in SUBSET S |-> IF s = {} THEN 0
                          ELSE f[CHOOSE x \in s : TRUE] + h[s \ {CHOOSE x \in s : TRUE}]]

LEMMA TotalIs ==
  ASSUME NEW f, NEW S
  PROVE  Total(f, S) = (CHOOSE h : IsSum(h, f, S))[S]
BY DEF Total, FoldFunctionOnSet, MapThenFoldSet, IsSum

(* The functions of a set and of a subset give the subset the same sum.    *)
LEMMA SumsAgree ==
  ASSUME NEW f, NEW T, IsFiniteSet(T), NEW h, IsSum(h, f, T),
         NEW S \in SUBSET T, NEW k, IsSum(k, f, S)
  PROVE  \A s \in SUBSET S : h[s] = k[s]
<1> DEFINE Good == {s \in SUBSET S : h[s] = k[s]}
<1>1. IsFiniteSet(S)
  BY FS_Subset
<1>2. ASSUME NEW s \in SUBSET S, \A r \in SUBSET s : r # s => r \in Good
      PROVE  s \in Good
  <2> DEFINE x == CHOOSE x \in s : TRUE
  <2>1. CASE s = {}
    <3>1. h[s] = 0 /\ k[s] = 0
      BY <2>1 DEF IsSum
    <3> QED
      BY <3>1
  <2>2. CASE s # {}
    <3>1. x \in s
      BY <2>2
    <3>2. s \ {x} \in SUBSET s /\ s \ {x} # s
      BY <3>1
    <3>3. h[s \ {x}] = k[s \ {x}]
      BY <1>2, <3>2
    <3>4. h[s] = f[x] + h[s \ {x}]
      <4>1. s \in SUBSET T
        OBVIOUS
      <4> QED
        BY <2>2, <4>1 DEF IsSum
    <3>5. k[s] = f[x] + k[s \ {x}]
      BY <2>2 DEF IsSum
    <3> QED
      BY <3>3, <3>4, <3>5
  <2> QED
    BY <2>1, <2>2
<1> HIDE DEF Good
<1>3. \A s \in SUBSET S : s \in Good
  BY <1>1, <1>2, SubsetInduction
<1> QED
  BY <1>3 DEF Good

(* The function of a set is put together from those of its proper subsets. *)
LEMMA SumExists ==
  ASSUME NEW f, NEW T, IsFiniteSet(T)
  PROVE  \E h : IsSum(h, f, T)
<1> DEFINE Good == {S \in SUBSET T : \E h : IsSum(h, f, S)}
<1>1. ASSUME NEW S \in SUBSET T, \A r \in SUBSET S : r # S => r \in Good
      PROVE  S \in Good
  <2> DEFINE first(s) == CHOOSE x \in s : TRUE
             sub(s)   == CHOOSE h : IsSum(h, f, s)
             val(s)   == IF s = {} THEN 0
                         ELSE f[first(s)] + sub(s \ {first(s)})[s \ {first(s)}]
             H        == [s \in SUBSET S |-> val(s)]
  <2>1. \A s : s # {} => first(s) \in s
    OBVIOUS
  <2>2. \A s \in SUBSET S : s # S => IsSum(sub(s), f, s)
    BY <1>1
  <2>3. ASSUME NEW r \in SUBSET S, r # S
        PROVE  sub(r)[r] = val(r)
    <3>1. IsSum(sub(r), f, r)
      BY <2>2, <2>3
    <3>2. CASE r = {}
      BY <3>1, <3>2 DEF IsSum
    <3>3. CASE r # {}
      <4> DEFINE q == r \ {first(r)}
      <4>1. q \in SUBSET r /\ q \in SUBSET S /\ q # S
        BY <2>1, <2>3, <3>3
      <4>2. IsSum(sub(q), f, q)
        BY <2>2, <4>1
      <4>3. sub(r)[q] = sub(q)[q]
        <5>1. IsFiniteSet(r)
          BY FS_Subset
        <5>2. \A h, k : IsSum(h, f, r) /\ IsSum(k, f, q) => h[q] = k[q]
          BY <4>1, <5>1, SumsAgree
        <5> QED
          BY <3>1, <4>2, <5>2
      <4>4. sub(r)[r] = f[first(r)] + sub(r)[q]
        BY <3>1, <3>3 DEF IsSum
      <4>5. val(r) = f[first(r)] + sub(q)[q]
        BY <3>3
      <4> QED
        BY <4>3, <4>4, <4>5
    <3> QED
      BY <3>2, <3>3
  <2>4. ASSUME NEW s \in SUBSET S
        PROVE  H[s] = IF s = {} THEN 0 ELSE f[first(s)] + H[s \ {first(s)}]
    <3>1. CASE s # {}
      <4> DEFINE r == s \ {first(s)}
      <4>1. r \in SUBSET S /\ r # S
        BY <2>1, <3>1
      <4>2. H[r] = sub(r)[r]
        BY <2>3, <4>1
      <4> QED
        BY <3>1, <4>2
    <3> QED
      BY <3>1
  <2>5. IsSum(H, f, S)
    <3> DEFINE step(s) == IF s = {} THEN 0
                          ELSE f[CHOOSE x \in s : TRUE] + H[s \ {CHOOSE x \in s : TRUE}]
    <3>1. \A s \in SUBSET S : val(s) = step(s)
      BY <2>4
    <3>2. H = [s \in SUBSET S |-> step(s)]
      <4>1. H = [s \in SUBSET S |-> val(s)]
        OBVIOUS
      <4> HIDE DEF H, val, step
      <4> QED
        BY <3>1, <4>1
    <3> HIDE DEF H
    <3> QED
      BY <3>2 DEF IsSum
  <2> HIDE DEF H
  <2> QED
    BY <2>5
<1> HIDE DEF Good
<1>2. \A S \in SUBSET T : S \in Good
  BY <1>1, SubsetInduction
<1> QED
  BY <1>2 DEF Good

(* The equation a sum was defined by.                                      *)
LEMMA TotalRecurs ==
  ASSUME NEW f, NEW S, IsFiniteSet(S)
  PROVE  Total(f, S) = IF S = {} THEN 0
                       ELSE f[CHOOSE x \in S : TRUE]
                              + Total(f, S \ {CHOOSE x \in S : TRUE})
<1> DEFINE x == CHOOSE x \in S : TRUE
           R == S \ {x}
           h == CHOOSE g : IsSum(g, f, S)
           k == CHOOSE g : IsSum(g, f, R)
<1>1. IsFiniteSet(R) /\ R \in SUBSET S
  BY FS_Subset
<1>2. IsSum(h, f, S) /\ IsSum(k, f, R)
  BY <1>1, SumExists
<1>3. Total(f, S) = h[S] /\ Total(f, R) = k[R]
  BY TotalIs
<1>4. h[S] = IF S = {} THEN 0 ELSE f[x] + h[R]
  <2> HIDE DEF h
  <2> QED
    BY <1>2 DEF IsSum
<1>5. h[R] = k[R]
  <2> HIDE DEF h, k
  <2>1. \A hh, kk : IsSum(hh, f, S) /\ IsSum(kk, f, R) =>
                      \A r \in SUBSET R : hh[r] = kk[r]
    <3> HIDE DEF R
    <3> QED
      BY <1>1, SumsAgree
  <2>2. R \in SUBSET R
    OBVIOUS
  <2> HIDE DEF R
  <2> QED
    BY <1>2, <2>1, <2>2
<1> HIDE DEF h, k
<1> QED
  BY <1>3, <1>4, <1>5

LEMMA TotalEmpty ==
  ASSUME NEW f
  PROVE  Total(f, {}) = 0
BY TotalRecurs, FS_EmptySet

(* Any element may be taken out first.                                     *)
LEMMA TotalTake ==
  ASSUME NEW T, IsFiniteSet(T), NEW f \in [T -> Nat]
  PROVE  \A S \in SUBSET T :
           /\ Total(f, S) \in Nat
           /\ \A x \in S : /\ Total(f, S \ {x}) \in Nat
                            /\ Total(f, S) = f[x] + Total(f, S \ {x})
<1> DEFINE Good == {S \in SUBSET T :
                      /\ Total(f, S) \in Nat
                      /\ \A x \in S : /\ Total(f, S \ {x}) \in Nat
                                       /\ Total(f, S) = f[x] + Total(f, S \ {x})}
<1>1. ASSUME NEW S \in SUBSET T, \A R \in SUBSET S : R # S => R \in Good
      PROVE  S \in Good
  <2>1. CASE S = {}
    BY <2>1, TotalEmpty
  <2>2. CASE S # {}
    <3> DEFINE c == CHOOSE x \in S : TRUE
    <3>1. c \in S
      BY <2>2
    <3>2. Total(f, S) = f[c] + Total(f, S \ {c})
      <4>1. IsFiniteSet(S)
        BY FS_Subset
      <4> QED
        BY <2>2, <4>1, TotalRecurs
    <3> HIDE DEF c
    <3>3. \A x \in S : f[x] \in Nat /\ Total(f, S \ {x}) \in Nat
      <4> SUFFICES ASSUME NEW x \in S PROVE Total(f, S \ {x}) \in Nat
        OBVIOUS
      <4>1. S \ {x} \in SUBSET S /\ S \ {x} # S
        OBVIOUS
      <4>2. S \ {x} \in Good
        BY <1>1, <4>1
      <4> QED
        BY <4>2
    <3>4. ASSUME NEW x \in S, x # c
          PROVE  Total(f, S) = f[x] + Total(f, S \ {x})
      <4> DEFINE R == S \ {x, c}
      <4>1. S \ {c} \in Good /\ x \in S \ {c} /\ (S \ {c}) \ {x} = R
        <5>1. S \ {c} \in SUBSET S /\ S \ {c} # S
          BY <3>1
        <5> QED
          BY <1>1, <3>4, <5>1
      <4>2. S \ {x} \in Good /\ c \in S \ {x} /\ (S \ {x}) \ {c} = R
        <5>1. S \ {x} \in SUBSET S /\ S \ {x} # S
          OBVIOUS
        <5> QED
          BY <1>1, <3>1, <3>4, <5>1
      <4>3. Total(f, S \ {c}) = f[x] + Total(f, R) /\ Total(f, R) \in Nat
        BY <4>1
      <4>4. Total(f, S \ {x}) = f[c] + Total(f, R)
        BY <4>2
      <4> HIDE DEF R, Good
      <4>5. f[x] \in Nat /\ f[c] \in Nat
        BY <3>1, <3>3
      <4> QED
        BY <3>2, <4>3, <4>4, <4>5
    <3>5. Total(f, S) \in Nat
      BY <3>1, <3>2, <3>3
    <3> QED
      BY <3>2, <3>3, <3>4, <3>5
  <2> QED
    BY <2>1, <2>2
<1> HIDE DEF Good
<1>2. \A S \in SUBSET T : S \in Good
  BY <1>1, SubsetInduction
<1> QED
  BY <1>2 DEF Good

(* A sum looks at the terms it is told to only.                            *)
LEMMA TotalAgrees ==
  ASSUME NEW T, IsFiniteSet(T), NEW f \in [T -> Nat], NEW g \in [T -> Nat],
         NEW U \in SUBSET T, \A x \in U : f[x] = g[x]
  PROVE  Total(f, U) = Total(g, U)
<1> DEFINE Good == {S \in SUBSET U : Total(f, S) = Total(g, S)}
<1>1. ASSUME NEW S \in SUBSET U, \A R \in SUBSET S : R # S => R \in Good
      PROVE  S \in Good
  <2>1. CASE S = {}
    BY <2>1, TotalEmpty
  <2>2. ASSUME NEW x \in S PROVE Total(f, S) = Total(g, S)
    <3>1. S \ {x} \in SUBSET S /\ S \ {x} # S
      OBVIOUS
    <3>2. Total(f, S \ {x}) = Total(g, S \ {x})
      BY <1>1, <3>1
    <3>3. S \in SUBSET T
      OBVIOUS
    <3>4. /\ Total(f, S) = f[x] + Total(f, S \ {x})
          /\ Total(g, S) = g[x] + Total(g, S \ {x})
      BY <3>3, TotalTake
    <3> QED
      BY <3>2, <3>4
  <2> QED
    BY <2>1, <2>2
<1> HIDE DEF Good
<1>2. IsFiniteSet(U)
  BY FS_Subset
<1>3. \A S \in SUBSET U : S \in Good
  BY <1>1, <1>2, SubsetInduction
<1> QED
  BY <1>3 DEF Good

(* More terms do not make a sum smaller.                                   *)
LEMMA TotalGrows ==
  ASSUME NEW T, IsFiniteSet(T), NEW f \in [T -> Nat], NEW U \in SUBSET T
  PROVE  \A S \in SUBSET T : U \subseteq S => Total(f, U) <= Total(f, S)
<1> DEFINE Good == {S \in SUBSET T : U \subseteq S => Total(f, U) <= Total(f, S)}
<1>0. Total(f, U) \in Nat
  BY TotalTake
<1>1. ASSUME NEW S \in SUBSET T, \A R \in SUBSET S : R # S => R \in Good
      PROVE  S \in Good
  <2>1. CASE S = U \/ ~ (U \subseteq S)
    BY <1>0, <2>1
  <2>2. ASSUME NEW x \in S, x \notin U, U \subseteq S
        PROVE  Total(f, U) <= Total(f, S)
    <3>1. S \ {x} \in SUBSET S /\ S \ {x} # S /\ U \subseteq S \ {x}
      BY <2>2
    <3>2. Total(f, U) <= Total(f, S \ {x})
      BY <1>1, <3>1
    <3>3. Total(f, S) = f[x] + Total(f, S \ {x}) /\ Total(f, S \ {x}) \in Nat
      BY TotalTake
    <3>4. f[x] \in Nat
      OBVIOUS
    <3> HIDE DEF Good
    <3> QED
      BY <1>0, <3>2, <3>3, <3>4
  <2> QED
    BY <2>1, <2>2
<1> HIDE DEF Good
<1>2. \A S \in SUBSET T : S \in Good
  BY <1>1, SubsetInduction
<1> QED
  BY <1>2 DEF Good

(* One term grows by one.                                                  *)
GrowsAt(f, g, T, u) ==
  /\ f \in [T -> Nat] /\ g \in [T -> Nat] /\ u \in T
  /\ g[u] = f[u] + 1 /\ \A x \in T \ {u} : g[x] = f[x]

LEMMA GrowsByOne ==
  ASSUME NEW T, NEW f \in [T -> Nat], NEW u \in T,
         NEW g, g = [f EXCEPT ![u] = @ + 1]
  PROVE  GrowsAt(f, g, T, u)
BY DEF GrowsAt

LEMMA TotalAddsOne ==
  ASSUME NEW T, IsFiniteSet(T), NEW f, NEW g, NEW u, GrowsAt(f, g, T, u),
         NEW U \in SUBSET T
  PROVE  Total(g, U) = Total(f, U) + (IF u \in U THEN 1 ELSE 0)
<1>1. f \in [T -> Nat] /\ g \in [T -> Nat] /\ f[u] \in Nat
  BY DEF GrowsAt
<1>2. CASE u \in U
  <2> DEFINE R == U \ {u}
  <2>1. R \in SUBSET T /\ \A x \in R : f[x] = g[x]
    BY DEF GrowsAt
  <2>2. Total(f, R) = Total(g, R)
    BY <1>1, <2>1, TotalAgrees
  <2>3. Total(f, U) = f[u] + Total(f, R) /\ Total(g, U) = g[u] + Total(g, R)
        /\ Total(f, R) \in Nat
    BY <1>1, <1>2, TotalTake
  <2> HIDE DEF R
  <2>4. g[u] = f[u] + 1
    BY DEF GrowsAt
  <2> QED
    BY <1>1, <1>2, <2>2, <2>3, <2>4
<1>3. CASE u \notin U
  <2>1. \A x \in U : f[x] = g[x]
    BY <1>3 DEF GrowsAt
  <2>2. Total(f, U) = Total(g, U) /\ Total(f, U) \in Nat
    BY <1>1, <2>1, TotalAgrees, TotalTake
  <2> QED
    BY <1>3, <2>2
<1> QED
  BY <1>2, <1>3

(* A sum of zeros.                                                         *)
LEMMA TotalOfNothing ==
  ASSUME NEW T, IsFiniteSet(T), NEW f \in [T -> Nat], NEW U \in SUBSET T,
         \A x \in U : f[x] = 0
  PROVE  Total(f, U) = 0
<1> DEFINE Good == {S \in SUBSET U : Total(f, S) = 0}
<1>1. ASSUME NEW S \in SUBSET U, \A R \in SUBSET S : R # S => R \in Good
      PROVE  S \in Good
  <2>1. CASE S = {}
    BY <2>1, TotalEmpty
  <2>2. ASSUME NEW x \in S PROVE Total(f, S) = 0
    <3>1. S \ {x} \in SUBSET S /\ S \ {x} # S
      OBVIOUS
    <3>2. Total(f, S \ {x}) = 0
      BY <1>1, <3>1
    <3>3. S \in SUBSET T
      OBVIOUS
    <3>4. Total(f, S) = f[x] + Total(f, S \ {x})
      BY <3>3, TotalTake
    <3> QED
      BY <3>2, <3>4
  <2> QED
    BY <2>1, <2>2
<1> HIDE DEF Good
<1>2. IsFiniteSet(U)
  BY FS_Subset
<1>3. \A S \in SUBSET U : S \in Good
  BY <1>1, <1>2, SubsetInduction
<1> QED
  BY <1>3 DEF Good

-----------------------------------------------------------------------------
(* The admissions of one window.                                           *)

InWindow(t) == {u \in Time : t <= u /\ u <= t + Window}

(* The requests that have an event in the window and have not counted yet. *)
Counting(b, t) ==
  {p \in Requests : /\ req[p].pc = "count" /\ req[p].bucket = b
                    /\ req[p].start \in InWindow(t)}

InTable(b, t)     == Total(events[b], InWindow(t))
Through(b, t)     == Total(admitted[b], InWindow(t))

(* No event of the window has been deleted: whoever counts counts them all. *)
AllCounted(b, t) ==
  /\ Through(b, t) + Cardinality(Counting(b, t)) <= InTable(b, t)
  /\ Through(b, t) <= Limit(b)

(* Events of the window may have been deleted.  Nobody adds one any more,  *)
(* and the request that deleted them does not count.                       *)
Swept(b, t) ==
  /\ now > t + Window
  /\ Through(b, t) + Cardinality(Counting(b, t)) <= Limit(b) + Overlap - 1

StartsPast == \A p \in Requests : req[p].start <= now

WindowsHold == \A b \in Buckets : \A t \in Time : AllCounted(b, t) \/ Swept(b, t)

AInv == StartsPast /\ WindowsHold

LEMMA TimeFinite ==
  /\ IsFiniteSet(Time) /\ Time \subseteq Nat
  /\ \A t \in Time : InWindow(t) \in SUBSET Time /\ Within(t) \in SUBSET Time
<1>1. MaxTime \in Nat
  BY TimesAssumption
<1>2. IsFiniteSet(0 .. MaxTime)
  BY <1>1, FS_Interval
<1> QED
  BY <1>2 DEF Time, InWindow, Within

LEMMA LimitType == \A b : Limit(b) \in Nat
BY TimesAssumption DEF Limit

LEMMA CountingFinite ==
  ASSUME NEW b, NEW t
  PROVE  /\ IsFiniteSet(Counting(b, t)) /\ Cardinality(Counting(b, t)) \in Nat
         /\ Cardinality(Counting(b, t)) <= Overlap
<1>1. Counting(b, t) \in SUBSET Requests /\ IsFiniteSet(Requests)
  BY RequestsAssumption DEF Counting
<1> QED
  BY <1>1, FS_Subset, FS_CardinalityType DEF Overlap

LEMMA CountingFinitePrimed ==
  ASSUME NEW b, NEW t
  PROVE  /\ IsFiniteSet(Counting(b, t)') /\ Cardinality(Counting(b, t)') \in Nat
         /\ Cardinality(Counting(b, t)') <= Overlap
<1>1. Counting(b, t)' \in SUBSET Requests /\ IsFiniteSet(Requests)
  BY RequestsAssumption DEF Counting
<1> QED
  BY <1>1, FS_Subset, FS_CardinalityType DEF Overlap

LEMMA SumsAreNat ==
  ASSUME TypeOK, NEW b \in Buckets, NEW t \in Time
  PROVE  InTable(b, t) \in Nat /\ Through(b, t) \in Nat
<1>1. events[b] \in [Time -> Nat] /\ admitted[b] \in [Time -> Nat]
  BY DEF TypeOK
<1> QED
  BY <1>1, TimeFinite, TotalTake DEF InTable, Through

(* A step that writes no event, admits nobody and lets nobody begin.       *)
Steady ==
  /\ now' \in Time /\ now <= now'
  /\ UNCHANGED <<events, admitted>>
  /\ \A q \in Requests : /\ req'[q].pc = "count" => req'[q] = req[q]
                         /\ req'[q].start <= now'

LEMMA SteadyStep ==
  ASSUME TypeOK, AInv, Steady
  PROVE  AInv'
<1>1. StartsPast'
  BY DEF Steady, StartsPast
<1>2. ASSUME NEW b \in Buckets, NEW t \in Time
      PROVE  (AllCounted(b, t) \/ Swept(b, t))'
  <2>1. InTable(b, t)' = InTable(b, t) /\ Through(b, t)' = Through(b, t)
    BY DEF Steady, InTable, Through
  <2>2. Cardinality(Counting(b, t)') <= Cardinality(Counting(b, t))
    <3>1. Counting(b, t)' \in SUBSET Counting(b, t)
      BY DEF Steady, Counting
    <3> QED
      BY <3>1, CountingFinite, FS_Subset
  <2>3. /\ InTable(b, t) \in Nat /\ Through(b, t) \in Nat
        /\ Cardinality(Counting(b, t)) \in Nat /\ Cardinality(Counting(b, t)') \in Nat
        /\ Limit(b) \in Nat /\ Overlap \in Nat
    BY SumsAreNat, CountingFinite, CountingFinitePrimed, LimitType, OverlapPositive
  <2>4. CASE AllCounted(b, t)
    <3>1. AllCounted(b, t)'
      BY <2>1, <2>2, <2>3, <2>4 DEF AllCounted
    <3> QED
      BY <3>1
  <2>5. CASE Swept(b, t)
    <3>1. now \in Nat /\ now' \in Nat /\ now <= now' /\ t \in Nat /\ Window \in Nat
      BY TimeFinite, TimesAssumption DEF Steady, TypeOK
    <3>2. Swept(b, t)'
      BY <2>1, <2>2, <2>3, <2>5, <3>1 DEF Swept
    <3> QED
      BY <3>2
  <2> QED
    BY <1>2, <2>4, <2>5 DEF AInv, WindowsHold
<1>3. WindowsHold'
  BY <1>2 DEF WindowsHold
<1> QED
  BY <1>1, <1>3 DEF AInv

(* A request begins: its event is in the table before it counts.           *)
LEMMA CallAdmits ==
  ASSUME TypeOK, AInv, NEW p \in Requests, NEW c \in Buckets, Call(p, c)
  PROVE  AInv'
<1> DEFINE r == [Idle EXCEPT !.pc = "count", !.bucket = c, !.start = now]
<1>1. r.pc = "count" /\ r.bucket = c /\ r.start = now
  BY DEF Idle
<1>2. req' = [req EXCEPT ![p] = r]
  BY DEF Call
<1> HIDE DEF r
<1>3. req'[p] = r /\ \A q \in Requests \ {p} : req'[q] = req[q]
  BY <1>2 DEF TypeOK
<1>4. /\ now' = now /\ now \in Time /\ now \in Nat /\ req[p].pc = "idle"
      /\ admitted' = admitted /\ \A b \in Buckets \ {c} : events'[b] = events[b]
      /\ events'[c] = [events[c] EXCEPT ![now] = @ + 1]
  BY TimeFinite DEF Call, TypeOK
<1>g. GrowsAt(events[c], events'[c], Time, now)
  <2> DEFINE f == events[c]
  <2>1. f \in [Time -> Nat] /\ events'[c] = [f EXCEPT ![now] = @ + 1]
    BY <1>4 DEF TypeOK
  <2> HIDE DEF f
  <2>2. now \in Time
    BY <1>4
  <2>3. GrowsAt(f, events'[c], Time, now)
    BY <2>1, <2>2, GrowsByOne
  <2> QED
    BY <2>3 DEF f
<1>h. \A t \in Time : Total(events'[c], InWindow(t)) = Total(events[c], InWindow(t))
                      + (IF now \in InWindow(t) THEN 1 ELSE 0)
  <2>1. SUFFICES ASSUME NEW t \in Time
                 PROVE  Total(events'[c], InWindow(t)) = Total(events[c], InWindow(t))
                          + (IF now \in InWindow(t) THEN 1 ELSE 0)
    OBVIOUS
  <2>2. InWindow(t) \in SUBSET Time /\ IsFiniteSet(Time)
    BY TimeFinite
  <2> QED
    BY <1>g, <2>2, TotalAddsOne
<1>5. StartsPast'
  BY <1>1, <1>3, <1>4 DEF AInv, StartsPast
<1>6. ASSUME NEW b \in Buckets, NEW t \in Time
      PROVE  (AllCounted(b, t) \/ Swept(b, t))'
  <2>1. Through(b, t)' = Through(b, t)
    BY <1>4 DEF Through
  <2>n. /\ InTable(b, t) \in Nat /\ Through(b, t) \in Nat
        /\ Cardinality(Counting(b, t)) \in Nat /\ Cardinality(Counting(b, t)') \in Nat
        /\ Limit(b) \in Nat /\ Overlap \in Nat /\ t \in Nat /\ Window \in Nat
    BY SumsAreNat, CountingFinite, CountingFinitePrimed, LimitType, OverlapPositive,
       TimeFinite, TimesAssumption
  <2>2. CASE b = c /\ now \in InWindow(t)
    <3>1. Counting(b, t)' = Counting(b, t) \cup {p} /\ p \notin Counting(b, t)
      BY <1>1, <1>3, <1>4, <2>2 DEF Counting
    <3>2. Cardinality(Counting(b, t)') = Cardinality(Counting(b, t)) + 1
      BY <3>1, CountingFinite, FS_AddElement
    <3>3. InTable(b, t)' = InTable(b, t) + 1
      <4>1. Total(events'[c], InWindow(t)) = Total(events[c], InWindow(t)) + 1
        BY <1>h, <2>2
      <4> QED
        BY <2>2, <4>1 DEF InTable
    <3>4. ~ Swept(b, t)
      BY <1>4, <2>2, <2>n DEF Swept, InWindow
    <3>5. AllCounted(b, t)
      BY <3>4 DEF AInv, WindowsHold
    <3>6. AllCounted(b, t)'
      BY <2>1, <2>n, <3>2, <3>3, <3>5 DEF AllCounted
    <3> QED
      BY <3>6
  <2>3. CASE ~ (b = c /\ now \in InWindow(t))
    <3>1. Counting(b, t)' = Counting(b, t)
      BY <1>1, <1>3, <1>4, <2>3 DEF Counting
    <3>2. InTable(b, t)' = InTable(b, t)
      <4>1. CASE b # c
        BY <1>4, <4>1 DEF InTable
      <4>2. CASE b = c /\ now \notin InWindow(t)
        <5>1. Total(events'[c], InWindow(t)) = Total(events[c], InWindow(t)) + 0
          BY <1>h, <4>2
        <5> QED
          BY <2>n, <4>2, <5>1 DEF InTable
      <4> QED
        BY <2>3, <4>1, <4>2
    <3>3. AllCounted(b, t) => AllCounted(b, t)'
      BY <2>1, <3>1, <3>2 DEF AllCounted
    <3>4. Swept(b, t) => Swept(b, t)'
      BY <1>4, <2>1, <3>1 DEF Swept
    <3> QED
      BY <3>3, <3>4 DEF AInv, WindowsHold
  <2> QED
    BY <2>2, <2>3
<1>7. WindowsHold'
  BY <1>6 DEF WindowsHold
<1> QED
  BY <1>5, <1>7 DEF AInv

(* A request is let through: it counted every event of its window that is  *)
(* still there, its own included.                                          *)
LEMMA CountAdmits ==
  ASSUME TypeOK, AInv, NEW p \in Requests, CountEvents(p),
         ~ OverLimit(req[p].bucket, req[p].start)
  PROVE  AInv'
<1> DEFINE c == req[p].bucket
           s == req[p].start
<1>1. /\ req[p].pc = "count" /\ Goto(p, "clean") /\ now' = now /\ events' = events
      /\ admitted' = [admitted EXCEPT ![c][s] = @ + 1]
      /\ ~ OverLimit(c, s)
  BY DEF CountEvents
<1>2. c \in Buckets /\ s \in Time /\ s \in Nat
  BY TimeFinite DEF TypeOK, Step
<1>3. /\ req'[p].pc = "clean" /\ \A q \in Requests \ {p} : req'[q] = req[q]
      /\ \A q \in Requests : req'[q].start = req[q].start
  BY <1>1 DEF Goto, TypeOK, Step
<1>4. /\ admitted'[c] = [admitted[c] EXCEPT ![s] = @ + 1]
      /\ \A b \in Buckets \ {c} : admitted'[b] = admitted[b]
  BY <1>1, <1>2 DEF TypeOK
<1> HIDE DEF c, s
<1>g. GrowsAt(admitted[c], admitted'[c], Time, s)
  <2> DEFINE f == admitted[c]
  <2>1. f \in [Time -> Nat] /\ admitted'[c] = [f EXCEPT ![s] = @ + 1]
    BY <1>2, <1>4 DEF TypeOK
  <2> HIDE DEF f
  <2>2. GrowsAt(f, admitted'[c], Time, s)
    BY <1>2, <2>1, GrowsByOne
  <2> QED
    BY <2>2 DEF f
<1>5. StartsPast'
  BY <1>1, <1>3 DEF AInv, StartsPast
<1>6. ASSUME NEW b \in Buckets, NEW t \in Time
      PROVE  (AllCounted(b, t) \/ Swept(b, t))'
  <2>1. InTable(b, t)' = InTable(b, t)
    BY <1>1 DEF InTable
  <2>n. /\ InTable(b, t) \in Nat /\ Through(b, t) \in Nat
        /\ Cardinality(Counting(b, t)) \in Nat /\ Cardinality(Counting(b, t)') \in Nat
        /\ Limit(b) \in Nat /\ Overlap \in Nat /\ t \in Nat /\ Window \in Nat
    BY SumsAreNat, CountingFinite, CountingFinitePrimed, LimitType, OverlapPositive,
       TimeFinite, TimesAssumption
  <2>2. CASE b = c /\ s \in InWindow(t)
    <3>1. Counting(b, t)' = Counting(b, t) \ {p} /\ p \in Counting(b, t)
      BY <1>1, <1>3, <2>2 DEF Counting, c, s
    <3>2. Cardinality(Counting(b, t)') = Cardinality(Counting(b, t)) - 1
      BY <3>1, CountingFinite, FS_RemoveElement
    <3>3. Through(b, t)' = Through(b, t) + 1
      <4>1. Total(admitted'[c], InWindow(t)) = Total(admitted[c], InWindow(t)) + 1
        BY <1>g, <2>2, TimeFinite, TotalAddsOne
      <4> QED
        BY <2>2, <4>1 DEF Through
    <3>4. InTable(b, t) <= Limit(b)
      <4>1. InWindow(t) \subseteq Within(s)
        <5>1. s <= t + Window
          BY <2>2 DEF InWindow
        <5>2. \A u \in Time : u \in Nat /\ (t <= u => u >= s - Window)
          BY <1>2, <2>n, <5>1, TimeFinite
        <5> QED
          BY <5>2 DEF InWindow, Within
      <4>2. events[c] \in [Time -> Nat] /\ Within(s) \in SUBSET Time
        BY <1>2, TimeFinite DEF TypeOK
      <4>3. Total(events[c], InWindow(t)) <= Total(events[c], Within(s))
        BY <4>1, <4>2, TimeFinite, TotalGrows
      <4>4. Total(events[c], Within(s)) \in Nat
        BY <4>2, TimeFinite, TotalTake
      <4>5. Total(events[c], Within(s)) <= Limit(c)
        BY <1>1, <2>2, <2>n, <4>4 DEF OverLimit
      <4> QED
        BY <2>2, <2>n, <4>3, <4>4, <4>5 DEF InTable
    <3>5. Cardinality(Counting(b, t)) >= 1
      BY <3>2, <2>n
    <3>6. AllCounted(b, t) => AllCounted(b, t)'
      BY <2>1, <2>n, <3>2, <3>3, <3>4, <3>5 DEF AllCounted
    <3>7. Swept(b, t) => Swept(b, t)'
      BY <1>1, <2>n, <3>2, <3>3 DEF Swept
    <3> QED
      BY <3>6, <3>7 DEF AInv, WindowsHold
  <2>3. CASE ~ (b = c /\ s \in InWindow(t))
    <3>1. Counting(b, t)' = Counting(b, t)
      BY <1>1, <1>3, <2>3 DEF Counting, c, s
    <3>2. Through(b, t)' = Through(b, t)
      <4>1. CASE b # c
        BY <1>4, <4>1 DEF Through
      <4>2. CASE b = c /\ s \notin InWindow(t)
        <5>1. Total(admitted'[c], InWindow(t)) = Total(admitted[c], InWindow(t)) + 0
          BY <1>g, <4>2, TimeFinite, TotalAddsOne
        <5> QED
          BY <2>n, <4>2, <5>1 DEF Through
      <4> QED
        BY <2>3, <4>1, <4>2
    <3>3. AllCounted(b, t) => AllCounted(b, t)'
      BY <2>1, <3>1, <3>2 DEF AllCounted
    <3>4. Swept(b, t) => Swept(b, t)'
      BY <1>1, <3>1, <3>2 DEF Swept
    <3> QED
      BY <3>3, <3>4 DEF AInv, WindowsHold
  <2> QED
    BY <2>2, <2>3
<1>7. WindowsHold'
  BY <1>6 DEF WindowsHold
<1> QED
  BY <1>5, <1>7 DEF AInv

(* Only a request that began after a window ended deletes events of it,    *)
(* and it is not among those that still count.                             *)
LEMMA CleanAdmits ==
  ASSUME TypeOK, AInv, NEW p \in Requests, CleanUp(p)
  PROVE  AInv'
<1> DEFINE c == req[p].bucket
           s == req[p].start
           kept == [t \in Time |-> IF t \in Within(s) THEN events[c][t] ELSE 0]
<1>1. /\ req[p].pc = "clean" /\ Goto(p, "admitted")
      /\ now' = now /\ admitted' = admitted
  BY DEF CleanUp
<1>2. c \in Buckets /\ s \in Time /\ s \in Nat /\ now \in Nat /\ s <= now
  BY TimeFinite DEF TypeOK, Step, AInv, StartsPast
<1>3. /\ req'[p].pc = "admitted" /\ \A q \in Requests \ {p} : req'[q] = req[q]
      /\ \A q \in Requests : req'[q].start = req[q].start
  BY <1>1 DEF Goto, TypeOK, Step
<1>4. events'[c] = kept /\ \A b \in Buckets \ {c} : events'[b] = events[b]
  BY <1>2 DEF CleanUp, TypeOK
<1>5. events[c] \in [Time -> Nat] /\ kept \in [Time -> Nat]
  BY <1>2 DEF TypeOK
<1>6. \A u \in Within(s) : kept[u] = events[c][u]
  BY DEF Within
<1> HIDE DEF c, s, kept
<1>7. StartsPast'
  BY <1>1, <1>3 DEF AInv, StartsPast
<1>8. ASSUME NEW b \in Buckets, NEW t \in Time
      PROVE  (AllCounted(b, t) \/ Swept(b, t))'
  <2>1. Through(b, t)' = Through(b, t)
    BY <1>1 DEF Through
  <2>2. Counting(b, t)' = Counting(b, t) /\ p \notin Counting(b, t)
    BY <1>1, <1>3 DEF Counting
  <2>n. /\ InTable(b, t) \in Nat /\ Through(b, t) \in Nat
        /\ Cardinality(Counting(b, t)) \in Nat
        /\ Limit(b) \in Nat /\ Overlap \in Nat /\ t \in Nat /\ Window \in Nat
    BY SumsAreNat, CountingFinite, LimitType, OverlapPositive,
       TimeFinite, TimesAssumption
  <2>3. CASE b # c \/ s <= t + Window
    <3>1. InTable(b, t)' = InTable(b, t)
      <4>1. CASE b # c
        BY <1>4, <4>1 DEF InTable
      <4>2. CASE b = c /\ s <= t + Window
        <5>1. \A u \in Time : u \in Nat /\ (t <= u => u >= s - Window)
          BY <1>2, <2>n, <4>2, TimeFinite
        <5>2. \A u \in InWindow(t) : events'[c][u] = events[c][u]
          BY <1>4, <1>6, <5>1 DEF InWindow, Within
        <5>3. InWindow(t) \in SUBSET Time /\ events'[c] \in [Time -> Nat]
          BY <1>4, <1>5, TimeFinite
        <5>4. Total(events'[c], InWindow(t)) = Total(events[c], InWindow(t))
          BY <1>5, <5>2, <5>3, TimeFinite, TotalAgrees
        <5> QED
          BY <4>2, <5>4 DEF InTable
      <4> QED
        BY <2>3, <4>1, <4>2
    <3>2. AllCounted(b, t) => AllCounted(b, t)'
      BY <2>1, <2>2, <3>1 DEF AllCounted
    <3>3. Swept(b, t) => Swept(b, t)'
      BY <1>1, <2>1, <2>2 DEF Swept
    <3> QED
      BY <3>2, <3>3 DEF AInv, WindowsHold
  <2>4. CASE s > t + Window
    <3>1. now > t + Window
      BY <1>2, <2>n, <2>4
    <3>2. AllCounted(b, t) => Through(b, t) + Cardinality(Counting(b, t))
                                <= Limit(b) + Overlap - 1
      <4>1. Cardinality(Counting(b, t)) <= Overlap - 1
        <5>1. Counting(b, t) \cup {p} \in SUBSET Requests /\ IsFiniteSet(Requests)
          BY RequestsAssumption DEF Counting
        <5>2. Cardinality(Counting(b, t) \cup {p}) <= Overlap
          BY <5>1, FS_Subset DEF Overlap
        <5>3. Cardinality(Counting(b, t) \cup {p}) = Cardinality(Counting(b, t)) + 1
          BY <2>2, CountingFinite, FS_AddElement
        <5> QED
          BY <2>n, <5>2, <5>3
      <4> QED
        BY <2>n, <4>1 DEF AllCounted
    <3>3. Swept(b, t)
      BY <3>1, <3>2 DEF AInv, WindowsHold, Swept
    <3>4. Swept(b, t)'
      BY <1>1, <2>1, <2>2, <3>3 DEF Swept
    <3> QED
      BY <3>4
  <2>5. s <= t + Window \/ s > t + Window
    BY <1>2, <2>n
  <2> QED
    BY <2>3, <2>4, <2>5
<1>9. WindowsHold'
  BY <1>8 DEF WindowsHold
<1> QED
  BY <1>7, <1>9 DEF AInv

(* The kinds of a step, as far as the limiter is concerned.                *)
LEMMA AdmissionKinds ==
  ASSUME TypeOK, HeldIsMade, StartsPast, [Next]_vars
  PROVE  \/ Steady
         \/ \E p \in Requests : \/ \E b \in Buckets : Call(p, b)
                                \/ /\ CountEvents(p)
                                   /\ ~ OverLimit(req[p].bucket, req[p].start)
                                \/ CleanUp(p)
<1>n. now \in Nat /\ now \in Time
  BY DEF TypeOK, Time
<1>i. Idle.pc = "idle" /\ Idle.start = 0
  BY DEF Idle
<1>1. CASE UNCHANGED vars
  BY <1>1, <1>n DEF Steady, StartsPast
<1>2. CASE Tick
  <2>1. now' \in Time /\ now <= now' /\ now' \in Nat
    BY <1>2, <1>n, TimesAssumption DEF Tick, Time
  <2>2. \A q \in Requests : req[q].start \in Nat /\ req[q].start <= now
    BY TimeFinite DEF TypeOK, Step, StartsPast
  <2>3. \A q \in Requests : req'[q] = req[q] /\ req[q].start <= now'
    BY <1>2, <1>n, <2>1, <2>2 DEF Tick
  <2> QED
    BY <1>2, <2>1, <2>3 DEF Tick, Steady
<1>3. ASSUME NEW p \in Requests, Serve(p)
      PROVE  \/ Steady
             \/ \E b \in Buckets : Call(p, b)
             \/ CountEvents(p) /\ ~ OverLimit(req[p].bucket, req[p].start)
             \/ CleanUp(p)
  <2>s. \A q \in Requests : req[q].start <= now
    BY DEF StartsPast
  <2>k. ASSUME UNCHANGED <<now, events, admitted>>,
               \A q \in Requests \ {p} : req'[q] = req[q],
               req'[p].pc # "count", req'[p].start <= now
        PROVE  Steady
    BY <1>n, <2>k, <2>s DEF Steady
  <2>f. ASSUME Finish(p)
        PROVE  /\ \A q \in Requests \ {p} : req'[q] = req[q]
               /\ req'[p].pc # "count" /\ req'[p].start <= now
    <3>1. req'[p] = Idle /\ \A q \in Requests \ {p} : req'[q] = req[q]
      BY <2>f DEF Finish, TypeOK
    <3> QED
      BY <1>i, <1>n, <3>1
  <2>g. ASSUME NEW to \in Places \ {"count"}, Goto(p, to)
        PROVE  /\ \A q \in Requests \ {p} : req'[q] = req[q]
               /\ req'[p].pc # "count" /\ req'[p].start <= now
    BY <2>g, <2>s DEF Goto, TypeOK, Step
  <2>t. ASSUME NEW to \in Places \ {"count"}, NEW c \in Codes,
               req' = [req EXCEPT ![p].pc = to, ![p].codes = {c}]
        PROVE  /\ \A q \in Requests \ {p} : req'[q] = req[q]
               /\ req'[p].pc # "count" /\ req'[p].start <= now
    <3>1. req'[p].pc = to /\ \A q \in Requests \ {p} : req'[q] = req[q]
      BY <2>t, TakeType
    <3>2. req'[p].start = req[p].start
      <4> DEFINE r == req[p]
      <4>1. r \in Step
        BY DEF TypeOK
      <4>2. req'[p] = [r EXCEPT !.pc = to, !.codes = {c}]
        BY <2>t DEF TypeOK
      <4> HIDE DEF r
      <4>3. req'[p].start = r.start
        BY <4>1, <4>2 DEF Step
      <4> QED
        BY <4>3 DEF r
    <3> QED
      BY <2>s, <3>1, <3>2
  <2>2. CASE CountEvents(p) /\ OverLimit(req[p].bucket, req[p].start)
    <3>1. Finish(p) /\ UNCHANGED <<now, events, admitted>>
      BY <2>2 DEF CountEvents
    <3> QED
      BY <2>f, <2>k, <3>1
  <2>3. CASE RefusedByAddress(p) \/ SendCode(p) \/ Die(p)
    <3>1. Finish(p) /\ UNCHANGED <<now, events, admitted>>
      BY <2>3 DEF RefusedByAddress, SendCode, Die
    <3> QED
      BY <2>f, <2>k, <3>1
  <2>4. CASE CheckCooldown(p)
    <3>1. (Finish(p) \/ Goto(p, "create")) /\ UNCHANGED <<now, events, admitted>>
      BY <2>4 DEF CheckCooldown
    <3> QED
      BY <2>f, <2>g, <2>k, <3>1 DEF Places
  <2>5. CASE \E c \in Codes : CreateCode(p, c)
    <3> PICK c \in Codes : CreateCode(p, c)
      BY <2>5
    <3>1. /\ UNCHANGED <<now, events, admitted>>
          /\ req' = [req EXCEPT ![p].pc = "send", ![p].codes = {c}]
      BY DEF CreateCode
    <3> QED
      BY <2>k, <2>t, <3>1 DEF Places
  <2>6. CASE LoadCode(p)
    <3>1. UNCHANGED <<now, events, admitted>>
      BY <2>6 DEF LoadCode
    <3>2. CASE Finish(p)
      BY <2>f, <2>k, <3>1, <3>2
    <3>3. ASSUME NEW c \in Codes, NEW to \in {"miss", "consume"}, Takes(p, to, c)
          PROVE  Steady
      BY <2>k, <2>t, <3>1, <3>3 DEF Takes, Places
    <3> QED
      BY <2>6, <3>2, <3>3, LoadCodeStep
  <2>7. CASE RecordMiss(p) \/ ConsumeCode(p)
    <3>1. Finish(p) /\ UNCHANGED <<now, events, admitted>>
      BY <2>7 DEF RecordMiss, ConsumeCode
    <3> QED
      BY <2>f, <2>k, <3>1
  <2> QED
    BY <1>3, <2>2, <2>3, <2>4, <2>5, <2>6, <2>7 DEF Serve
<1> QED
  BY <1>1, <1>2, <1>3 DEF Next

(* Nobody has been admitted at first, and a window that holds bounds what  *)
(* it let through.                                                         *)
LEMMA InitAInv == Init => AInv
<1> SUFFICES ASSUME Init PROVE AInv
  OBVIOUS
<1>0. TypeOK
  BY InitType
<1>1. \A p \in Requests : req[p] = Idle
  BY DEF Init
<1>2. Idle.pc = "idle" /\ Idle.start = 0
  BY DEF Idle
<1>3. StartsPast
  BY <1>1, <1>2 DEF Init, StartsPast
<1>4. ASSUME NEW b \in Buckets, NEW t \in Time
      PROVE  AllCounted(b, t)
  <2>1. Counting(b, t) = {}
    BY <1>1, <1>2 DEF Counting
  <2>2. Cardinality(Counting(b, t)) = 0
    BY <2>1, FS_EmptySet
  <2>3. admitted[b] \in [Time -> Nat] /\ \A u \in Time : admitted[b][u] = 0
    BY DEF Init
  <2>4. Through(b, t) = 0
    BY <2>3, TimeFinite, TotalOfNothing DEF Through
  <2>5. InTable(b, t) \in Nat /\ Limit(b) \in Nat
    BY <1>0, SumsAreNat, LimitType
  <2> QED
    BY <2>2, <2>4, <2>5 DEF AllCounted
<1> QED
  BY <1>3, <1>4 DEF AInv, WindowsHold

LEMMA AInvBounds ==
  ASSUME TypeOK, AInv
  PROVE  AdmissionsAreBounded
<1> SUFFICES ASSUME NEW b \in Buckets, NEW t \in Time
             PROVE  Through(b, t) <= Limit(b) + Overlap - 1
  BY DEF AdmissionsAreBounded, Through, InWindow
<1>1. /\ Through(b, t) \in Nat /\ Cardinality(Counting(b, t)) \in Nat
      /\ Limit(b) \in Nat /\ Overlap \in Nat /\ Overlap >= 1
  BY SumsAreNat, CountingFinite, LimitType, OverlapPositive
<1>2. CASE AllCounted(b, t)
  BY <1>1, <1>2 DEF AllCounted
<1>3. CASE Swept(b, t)
  BY <1>1, <1>3 DEF Swept
<1> QED
  BY <1>2, <1>3 DEF AInv, WindowsHold

(* recordAndEnforce inserts, counts and deletes in three queries: in any   *)
(* stretch of one window no more events are let through than the limit and *)
(* one for every other request that can overlap, for every limit, window   *)
(* and number of requests.                                                 *)
THEOREM AdmissionBound == Spec => []AdmissionsAreBounded
<1>1. IInv /\ AInv /\ [Next]_vars => AInv'
  BY AdmissionKinds, SteadyStep, CallAdmits, CountAdmits, CleanAdmits DEF IInv, AInv
<1>2. IInv /\ AInv => AdmissionsAreBounded
  BY AInvBounds DEF IInv
<1> QED
  BY <1>1, <1>2, InitAInv, Invariance, PTL DEF Spec

-----------------------------------------------------------------------------
(* Accounts.                                                               *)

Anyone == Users \cup {Nobody}

(* A redirected request carries the cookie of its browser, and the second  *)
(* redirect has brought it to a page that its account may see.             *)
VisitsAreTame ==
  \A b \in Browsers :
     /\ hops[b] \in 0 .. 2
     /\ hops[b] >= 1 /\ visit[b].stage = "proxy" => visit[b].token = session[b]
     /\ hops[b] >= 1 /\ visit[b].stage = "layout" => visit[b].token = session[b]
     /\ hops[b] = 2 /\ visit[b].stage = "proxy" /\ visit[b].at = "login"
          => visit[b].token \notin active
     /\ hops[b] = 2 /\ visit[b].stage = "proxy" /\ visit[b].at = "admin"
          => visit[b].token \in active
     /\ hops[b] = 2 /\ visit[b].stage = "layout" => visit[b].token \in active

(* What an invocation has checked by the time it writes.                   *)
Resolved == {"target", "input", "write"}

CallsAreChecked ==
  \A i \in Invocations :
     /\ action[i].pc \in Resolved =>
          /\ action[i].token \in rows
          /\ HasPermission(action[i].token, action[i].op)
     /\ action[i].pc \in {"input", "write"} /\ action[i].op \in OnRow =>
          action[i].on \in rows \ SuperAdmins
     /\ action[i].pc = "cookie" => action[i].on \in rows
     /\ action[i].op = "signIn" => action[i].pc \in {"credentials", "cookie"}

(* The changes a removed account has made and those it may still make.     *)
ActingFor(u) == {i \in Invocations : action[i].pc \in Resolved /\ action[i].token = u}

LateBound ==
  \A u \in Users : /\ u \in active => late[u] = 0
                   /\ u \notin rows => late[u] = 0
                   /\ u \in rows \ active =>
                        late[u] + Cardinality(ActingFor(u)) <= Cardinality(Invocations) - 1

SuperAdminsStay == SuperAdmins \subseteq active

AccountsInv ==
  /\ AccountsTypeOK
  /\ VisitsAreTame
  /\ CallsAreChecked
  /\ LateBound
  /\ SuperAdminsStay

-----------------------------------------------------------------------------
(* Where it starts.                                                        *)
LEMMA AccountsStart == InitAccounts => AccountsInv
<1> SUFFICES ASSUME InitAccounts PROVE AccountsInv
  OBVIOUS
<1> USE UsersAssumption DEF InitAccounts
<1>1. AccountsTypeOK
  BY DEF AccountsTypeOK, Visit, Running, Request, AtRest, Ops, OnRow, Paths
<1>2. VisitsAreTame
  BY DEF VisitsAreTame, Request
<1>3. CallsAreChecked
  BY DEF CallsAreChecked, Resolved, AtRest, OnRow
<1>4. LateBound
  BY DEF LateBound
<1>5. SuperAdminsStay
  BY DEF SuperAdminsStay
<1> QED
  BY <1>1, <1>2, <1>3, <1>4, <1>5 DEF AccountsInv

-----------------------------------------------------------------------------
(* Navigations.                                                            *)

(* Steps that leave the accounts and the Server Actions alone keep what is *)
(* known of them.                                                          *)
LEMMA AccountsUntouched ==
  ASSUME AccountsInv, UNCHANGED <<rows, active, action, late>>
  PROVE  CallsAreChecked' /\ LateBound' /\ SuperAdminsStay'
<1>1. CallsAreChecked'
  BY DEF AccountsInv, CallsAreChecked, Resolved, HasPermission, OnRow
<1>2. \A u \in Users : ActingFor(u)' = ActingFor(u)
  BY DEF ActingFor
<1>3. LateBound'
  BY <1>2 DEF AccountsInv, LateBound
<1> QED
  BY <1>1, <1>3 DEF AccountsInv, SuperAdminsStay

LEMMA BrowseStep ==
  ASSUME AccountsInv, NEW b \in Browsers, Browse(b)
  PROVE  AccountsInv'
<1> USE DEF AccountsInv
<1>1. UNCHANGED <<rows, active, action, late>>
  BY DEF Browse, Navigate, Proxy, AdminDashboardLayout, AdminPage, ListAdmins,
         SignOut, Expire, SetSession
<1>2. CallsAreChecked' /\ LateBound' /\ SuperAdminsStay'
  BY <1>1, AccountsUntouched
<1>3. AccountsTypeOK'
  <2> USE DEF AccountsTypeOK, Visit, Request, Paths
  <2>1. ASSUME NEW path \in Paths, Navigate(b, path) PROVE AccountsTypeOK'
    BY <2>1 DEF Navigate
  <2>2. ASSUME NEW path \in Paths, Redirect(b, path)
        PROVE  visit' \in [Browsers -> Visit] /\ hops' \in [Browsers -> Nat]
    BY <2>2 DEF Redirect
  <2>3. ASSUME NEW stage \in {"idle", "layout", "page", "list"}, Proceed(b, stage)
        PROVE  visit' \in [Browsers -> Visit] /\ hops' \in [Browsers -> Nat]
    BY <2>3 DEF Proceed
  <2>4. CASE Proxy(b)
    <3>1. \/ \E path \in Paths : Redirect(b, path)
          \/ \E stage \in {"idle", "layout", "page"} : Proceed(b, stage)
      BY <2>4 DEF Proxy
    <3>2. UNCHANGED <<rows, active, session, shown, action, late>>
      BY <2>4 DEF Proxy
    <3> QED
      BY <2>2, <2>3, <3>1, <3>2
  <2>5. CASE AdminDashboardLayout(b)
    <3>1. Redirect(b, "login") \/ Proceed(b, "page")
      BY <2>5 DEF AdminDashboardLayout
    <3>2. UNCHANGED <<rows, active, session, shown, action, late>>
      BY <2>5 DEF AdminDashboardLayout
    <3> QED
      BY <2>2, <2>3, <3>1, <3>2
  <2>6. CASE AdminPage(b)
    BY <2>6 DEF AdminPage, Proceed
  <2>7. CASE ListAdmins(b)
    <3>1. shown' \in [Browsers -> SUBSET (Users \X Buttons)]
      <4> DEFINE seen == {<<u, ButtonOf(u)>> : u \in rows}
      <4>1. seen \subseteq Users \X Buttons
        BY DEF ButtonOf, Buttons
      <4>2. shown' = [shown EXCEPT ![b] = @ \cup seen]
        BY <2>7 DEF ListAdmins
      <4> HIDE DEF seen
      <4> QED
        BY <4>1, <4>2
    <3>2. visit' \in [Browsers -> Visit]
      BY <2>7 DEF ListAdmins, Proceed
    <3> QED
      BY <2>7, <3>1, <3>2 DEF ListAdmins, Proceed
  <2>8. CASE SignOut(b)
    BY <2>8 DEF SignOut, SetSession
  <2>9. CASE Expire(b)
    BY <2>9 DEF Expire
  <2> QED
    BY <2>1, <2>4, <2>5, <2>6, <2>7, <2>8, <2>9 DEF Browse
<1>4. VisitsAreTame'
  <2> USE UsersAssumption DEF AccountsTypeOK, Visit, Request, Paths, VisitsAreTame
  <2>1. ASSUME NEW path \in Paths, Navigate(b, path) PROVE VisitsAreTame'
    BY <2>1 DEF Navigate
  <2>2. CASE Proxy(b)
    <3> DEFINE v == visit[b]
    <3>1. v.stage = "proxy"
      BY <2>2 DEF Proxy
    <3>2. CASE v.at = "admin" /\ v.token = Nobody /\ Redirect(b, "login")
      BY <2>2, <3>1, <3>2 DEF Redirect, Proxy
    <3>3. CASE \E stage \in {"layout", "page"} : Proceed(b, stage) /\ v.at = "admin"
      BY <2>2, <3>1, <3>3 DEF Proceed, Proxy
    <3>4. CASE v.at = "login" /\ v.token \in active /\ Redirect(b, "admin")
      BY <2>2, <3>1, <3>4 DEF Redirect, Proxy
    <3>5. CASE Proceed(b, "idle")
      BY <2>2, <3>1, <3>5 DEF Proceed, Proxy
    <3> QED
      BY <2>2, <3>2, <3>3, <3>4, <3>5 DEF Proxy, TurnedAwayFromLogin, IsUserSessionActive
  <2>3. CASE AdminDashboardLayout(b)
    BY <2>3 DEF AdminDashboardLayout, Redirect, Proceed, IsUserSessionActive
  <2>4. CASE AdminPage(b)
    BY <2>4 DEF AdminPage, Proceed
  <2>5. CASE ListAdmins(b)
    BY <2>5 DEF ListAdmins, Proceed
  <2>6. CASE SignOut(b)
    BY <2>6 DEF SignOut, SetSession
  <2>7. CASE Expire(b)
    BY <2>7 DEF Expire
  <2> QED
    BY <2>1, <2>2, <2>3, <2>4, <2>5, <2>6, <2>7 DEF Browse
<1> QED
  BY <1>2, <1>3, <1>4

-----------------------------------------------------------------------------
(* Server Actions.                                                         *)

(* Whoever acts for an account that was not active before is at most who   *)
(* acted for it already, and those are finitely many.                      *)
LEMMA ActingIsFinite ==
  ASSUME NEW S \in SUBSET Invocations
  PROVE  /\ IsFiniteSet(S)
         /\ Cardinality(S) \in Nat
         /\ Cardinality(S) <= Cardinality(Invocations)
         /\ Cardinality(Invocations) \in Nat \ {0}
<1> USE InvocationsAssumption
<1>1. IsFiniteSet(S) /\ Cardinality(S) <= Cardinality(Invocations)
  BY FS_Subset
<1>2. Cardinality(S) \in Nat /\ Cardinality(Invocations) \in Nat
  BY <1>1, FS_CardinalityType
<1>3. Cardinality(Invocations) # 0
  BY FS_EmptySet
<1> QED
  BY <1>1, <1>2, <1>3

(* A step that lets nobody new act for a removed account.                  *)
LEMMA FewerActing ==
  ASSUME LateBound, UNCHANGED <<rows, active, late>>,
         AccountsTypeOK, \A u \in Users \ active : ActingFor(u)' \subseteq ActingFor(u)
  PROVE  LateBound'
<1> SUFFICES ASSUME NEW u \in rows \ active
             PROVE  late[u] + Cardinality(ActingFor(u)') <= Cardinality(Invocations) - 1
  BY DEF LateBound, AccountsTypeOK
<1>1. ActingFor(u) \in SUBSET Invocations
  BY DEF ActingFor
<1>2. ActingFor(u)' \subseteq ActingFor(u)
  BY DEF AccountsTypeOK
<1>3. Cardinality(ActingFor(u)') <= Cardinality(ActingFor(u))
  BY <1>1, <1>2, ActingIsFinite, FS_Subset
<1>4. late[u] + Cardinality(ActingFor(u)) <= Cardinality(Invocations) - 1
  BY DEF LateBound, AccountsTypeOK
<1>5. /\ late[u] \in Nat /\ Cardinality(Invocations) \in Nat
      /\ Cardinality(ActingFor(u)) \in Nat /\ Cardinality(ActingFor(u)') \in Nat
  <2>1. ActingFor(u)' \in SUBSET Invocations
    BY <1>1, <1>2
  <2> QED
    BY <1>1, <2>1, ActingIsFinite DEF AccountsTypeOK
<1> QED
  BY <1>3, <1>4, <1>5

LEMMA PressStep ==
  ASSUME AccountsInv, NEW b \in Browsers, NEW i \in Invocations, Press(i, b)
  PROVE  AccountsInv'
<1> USE DEF AccountsInv
<1>1. \/ \E u \in Users : Begin(i, "credentials", "signIn", b, u)
      \/ \E op \in Ops \ {"signIn"}, u \in Anyone : Begin(i, "actor", op, b, u)
  <2>1. ASSUME NEW op \in Ops \ {"signIn"}, NEW u \in Anyone, Send(i, op, b, u)
        PROVE  \E o \in Ops \ {"signIn"}, v \in Anyone : Begin(i, "actor", o, b, v)
    BY <2>1 DEF Send
  <2>2. {"create", "other", "update", "reset", "deactivate", "reactivate"}
          \subseteq Ops \ {"signIn"}
    BY DEF Ops, OnRow
  <2>3. Nobody \in Anyone /\ Users \subseteq Anyone
    BY DEF Anyone
  <2>4. ASSUME AddAdmin(i, b) \/ Work(i, b)
        PROVE  \E o \in Ops \ {"signIn"}, v \in Anyone : Begin(i, "actor", o, b, v)
    BY <2>1, <2>2, <2>3, <2>4 DEF AddAdmin, Work
  <2>5. ASSUME NEW u \in Users, \/ EditAdmin(i, b, u) \/ ResetPassword(i, b, u)
                                \/ RemoveAdmin(i, b, u) \/ ReactivateButton(i, b, u)
        PROVE  \E o \in Ops \ {"signIn"}, v \in Anyone : Begin(i, "actor", o, b, v)
    BY <2>1, <2>2, <2>3, <2>5 DEF EditAdmin, ResetPassword, RemoveAdmin, ReactivateButton
  <2>6. ASSUME NEW u \in Users, Login(i, b, u)
        PROVE  Begin(i, "credentials", "signIn", b, u)
    BY <2>6 DEF Login
  <2> QED
    BY <2>4, <2>5, <2>6 DEF Press
<1>2. PICK pc \in {"credentials", "actor"}, op \in Ops, u \in Anyone :
        /\ Begin(i, pc, op, b, u)
        /\ op = "signIn" => pc = "credentials"
  <2>1. ASSUME NEW u \in Users, Begin(i, "credentials", "signIn", b, u)
        PROVE  \E pc \in {"credentials", "actor"}, op \in Ops, v \in Anyone :
                 /\ Begin(i, pc, op, b, v)
                 /\ op = "signIn" => pc = "credentials"
    BY <2>1 DEF Ops, Anyone
  <2>2. ASSUME NEW o \in Ops \ {"signIn"}, NEW u \in Anyone, Begin(i, "actor", o, b, u)
        PROVE  \E pc \in {"credentials", "actor"}, op \in Ops, v \in Anyone :
                 /\ Begin(i, pc, op, b, v)
                 /\ op = "signIn" => pc = "credentials"
    BY <2>2
  <2> QED
    BY <1>1, <2>1, <2>2
<1>3. UNCHANGED <<rows, active, session, visit, hops, shown, late>>
  BY <1>2 DEF Begin
<1>4. action' = [action EXCEPT ![i] =
        [pc |-> pc, op |-> op, by |-> b, token |-> session[b], on |-> u]]
  BY <1>2 DEF Begin
<1>5. AccountsTypeOK'
  BY <1>3, <1>4 DEF AccountsTypeOK, Running, Anyone
<1>6. VisitsAreTame'
  BY <1>3 DEF VisitsAreTame
<1>7. CallsAreChecked'
  BY <1>2, <1>3, <1>4 DEF CallsAreChecked, AccountsTypeOK, Running, Resolved,
                          HasPermission, OnRow
<1>8. LateBound'
  <2>1. \A w \in Users \ active : ActingFor(w)' \subseteq ActingFor(w)
    BY <1>4 DEF ActingFor, AccountsTypeOK, Running, Resolved
  <2> QED
    BY <1>3, <2>1, FewerActing
<1>9. SuperAdminsStay'
  BY <1>3 DEF SuperAdminsStay
<1> QED
  BY <1>5, <1>6, <1>7, <1>8, <1>9

(* The steps of an invocation up to its write.                             *)
LEMMA CheckStep ==
  ASSUME AccountsInv, NEW i \in Invocations,
         \/ VerifyAdminCredentials(i) \/ SignIn(i) \/ ResolveActor(i)
         \/ RequireEditableAdmin(i) \/ CheckInput(i) \/ Fail(i)
  PROVE  AccountsInv'
<1> USE DEF AccountsInv
<1> DEFINE a == action[i]
<1>0. a \in Running
  BY DEF AccountsTypeOK
<1>1. UNCHANGED <<rows, active, shown, late>>
  BY DEF VerifyAdminCredentials, SignIn, ResolveActor, RequireEditableAdmin,
         CheckInput, Fail, SetSession
<1> DEFINE Moves(pc) ==
      /\ action' = [action EXCEPT ![i].pc = pc]
      /\ pc \in Resolved => a.pc \in Resolved \/ /\ a.token \in active
                                                 /\ a.op # "signIn"
                                                 /\ HasPermission(a.token, a.op)
      /\ pc \in {"input", "write"} /\ a.op \in OnRow => a.on \in rows \ SuperAdmins
      /\ pc = "cookie" => a.on \in rows
      /\ a.op = "signIn" => pc = "cookie"
<1>2. \/ action' = [action EXCEPT ![i] = AtRest]
      \/ \E pc \in {"cookie", "target", "input", "write"} : Moves(pc)
  <2>1. CASE VerifyAdminCredentials(i)
    BY <1>0, <2>1 DEF VerifyAdminCredentials, Advance, Answer, Resolved, Running,
                      AccountsTypeOK, CallsAreChecked
  <2>2. CASE SignIn(i)
    BY <2>2 DEF SignIn, Answer
  <2>3. CASE ResolveActor(i)
    BY <1>0, <2>3 DEF ResolveActor, Advance, Answer, Resolved, Running, OnRow,
                      GetActorOrThrow, IsUserSessionActive, CallsAreChecked
  <2>4. CASE RequireEditableAdmin(i)
    BY <1>0, <2>4 DEF RequireEditableAdmin, Advance, Answer, Resolved, Running,
                      CallsAreChecked
  <2>5. CASE CheckInput(i)
    BY <1>0, <2>5 DEF CheckInput, Advance, Answer, Resolved, Running, CallsAreChecked
  <2>6. CASE Fail(i)
    BY <2>6 DEF Fail, Answer
  <2> QED
    BY <2>1, <2>2, <2>3, <2>4, <2>5, <2>6
<1>3. CallsAreChecked'
  <2>1. CASE action' = [action EXCEPT ![i] = AtRest]
    BY <1>1, <2>1 DEF CallsAreChecked, AccountsTypeOK, Resolved, AtRest, OnRow,
                      HasPermission
  <2>2. ASSUME NEW pc \in {"cookie", "target", "input", "write"},
               Moves(pc)
        PROVE  CallsAreChecked'
    <3>1. /\ action'[i] = [a EXCEPT !.pc = pc]
          /\ \A j \in Invocations \ {i} : action'[j] = action[j]
      BY <2>2 DEF AccountsTypeOK
    <3>2. /\ action'[i].pc = pc /\ action'[i].op = a.op
          /\ action'[i].token = a.token /\ action'[i].on = a.on
      BY <1>0, <3>1 DEF Running
    <3> QED
      BY <1>0, <1>1, <1>2, <2>2, <3>1, <3>2
         DEF CallsAreChecked, AccountsTypeOK, Resolved, HasPermission
  <2> QED
    BY <1>2, <2>1, <2>2
<1>4. LateBound'
  <2>1. CASE action' = [action EXCEPT ![i] = AtRest]
    BY <1>1, <2>1, FewerActing DEF ActingFor, AccountsTypeOK, Resolved, AtRest
  <2>2. ASSUME NEW pc \in {"cookie", "target", "input", "write"},
               Moves(pc)
        PROVE  LateBound'
    <3>1. \A w \in Users \ active : ActingFor(w)' \subseteq ActingFor(w)
      BY <1>0, <1>2, <2>2 DEF ActingFor, AccountsTypeOK, Running
    <3> QED
      BY <1>1, <3>1, FewerActing
  <2> QED
    BY <1>2, <2>1, <2>2
<1>5. AccountsTypeOK'
  <2>1. action' \in [Invocations -> Running]
    <3>1. AtRest \in Running
      BY DEF AtRest, Running, Ops
    <3>2. \A pc \in {"cookie", "target", "input", "write"} : [a EXCEPT !.pc = pc] \in Running
      BY <1>0 DEF Running
    <3> QED
      BY <1>2, <3>1, <3>2 DEF AccountsTypeOK
  <2>2. /\ visit' \in [Browsers -> Visit]
        /\ hops' \in [Browsers -> Nat]
        /\ session' \in [Browsers -> Users \cup {Nobody}]
    <3> USE DEF AccountsTypeOK
    <3>1. \A path \in Paths, u \in Users \cup {Nobody} : Request(path, u) \in Visit
      BY DEF Request, Visit
    <3>2. "login" \in Paths /\ "admin" \in Paths
      BY DEF Paths
    <3>3. CASE VerifyAdminCredentials(i)
      <4>1. \/ UNCHANGED <<visit, hops>>
            \/ /\ visit' = [visit EXCEPT ![a.by] = Request("login", session[a.by])]
               /\ hops' = [hops EXCEPT ![a.by] = 0]
        BY <3>3 DEF VerifyAdminCredentials
      <4>2. a.by \in Browsers =>
              visit' \in [Browsers -> Visit] /\ hops' \in [Browsers -> Nat]
        BY <3>1, <3>2, <4>1
      <4>3. a.by \notin Browsers =>
              visit' \in [Browsers -> Visit] /\ hops' \in [Browsers -> Nat]
        BY <4>1
      <4> QED
        BY <3>3, <4>2, <4>3 DEF VerifyAdminCredentials
    <3>4. CASE SignIn(i)
      <4>1. a.on \in Users
        BY <3>4 DEF SignIn, CallsAreChecked
      <4> QED
        BY <3>1, <3>2, <3>4, <4>1 DEF SignIn, SetSession
    <3>5. CASE UNCHANGED <<session, visit, hops>>
      BY <3>5
    <3> QED
      BY <3>3, <3>4, <3>5 DEF ResolveActor, RequireEditableAdmin, CheckInput, Fail
  <2> QED
    BY <1>1, <2>1, <2>2 DEF AccountsTypeOK
<1>6. VisitsAreTame'
  <2> USE DEF VisitsAreTame
  <2>1. CASE VerifyAdminCredentials(i)
    BY <2>1, <1>0 DEF VerifyAdminCredentials, AccountsTypeOK, Request
  <2>2. CASE SignIn(i)
    BY <2>2, <1>0 DEF SignIn, SetSession, AccountsTypeOK, Request
  <2>3. CASE UNCHANGED <<session, visit, hops, active>>
    BY <2>3
  <2> QED
    BY <2>1, <2>2, <2>3 DEF ResolveActor, RequireEditableAdmin, CheckInput, Fail
<1>7. SuperAdminsStay'
  BY <1>1 DEF SuperAdminsStay
<1> QED
  BY <1>3, <1>4, <1>5, <1>6, <1>7

(* The write of an invocation.                                             *)
LEMMA WriteStep ==
  ASSUME AccountsInv, NEW i \in Invocations,
         \/ CreateAdmin(i) \/ UpdateAdmin(i) \/ ResetAdminPassword(i)
         \/ OtherWrite(i) \/ DeactivateAdmin(i) \/ ReactivateAdmin(i)
  PROVE  AccountsInv'
<1> USE DEF AccountsInv
<1> DEFINE a == action[i]
<1>0. a \in Running /\ Commit(i) /\ a.pc = "write"
  BY DEF AccountsTypeOK, CreateAdmin, UpdateAdmin, ResetAdminPassword, OtherWrite,
         DeactivateAdmin, ReactivateAdmin, Commit
<1>1. /\ action' = [action EXCEPT ![i] = AtRest]
      /\ UNCHANGED <<session, visit, shown>>
  BY <1>0 DEF Commit, Answer
<1>2. /\ rows \subseteq rows' /\ rows' \subseteq Users
      /\ active' \subseteq rows'
      /\ rows' \ rows \subseteq active'
      /\ SuperAdmins \subseteq active'
  <2> USE <1>0, UsersAssumption DEF AccountsTypeOK, SuperAdminsStay, CallsAreChecked
  <2>1. CASE CreateAdmin(i)
    BY <2>1 DEF CreateAdmin
  <2>2. CASE DeactivateAdmin(i)
    BY <2>2 DEF DeactivateAdmin, OnRow
  <2>3. CASE ReactivateAdmin(i)
    BY <2>3 DEF ReactivateAdmin, OnRow
  <2> QED
    BY <2>1, <2>2, <2>3 DEF UpdateAdmin, ResetAdminPassword, OtherWrite
<1>3. \A u \in active \ active' : a.token # u
  <2>1. SUFFICES ASSUME DeactivateAdmin(i) PROVE a.token # a.on
    BY DEF CreateAdmin, UpdateAdmin, ResetAdminPassword, OtherWrite,
           DeactivateAdmin, ReactivateAdmin
  <2>2. a.op = "deactivate"
    BY <2>1 DEF DeactivateAdmin
  <2> QED
    BY <1>0, <2>2 DEF CallsAreChecked, Resolved, HasPermission, OnRow
<1>4. \A u \in Users : ActingFor(u)' = ActingFor(u) \ {i}
  BY <1>1 DEF ActingFor, AtRest, Resolved, AccountsTypeOK
<1>5. late' = [u \in Users |-> IF u \in active' THEN 0
                               ELSE IF u = a.token THEN late[u] + 1 ELSE late[u]]
  BY <1>0 DEF Commit
<1>6. AccountsTypeOK'
  <2>1. action' \in [Invocations -> Running]
    BY <1>1 DEF AccountsTypeOK, Running, AtRest, Ops
  <2>2. hops' \in [Browsers -> Nat]
    BY <1>0 DEF Commit, AccountsTypeOK
  <2>3. late' \in [Users -> Nat]
    BY <1>5 DEF AccountsTypeOK
  <2> QED
    BY <1>1, <1>2, <2>1, <2>2, <2>3 DEF AccountsTypeOK
<1>7. VisitsAreTame'
  <2>1. CASE active' = active
    BY <2>1, <1>0, <1>1 DEF Commit, VisitsAreTame
  <2>2. CASE active' # active
    BY <2>2, <1>0, <1>1 DEF Commit, VisitsAreTame
  <2> QED
    BY <2>1, <2>2
<1>8. CallsAreChecked'
  BY <1>1, <1>2 DEF CallsAreChecked, AccountsTypeOK, Resolved, AtRest, OnRow,
                    HasPermission
<1>9. LateBound'
  <2> SUFFICES ASSUME NEW u \in Users
               PROVE  /\ u \in active' => late'[u] = 0
                      /\ u \notin rows' => late'[u] = 0
                      /\ u \in rows' \ active' =>
                           late'[u] + Cardinality(ActingFor(u)')
                             <= Cardinality(Invocations) - 1
    BY DEF LateBound
  <2>1. u \in active' => late'[u] = 0
    BY <1>5
  <2>2. u \notin rows' => late'[u] = 0
    BY <1>0, <1>2, <1>5 DEF LateBound, CallsAreChecked, Resolved
  <2>3. ASSUME u \in rows' \ active'
        PROVE  late'[u] + Cardinality(ActingFor(u)') <= Cardinality(Invocations) - 1
    <3>0. u \in rows
      BY <1>2, <2>3
    <3>1. ActingFor(u) \subseteq Invocations
      BY DEF ActingFor
    <3>2. /\ Cardinality(ActingFor(u)) \in Nat
          /\ Cardinality(Invocations) \in Nat
          /\ IsFiniteSet(ActingFor(u))
      BY <3>1, ActingIsFinite
    <3>3. late[u] \in Nat
      BY DEF AccountsTypeOK
    <3>4. CASE u \in active
      <4>1. late'[u] = 0 /\ a.token # u
        BY <1>3, <1>5, <2>3, <3>4 DEF LateBound
      <4>2. ActingFor(u)' \subseteq Invocations \ {i}
        BY <1>4, <3>1
      <4>3. /\ Cardinality(ActingFor(u)') <= Cardinality(Invocations \ {i})
            /\ Cardinality(Invocations \ {i}) = Cardinality(Invocations) - 1
        BY <4>2, InvocationsAssumption, FS_Subset, FS_RemoveElement
      <4>4. Cardinality(ActingFor(u)') \in Nat
        <5>1. ActingFor(u)' \in SUBSET Invocations
          BY <4>2
        <5> QED
          BY <5>1, ActingIsFinite
      <4> QED
        BY <3>2, <4>1, <4>3, <4>4
    <3>5. CASE u \notin active /\ u = a.token
      <4>1. late'[u] = late[u] + 1
        BY <1>5, <2>3, <3>5
      <4>2. i \in ActingFor(u)
        BY <1>0, <3>5 DEF ActingFor, Resolved
      <4>3. Cardinality(ActingFor(u)') = Cardinality(ActingFor(u)) - 1
        BY <1>4, <3>2, <4>2, FS_RemoveElement
      <4>4. late[u] + Cardinality(ActingFor(u)) <= Cardinality(Invocations) - 1
        BY <3>0, <3>5 DEF LateBound
      <4> QED
        BY <3>2, <3>3, <4>1, <4>3, <4>4
    <3>6. CASE u \notin active /\ u # a.token
      <4>1. late'[u] = late[u]
        BY <1>5, <2>3, <3>6
      <4>2. ActingFor(u)' = ActingFor(u)
        BY <1>4, <3>6 DEF ActingFor
      <4> QED
        BY <3>0, <3>6, <4>1, <4>2 DEF LateBound
    <3> QED
      BY <3>4, <3>5, <3>6
  <2> QED
    BY <2>1, <2>2, <2>3
<1>10. SuperAdminsStay'
  BY <1>2 DEF SuperAdminsStay
<1> QED
  BY <1>6, <1>7, <1>8, <1>9, <1>10

-----------------------------------------------------------------------------
(* Sessions and accounts keep the invariant, for every number of accounts, *)
(* browsers and overlapping Server Actions.                                *)
THEOREM AccountsInvariance == AccountsSpec => []AccountsInv
<1>1. ASSUME AccountsInv, [NextAccounts]_accountVars PROVE AccountsInv'
  <2>1. ASSUME NEW b \in Browsers, Browse(b) PROVE AccountsInv'
    BY <1>1, <2>1, BrowseStep
  <2>2. ASSUME NEW b \in Browsers, NEW i \in Invocations, Press(i, b) PROVE AccountsInv'
    BY <1>1, <2>2, PressStep
  <2>3. ASSUME NEW i \in Invocations, Run(i) PROVE AccountsInv'
    <3>1. CASE \/ VerifyAdminCredentials(i) \/ SignIn(i) \/ ResolveActor(i)
               \/ RequireEditableAdmin(i) \/ CheckInput(i) \/ Fail(i)
      BY <1>1, <3>1, CheckStep
    <3>2. CASE \/ CreateAdmin(i) \/ UpdateAdmin(i) \/ ResetAdminPassword(i)
               \/ OtherWrite(i) \/ DeactivateAdmin(i) \/ ReactivateAdmin(i)
      BY <1>1, <3>2, WriteStep
    <3> QED
      BY <2>3, <3>1, <3>2 DEF Run
  <2>4. CASE UNCHANGED accountVars
    <3>1. UNCHANGED <<rows, active, session, visit, hops, shown, action, late>>
      BY <2>4 DEF accountVars
    <3>2. CallsAreChecked' /\ LateBound' /\ SuperAdminsStay'
      BY <1>1, <3>1, AccountsUntouched
    <3>3. AccountsTypeOK' /\ VisitsAreTame'
      BY <1>1, <3>1 DEF AccountsInv, AccountsTypeOK, VisitsAreTame
    <3> QED
      BY <3>2, <3>3 DEF AccountsInv
  <2> QED
    BY <1>1, <2>1, <2>2, <2>3, <2>4 DEF NextAccounts
<1> QED
  BY <1>1, AccountsStart, PTL DEF AccountsSpec

(* The guards never send a browser to and fro.                             *)
THEOREM RedirectsAreFew == AccountsSpec => []RedirectsEnd
<1>1. AccountsInv => RedirectsEnd
  BY DEF AccountsInv, VisitsAreTame, RedirectsEnd
<1> QED
  BY <1>1, AccountsInvariance, PTL

(* A removed account makes no more changes than invocations ran beside the *)
(* one that removed it.                                                    *)
THEOREM LateChanges == AccountsSpec => []LateChangesAreBounded
<1>1. AccountsInv => LateChangesAreBounded
  <2> SUFFICES ASSUME AccountsInv, NEW u \in Users
               PROVE  late[u] <= Cardinality(Invocations) - 1
    BY DEF LateChangesAreBounded
  <2>1. ActingFor(u) \in SUBSET Invocations
    BY DEF ActingFor
  <2>2. Cardinality(ActingFor(u)) \in Nat /\ Cardinality(Invocations) \in Nat \ {0}
    BY <2>1, ActingIsFinite
  <2>3. late[u] \in Nat
    BY DEF AccountsInv, AccountsTypeOK
  <2>4. late[u] = 0 \/ late[u] + Cardinality(ActingFor(u)) <= Cardinality(Invocations) - 1
    BY DEF AccountsInv, LateBound
  <2> QED
    BY <2>2, <2>3, <2>4
<1> QED
  BY <1>1, AccountsInvariance, PTL
=============================================================================
