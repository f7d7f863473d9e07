------------------------ MODULE PlacementBands_proofs ------------------------
(***************************************************************************)
(* Theorems about PlacementBands for every number of requests, bands and   *)
(* results, every form input and every list of institutional bands: what   *)
(* a stored level rests on when bands are edited, deleted and matched in   *)
(* queries of their own.                                                   *)
(***************************************************************************)
EXTENDS PlacementBands, WellFoundedInduction, TLAPS

USE DEF vars, rows, history

-----------------------------------------------------------------------------
(* The inductive invariant: whatever a request has matched or read of a    *)
(* band is still so, unless the band was deleted or edited, and an id is   *)
(* not used again.                                                         *)

Untouched(b) == b \in Exists /\ b \notin edited

Sound(q) ==
  /\ q.pc \in {"create", "insert", "update"} => q.input \in Inputs
  /\ q.pc \in {"update", "delete"} => q.band \in used
  /\ q.pc = "commit" =>
       /\ q.result \in Results
       /\ q.band # None =>
            /\ q.band \in used
            /\ Untouched(q.band) => Covers(band[q.band], RawScore[q.result], Total)
  /\ \A x \in q.bands : /\ x[1] \in used
                        /\ Untouched(x[1]) => band[x[1]] = x[2]

LevelsAreOfBands == \A r \in Results : level[r] # None => level[r] \in Exists

IInv == /\ TypeOK /\ Exists \subseteq used
        /\ \A p \in Requests : Sound(req[p])
        /\ LevelsAreOfBands /\ BandIsMatchable /\ LevelIsJustified

-----------------------------------------------------------------------------
(* Inputs and rows.                                                        *)

LEMMA InputFacts ==
  ASSUME NEW i \in Inputs
  PROVE  /\ i.order \in Nat /\ i.min \in Nat /\ i.max \in Nat /\ i.min <= i.max
         /\ i.scoringMode \in {"RAW_SCORE", "PERCENTAGE"}
<1>1. CASE i \in FormInputs /\ InputAccepted(i)
  BY <1>1, FormAssumption DEF InputAccepted
<1>2. ASSUME NEW n \in 1 .. Len(Institutional), i = InstitutionalInput(n)
      PROVE  /\ i.order \in Nat /\ i.min \in Nat /\ i.max \in Nat /\ i.min <= i.max
             /\ i.scoringMode \in {"RAW_SCORE", "PERCENTAGE"}
  BY <1>2, InstitutionalAssumption DEF InstitutionalInput
<1> QED
  BY <1>1, <1>2 DEF Inputs

(* A row that an input was written over can be matched.                    *)
LEMMA WrittenRow ==
  ASSUME NEW i \in Inputs, NEW old,
         old.minRawScore \in Bound, old.maxRawScore \in Bound,
         old.minPercentage \in Bound, old.maxPercentage \in Bound
  PROVE  /\ Written(old, i) \in Row
         /\ Written(old, i).scoringMode = "RAW_SCORE" =>
              /\ Written(old, i).minRawScore # None /\ Written(old, i).maxRawScore # None
              /\ Written(old, i).minRawScore <= Written(old, i).maxRawScore
         /\ Written(old, i).scoringMode # "RAW_SCORE" =>
              /\ Written(old, i).minPercentage # None /\ Written(old, i).maxPercentage # None
              /\ Written(old, i).minPercentage <= Written(old, i).maxPercentage
<1>1. /\ i.order \in Nat /\ i.min \in Nat /\ i.max \in Nat /\ i.min <= i.max
      /\ i.scoringMode \in {"RAW_SCORE", "PERCENTAGE"}
      /\ i.label \in {input.label : input \in Inputs}
  BY InputFacts
<1>2. i.min # None /\ i.max # None
  BY <1>1, NoneIsNoNumber
<1>3. CASE i.scoringMode = "RAW_SCORE"
  BY <1>1, <1>2, <1>3 DEF Written, Row, Bound
<1>4. CASE i.scoringMode = "PERCENTAGE"
  BY <1>1, <1>2, <1>4 DEF Written, Row, Bound
<1> QED
  BY <1>1, <1>3, <1>4

Matchable(row) ==
  LET low  == IF row.scoringMode = "RAW_SCORE" THEN row.minRawScore ELSE row.minPercentage
      high == IF row.scoringMode = "RAW_SCORE" THEN row.maxRawScore ELSE row.maxPercentage
  IN  low # None /\ high # None /\ low <= high

LEMMA MatchableIs == BandIsMatchable <=> \A b \in Exists : Matchable(band[b])
BY DEF BandIsMatchable, Matchable

LEMMA WrittenMatchable ==
  ASSUME NEW i \in Inputs, NEW old,
         old.minRawScore \in Bound, old.maxRawScore \in Bound,
         old.minPercentage \in Bound, old.maxPercentage \in Bound
  PROVE  Written(old, i) \in Row /\ Matchable(Written(old, i))
BY WrittenRow DEF Matchable

LEMMA LeastElement ==
  ASSUME NEW T \in SUBSET Nat, T # {}
  PROVE  \E n \in T : \A m \in T : n <= m
<1> DEFINE R == {ss \in Nat \X Nat : ss[1] < ss[2]}
<1>1. R = OpToRel(<, Nat)
  BY DEF OpToRel
<1>2. IsWellFoundedOn(R, Nat)
  BY <1>1, NatLessThanWellFounded
<1>3. \E n \in T : \A m \in T : ~ (<<m, n>> \in R)
  <2> HIDE DEF R
  <2> QED
    BY <1>2, WFMin
<1>4. PICK n \in T : \A m \in T : ~ (<<m, n>> \in R)
  BY <1>3
<1>5. ASSUME NEW m \in T PROVE n <= m
  <2>1. n \in Nat /\ m \in Nat /\ <<m, n>> \in Nat \X Nat
    OBVIOUS
  <2>2. m < n => <<m, n>> \in R
    BY <2>1
  <2>3. ~ (m < n)
    BY <1>4, <2>2
  <2> QED
    BY <2>1, <2>3
<1> QED
  BY <1>5

(* The first of the covering bands is one of them.                         *)
LEMMA LeastOrder ==
  ASSUME NEW B, B # {}, \A b \in B : b.order \in Nat
  PROVE  \E b \in B : \A c \in B : b.order <= c.order
<1> DEFINE orders == {b.order : b \in B}
<1>1. orders # {} /\ orders \in SUBSET Nat
  OBVIOUS
<1>2. PICK n \in orders : \A m \in orders : n <= m
  BY <1>1, LeastElement
<1> QED
  BY <1>2

LEMMA MatchCovers ==
  ASSUME TypeOK, NEW raw,
         MatchPlacementBand(raw, Total, Rows(Exists)) # None
  PROVE  \E b \in Exists :
           /\ band[b] = MatchPlacementBand(raw, Total, Rows(Exists))
           /\ Covers(band[b], raw, Total)
<1> DEFINE covering == {b \in Rows(Exists) : Covers(b, raw, Total)}
           match    == CHOOSE b \in covering : \A c \in covering : b.order <= c.order
<1>1. covering # {} /\ MatchPlacementBand(raw, Total, Rows(Exists)) = match
  BY DEF MatchPlacementBand
<1>2. \A b \in covering : b.order \in Nat
  BY DEF TypeOK, Rows, Exists, Row
<1>3. \E b \in covering : \A c \in covering : b.order <= c.order
  BY <1>1, <1>2, LeastOrder
<1>4. match \in covering
  BY <1>3
<1> QED
  BY <1>1, <1>4 DEF Rows

-----------------------------------------------------------------------------
(* What every step leaves as it is.                                        *)

Stable == /\ used \subseteq used'
          /\ \A b \in used : Untouched(b)' => Untouched(b) /\ band'[b] = band[b]

LEMMA SoundOn ==
  ASSUME TypeOK, Stable, NEW q \in Request, Sound(q)
  PROVE  Sound(q)'
BY DEF Stable, Sound

(* A request comes to hold q, which is sound; the others go on.            *)
LEMMA RequestsMove ==
  ASSUME IInv, Stable, NEW p \in Requests, NEW q \in Request, Sound(q)',
         req' = [req EXCEPT ![p] = q]
  PROVE  req' \in [Requests -> Request] /\ \A x \in Requests : Sound(req[x])'
<1>1. req' \in [Requests -> Request] /\ req'[p] = q
  BY DEF IInv, TypeOK
<1>2. ASSUME NEW x \in Requests PROVE Sound(req[x])'
  <2>1. CASE x = p
    BY <1>1, <2>1 DEF Sound
  <2>2. CASE x # p
    <3>1. PICK s \in Request : s = req[x] /\ s = req'[x] /\ Sound(s)
      BY <2>2 DEF IInv, TypeOK
    <3>2. Sound(s)'
      BY <3>1, SoundOn DEF IInv
    <3> QED
      BY <3>1, <3>2 DEF Sound
  <2> QED
    BY <2>1, <2>2
<1> QED
  BY <1>1, <1>2

(* Rows that are left alone.                                               *)
Kept == UNCHANGED <<band, level, stored, used, edited>>

LEMMA KeptHolds ==
  ASSUME IInv, Kept
  PROVE  /\ Stable
         /\ Exists' \subseteq used' /\ LevelsAreOfBands'
         /\ BandIsMatchable' /\ LevelIsJustified'
<1>1. Exists' = Exists
  BY DEF Kept, Exists
<1>2. Stable
  BY <1>1 DEF Kept, Stable, Untouched
<1>3. Exists' \subseteq used' /\ LevelsAreOfBands'
  BY <1>1 DEF Kept, IInv, LevelsAreOfBands
<1>4. BandIsMatchable'
  BY <1>1 DEF Kept, IInv, BandIsMatchable
<1>5. LevelIsJustified'
  BY <1>1 DEF Kept, IInv, LevelIsJustified
<1> QED
  BY <1>2, <1>3, <1>4, <1>5

LEMMA IdleRow == Idle \in Request /\ Sound(Idle) /\ Sound(Idle)'
BY DEF Idle, Request, Sound

-----------------------------------------------------------------------------
(* Steps that only read: a request moves on and the rows stay.             *)

Others == /\ test' \in {"OPEN", "ARCHIVED"} /\ seen' \subseteq Results
          /\ tuned' \in BOOLEAN

LEMMA MoveStep ==
  ASSUME IInv, Kept, Others, NEW p \in Requests, NEW q \in Request, Sound(q),
         req' = [req EXCEPT ![p] = q]
  PROVE  IInv'
<1>1. Stable
  BY KeptHolds
<1>2. Sound(q)'
  BY <1>1, SoundOn DEF IInv
<1>3. req' \in [Requests -> Request] /\ \A x \in Requests : Sound(req[x])'
  BY <1>1, <1>2, RequestsMove
<1>4. TypeOK'
  BY <1>3 DEF IInv, TypeOK, Kept, Others
<1> QED
  BY <1>3, <1>4, KeptHolds DEF IInv

LEMMA SameOthers ==
  ASSUME IInv, UNCHANGED <<test, seen, tuned>>
  PROVE  Others
BY DEF IInv, TypeOK, Others

LEMMA RequestRow ==
  ASSUME IInv, NEW p \in Requests
  PROVE  req[p] \in Request /\ Sound(req[p])
BY DEF IInv, TypeOK

LEMMA GiveUpStep ==
  ASSUME IInv, NEW p \in Requests, GiveUp(p)
  PROVE  IInv'
<1>1. Kept
  BY DEF GiveUp, Kept
<1>2. Others
  BY DEF GiveUp, IInv, TypeOK, Others
<1> QED
  BY <1>1, <1>2, IdleRow, MoveStep DEF GiveUp, Done

LEMMA FinishBackfillStep ==
  ASSUME IInv, NEW p \in Requests, FinishBackfill(p)
  PROVE  IInv'
<1>1. Kept
  BY DEF FinishBackfill, Kept
<1>2. Others
  BY RequestRow DEF FinishBackfill, IInv, TypeOK, Others, Request
<1> QED
  BY <1>1, <1>2, IdleRow, MoveStep DEF FinishBackfill, Done

LEMMA SubmitStep ==
  ASSUME IInv, NEW p \in Requests, NEW input \in FormInputs, SubmitNewBand(p, input)
  PROVE  IInv'
<1> DEFINE q == [Idle EXCEPT !.pc = "create", !.input = input]
<1>1. input \in Inputs
  BY DEF SubmitNewBand, Inputs
<1>2. req' = [req EXCEPT ![p] = q] /\ Kept /\ UNCHANGED <<test, seen, tuned>>
  BY DEF SubmitNewBand, Kept
<1>3. /\ q \in Request /\ q.pc = "create" /\ q.input = input /\ q.bands = {}
  BY <1>1 DEF Idle, Request
<1> HIDE DEF q
<1>4. Sound(q)
  BY <1>1, <1>3 DEF Sound
<1> QED
  BY <1>2, <1>3, <1>4, SameOthers, MoveStep

LEMMA CheckOwnerStep ==
  ASSUME IInv, NEW p \in Requests, NEW b \in BandIds, CheckBandOwner(p, b)
  PROVE  IInv'
<1>1. Kept /\ UNCHANGED <<test, seen, tuned>> /\ b \in used
  BY DEF CheckBandOwner, Kept, IInv
<1>2. ASSUME NEW input \in FormInputs, InputAccepted(input),
             req' = [req EXCEPT ![p] = [Idle EXCEPT !.pc = "update", !.band = b,
                                                    !.input = input]]
      PROVE  IInv'
  <2> DEFINE q == [Idle EXCEPT !.pc = "update", !.band = b, !.input = input]
  <2>1. input \in Inputs
    BY <1>2 DEF Inputs
  <2>2. /\ q \in Request /\ q.pc = "update" /\ q.input = input /\ q.bands = {}
        /\ q.band = b
    BY <2>1 DEF Idle, Request
  <2>3. req' = [req EXCEPT ![p] = q]
    BY <1>2
  <2> HIDE DEF q
  <2>4. Sound(q)
    BY <1>1, <2>1, <2>2 DEF Sound
  <2> QED
    BY <1>1, <2>2, <2>3, <2>4, SameOthers, MoveStep
<1>3. ASSUME req' = [req EXCEPT ![p] = [Idle EXCEPT !.pc = "delete", !.band = b]]
      PROVE  IInv'
  <2> DEFINE q == [Idle EXCEPT !.pc = "delete", !.band = b]
  <2>1. /\ q \in Request /\ q.pc = "delete" /\ q.bands = {} /\ q.band = b
    BY DEF Idle, Request
  <2>2. req' = [req EXCEPT ![p] = q]
    BY <1>3
  <2> HIDE DEF q
  <2>3. Sound(q)
    BY <1>1, <2>1 DEF Sound
  <2> QED
    BY <1>1, <2>1, <2>2, <2>3, SameOthers, MoveStep
<1> QED
  BY <1>2, <1>3 DEF CheckBandOwner

LEMMA ScoreStep ==
  ASSUME IInv, NEW p \in Requests, NEW r \in Results, ScoreAttempt(p, r)
  PROVE  IInv'
<1> DEFINE match == MatchPlacementBand(RawScore[r], Total, Rows(Exists))
           b     == BandIdOf(match)
           q     == [Idle EXCEPT !.pc = "commit", !.result = r, !.band = b]
<1>1. /\ req' = [req EXCEPT ![p] = q] /\ Kept
      /\ UNCHANGED <<test, seen, tuned>>
  BY DEF ScoreAttempt, Kept
<1>2. b = None \/ (b \in Exists /\ Covers(band[b], RawScore[r], Total))
  <2>1. CASE match = None
    BY <2>1 DEF BandIdOf
  <2>2. CASE match # None
    <3>1. PICK c \in Exists : band[c] = match /\ Covers(band[c], RawScore[r], Total)
      BY <2>2, MatchCovers DEF IInv
    <3> HIDE DEF match
    <3>2. b \in Exists /\ band[b] = match
      BY <2>2, <3>1 DEF BandIdOf
    <3> QED
      BY <3>1, <3>2
  <2> QED
    BY <2>1, <2>2
<1>3. b \in BandIds \cup {None} /\ (b # None => b \in used)
  BY <1>2 DEF Exists, IInv
<1> HIDE DEF b
<1>4. /\ q \in Request /\ q.pc = "commit" /\ q.result = r /\ q.band = b /\ q.bands = {}
  BY <1>3 DEF Idle, Request
<1> HIDE DEF q
<1>5. Sound(q)
  BY <1>2, <1>3, <1>4 DEF Sound
<1> QED
  BY <1>1, <1>4, <1>5, SameOthers, MoveStep

LEMMA ReadBandsStep ==
  ASSUME IInv, NEW p \in Requests, ReadTestForBands(p)
  PROVE  IInv'
<1>1. Kept /\ UNCHANGED <<test, seen, tuned>>
  BY DEF ReadTestForBands, Kept
<1>2. InstitutionalInput(1) \in Inputs
  BY InstitutionalAssumption DEF Inputs
<1> DEFINE q == [Idle EXCEPT !.pc = "create", !.next = 1, !.input = InstitutionalInput(1)]
           s == [Idle EXCEPT !.pc = "listBands", !.next = Len(Institutional) + 1]
<1>3. req' = [req EXCEPT ![p] = q] \/ req' = [req EXCEPT ![p] = s]
  BY DEF ReadTestForBands
<1>4. /\ q \in Request /\ q.pc = "create" /\ q.bands = {} /\ q.input \in Inputs
      /\ s \in Request /\ s.pc = "listBands" /\ s.bands = {}
  <2>1. PICK n \in Nat : n = Len(Institutional) + 1
    BY InstitutionalAssumption
  <2>2. s = [Idle EXCEPT !.pc = "listBands", !.next = n]
    BY <2>1
  <2> HIDE DEF s
  <2> QED
    BY <1>2, <2>2 DEF Idle, Request
<1> HIDE DEF q, s
<1>5. Sound(q) /\ Sound(s)
  BY <1>4 DEF Sound
<1> QED
  BY <1>1, <1>3, <1>4, <1>5, SameOthers, MoveStep

(* A request that goes on with what it has read.                           *)
LEMMA GoesOn ==
  ASSUME IInv, NEW p \in Requests,
         NEW to \in {"insert", "applyNext", "listBands"},
         to = "insert" => req[p].input \in Inputs
  PROVE  [req[p] EXCEPT !.pc = to] \in Request /\ Sound([req[p] EXCEPT !.pc = to])
<1> DEFINE q == [req[p] EXCEPT !.pc = to]
<1>1. req[p] \in Request /\ Sound(req[p])
  BY RequestRow
<1>2. q \in Request /\ q.pc = to /\ q.input = req[p].input /\ q.bands = req[p].bands
  BY <1>1 DEF Request
<1> HIDE DEF q
<1>3. Sound(q)
  BY <1>1, <1>2 DEF Sound
<1> QED
  BY <1>2, <1>3 DEF q

LEMMA CheckTestStep ==
  ASSUME IInv, NEW p \in Requests, CheckTest(p)
  PROVE  IInv'
<1>1. /\ Kept /\ UNCHANGED <<test, seen, tuned>>
      /\ req' = [req EXCEPT ![p] = [req[p] EXCEPT !.pc = "insert"]]
  BY DEF CheckTest, Goto, Kept
<1>2. req[p].input \in Inputs
  BY RequestRow DEF CheckTest, Sound
<1>3. PICK q \in Request : q = [req[p] EXCEPT !.pc = "insert"] /\ Sound(q)
  BY <1>2, GoesOn
<1> QED
  BY <1>1, <1>3, SameOthers, MoveStep

LEMMA NextBandStep ==
  ASSUME IInv, NEW p \in Requests, NextInstitutionalBand(p)
  PROVE  IInv'
<1>1. Kept /\ UNCHANGED <<test, seen, tuned>>
  BY DEF NextInstitutionalBand, Kept
<1>2. CASE req' = [req EXCEPT ![p].pc = "listBands"]
  <2>1. PICK q \in Request : q = [req[p] EXCEPT !.pc = "listBands"] /\ Sound(q)
    BY GoesOn
  <2> QED
    BY <1>1, <1>2, <2>1, SameOthers, MoveStep
<1>3. ASSUME NEW n \in 1 .. Len(Institutional),
             req' = [req EXCEPT ![p].pc = "create", ![p].next = n,
                                ![p].input = InstitutionalInput(n)]
      PROVE  IInv'
  <2> DEFINE i == InstitutionalInput(n)
             q == [req[p] EXCEPT !.pc = "create", !.next = n, !.input = i]
  <2>1. i \in Inputs /\ n \in Nat
    BY InstitutionalAssumption DEF Inputs
  <2>2. req' = [req EXCEPT ![p] = q]
    BY <1>3
  <2> HIDE DEF i
  <2>3. req[p] \in Request /\ Sound(req[p])
    BY RequestRow
  <2>4. q \in Request /\ q.pc = "create" /\ q.input = i /\ q.bands = req[p].bands
    BY <2>1, <2>3 DEF Request
  <2> HIDE DEF q
  <2>5. Sound(q)
    BY <2>1, <2>3, <2>4 DEF Sound
  <2> QED
    BY <1>1, <2>2, <2>4, <2>5, SameOthers, MoveStep
<1>4. req[p].next + 1 \in Nat \ {0} /\ Len(Institutional) \in Nat
  BY RequestRow, InstitutionalAssumption DEF Request
<1>5. CASE req[p].next + 1 <= Len(Institutional)
  <2>1. PICK n \in 1 .. Len(Institutional) : n = req[p].next + 1
    BY <1>4, <1>5
  <2>2. req' = [req EXCEPT ![p].pc = "create", ![p].next = n,
                           ![p].input = InstitutionalInput(n)]
    BY <1>5, <2>1 DEF NextInstitutionalBand
  <2> QED
    BY <1>3, <2>2
<1> QED
  BY <1>2, <1>5 DEF NextInstitutionalBand, Goto

LEMMA ListBandsStep ==
  ASSUME IInv, NEW p \in Requests, ListBands(p)
  PROVE  IInv'
<1> DEFINE B == {<<b, band[b]>> : b \in Exists}
           q == [req[p] EXCEPT !.pc = "listResults", !.bands = B]
<1>1. /\ req' = [req EXCEPT ![p] = q] /\ Kept
      /\ UNCHANGED <<test, seen, tuned>>
  BY DEF ListBands, Kept
<1>2. B \in SUBSET (BandIds \X Row)
  BY DEF IInv, TypeOK, Exists
<1>3. \A x \in B : x[1] \in used /\ band[x[1]] = x[2]
  BY DEF IInv
<1> HIDE DEF B
<1>4. q \in Request /\ q.pc = "listResults" /\ q.bands = B
  BY <1>2, RequestRow DEF Request
<1> HIDE DEF q
<1>5. Sound(q)
  BY <1>3, <1>4 DEF Sound
<1> QED
  BY <1>1, <1>4, <1>5, SameOthers, MoveStep

LEMMA ListResultsStep ==
  ASSUME IInv, NEW p \in Requests, ListResults(p)
  PROVE  IInv'
<1> DEFINE T == {r \in stored : level[r] = None}
           q == [req[p] EXCEPT !.pc = "backfill", !.todo = T, !.listed = stored]
<1>1. /\ req' = [req EXCEPT ![p] = q] /\ Kept
      /\ UNCHANGED <<test, seen, tuned>>
  BY DEF ListResults, Kept
<1>2. T \in SUBSET Results /\ stored \in SUBSET Results
  BY DEF IInv, TypeOK
<1> HIDE DEF T
<1>3. q \in Request /\ q.pc = "backfill" /\ q.bands = req[p].bands
  BY <1>2, RequestRow DEF Request
<1> HIDE DEF q
<1>4. Sound(q)
  BY <1>3, RequestRow DEF Sound
<1> QED
  BY <1>1, <1>3, <1>4, SameOthers, MoveStep

LEMMA ArchiveStep ==
  ASSUME IInv, ArchiveTest
  PROVE  IInv'
<1>1. Kept /\ Others
  BY DEF ArchiveTest, Kept, Others, IInv, TypeOK
<1>2. TypeOK'
  BY <1>1 DEF ArchiveTest, IInv, TypeOK, Kept, Others
<1>3. ASSUME NEW x \in Requests PROVE Sound(req[x])'
  <2>1. PICK s \in Request : s = req[x] /\ s = req'[x] /\ Sound(s)
    BY RequestRow DEF ArchiveTest
  <2>2. Sound(s)'
    BY <1>1, <2>1, KeptHolds, SoundOn DEF IInv
  <2> QED
    BY <2>1, <2>2 DEF Sound
<1> QED
  BY <1>1, <1>2, <1>3, KeptHolds DEF IInv

-----------------------------------------------------------------------------
(* Steps that write a row or a level.                                      *)

LEMMA WriteStep ==
  ASSUME IInv, Stable, Others,
         band' \in [BandIds -> Row \cup {None}],
         level' \in [Results -> BandIds \cup {None}],
         stored' \subseteq Results, used' \subseteq BandIds, edited' \subseteq used',
         NEW p \in Requests, NEW q \in Request, Sound(q)',
         req' = [req EXCEPT ![p] = q],
         Exists' \subseteq used', LevelsAreOfBands', BandIsMatchable',
         LevelIsJustified'
  PROVE  IInv'
<1>1. req' \in [Requests -> Request] /\ \A x \in Requests : Sound(req[x])'
  BY RequestsMove
<1>2. TypeOK'
  BY <1>1 DEF TypeOK, Others
<1> QED
  BY <1>1, <1>2 DEF IInv

(* Levels and results are left alone, and so are the bands they rest on.   *)
LEMMA LevelsStay ==
  ASSUME IInv, UNCHANGED <<level, stored>>,
         \A b \in Exists : b \in Exists',
         \A b \in Exists : b \notin edited' => b \notin edited /\ band'[b] = band[b]
  PROVE  LevelsAreOfBands' /\ LevelIsJustified'
<1>1. LevelsAreOfBands'
  BY DEF IInv, LevelsAreOfBands
<1>2. ASSUME NEW r \in stored, level[r] # None, level[r] \notin edited'
      PROVE  level[r] \in Exists' /\ Covers(band'[level[r]], RawScore[r], Total)
  <2>1. level[r] \in Exists
    BY <1>2 DEF IInv, TypeOK, LevelsAreOfBands
  <2> QED
    BY <1>2, <2>1 DEF IInv, LevelIsJustified
<1>3. LevelIsJustified'
  BY <1>2 DEF LevelIsJustified
<1> QED
  BY <1>1, <1>3

LEMMA InsertStep ==
  ASSUME IInv, NEW p \in Requests, NEW b \in BandIds, InsertBand(p, b)
  PROVE  IInv'
<1> DEFINE row == Written(NewRow, req[p].input)
<1>1. req[p].input \in Inputs /\ b \notin used
  BY RequestRow DEF InsertBand, Sound
<1>2. row \in Row /\ Matchable(row)
  BY <1>1, WrittenMatchable DEF NewRow, Bound
<1> HIDE DEF row
<1>3. /\ band' = [band EXCEPT ![b] = row] /\ used' = used \cup {b}
      /\ UNCHANGED <<test, level, stored, edited, seen>>
      /\ tuned' = (tuned \/ ~ Applying(p))
  BY DEF InsertBand, row
<1>4. band' \in [BandIds -> Row \cup {None}]
  BY <1>2, <1>3 DEF IInv, TypeOK
<1>5. \A c \in BandIds : c # b => band'[c] = band[c]
  BY <1>3 DEF IInv, TypeOK
<1>6. Exists \subseteq Exists' /\ Exists' \subseteq Exists \cup {b}
  BY <1>1, <1>5 DEF IInv, Exists
<1>7. Stable
  BY <1>1, <1>3, <1>5, <1>6 DEF Stable, Untouched, IInv, TypeOK
<1>8. LevelsAreOfBands' /\ LevelIsJustified'
  BY <1>1, <1>3, <1>5, <1>6, LevelsStay DEF IInv, Exists
<1>9. BandIsMatchable'
  <2>1. ASSUME NEW c \in Exists' PROVE Matchable(band'[c])
    <3>1. CASE c = b
      BY <1>2, <1>3, <3>1 DEF IInv, TypeOK
    <3>2. CASE c # b
      BY <1>5, <1>6, <3>2, MatchableIs DEF IInv, Exists
    <3> QED
      BY <3>1, <3>2
  <2> QED
    BY <2>1 DEF BandIsMatchable, Matchable
<1>10. Others
  BY <1>3 DEF IInv, TypeOK, Others
<1>11. PICK q \in Request : Sound(q) /\ req' = [req EXCEPT ![p] = q]
  <2>1. CASE Applying(p)
    <3>1. PICK q \in Request : q = [req[p] EXCEPT !.pc = "applyNext"] /\ Sound(q)
      BY GoesOn
    <3> QED
      BY <2>1, <3>1 DEF InsertBand, Goto
  <2>2. CASE ~ Applying(p)
    BY <2>2, IdleRow DEF InsertBand, Done
  <2> QED
    BY <2>1, <2>2
<1>12. Sound(q)'
  BY <1>7, <1>11, SoundOn DEF IInv
<1>13. /\ level' \in [Results -> BandIds \cup {None}] /\ stored' \subseteq Results
       /\ used' \subseteq BandIds /\ edited' \subseteq used' /\ Exists' \subseteq used'
  BY <1>3, <1>6 DEF IInv, TypeOK
<1> QED
  BY <1>4, <1>7, <1>8, <1>9, <1>10, <1>11, <1>12, <1>13, WriteStep

LEMMA UpdateStep ==
  ASSUME IInv, NEW p \in Requests, UpdateBand(p)
  PROVE  IInv'
<1>1. PICK b \in BandIds : b = req[p].band /\ b \in Exists
  BY DEF UpdateBand, Exists
<1> DEFINE row == Written(band[b], req[p].input)
<1>2. row \in Row /\ Matchable(row)
  <2>1. req[p].input \in Inputs
    BY RequestRow DEF UpdateBand, Sound
  <2>2. band[b] \in Row
    BY <1>1 DEF IInv, TypeOK, Exists
  <2> QED
    BY <2>1, <2>2, WrittenMatchable DEF Row
<1>3. /\ band' = [band EXCEPT ![b] = row] /\ edited' = edited \cup {b}
      /\ UNCHANGED <<test, level, stored, used, seen>>
      /\ tuned' = TRUE /\ req' = [req EXCEPT ![p] = Idle]
  BY <1>1 DEF UpdateBand, Done
<1> HIDE DEF row
<1>4. band' \in [BandIds -> Row \cup {None}]
  BY <1>2, <1>3 DEF IInv, TypeOK
<1>5. \A c \in BandIds : c # b => band'[c] = band[c]
  BY <1>3 DEF IInv, TypeOK
<1>6. Exists \subseteq Exists' /\ Exists' \subseteq used'
  BY <1>1, <1>2, <1>3, <1>5, NoneIsNoBand DEF IInv, TypeOK, Exists
<1>7. Stable
  BY <1>3, <1>5 DEF Stable, Untouched, Exists, IInv, TypeOK
<1>8. LevelsAreOfBands' /\ LevelIsJustified'
  <2>1. \A c \in Exists : c \notin edited' => c \notin edited /\ band'[c] = band[c]
    BY <1>3, <1>5 DEF Exists
  <2> QED
    BY <1>3, <1>6, <2>1, LevelsStay
<1>9. BandIsMatchable'
  <2>1. ASSUME NEW c \in Exists' PROVE Matchable(band'[c])
    <3>1. CASE c = b
      BY <1>2, <1>3, <3>1 DEF IInv, TypeOK
    <3>2. CASE c # b
      BY <1>5, <3>2, MatchableIs DEF IInv, Exists
    <3> QED
      BY <3>1, <3>2
  <2> QED
    BY <2>1 DEF BandIsMatchable, Matchable
<1>10. Others
  BY <1>3 DEF IInv, TypeOK, Others
<1>11. /\ level' \in [Results -> BandIds \cup {None}] /\ stored' \subseteq Results
       /\ used' \subseteq BandIds /\ edited' \subseteq used'
  BY <1>1, <1>3 DEF IInv, TypeOK
<1> QED
  BY <1>3, <1>4, <1>6, <1>7, <1>8, <1>9, <1>10, <1>11, IdleRow, WriteStep

LEMMA DeleteStep ==
  ASSUME IInv, NEW p \in Requests, DeleteBand(p)
  PROVE  IInv'
<1>1. PICK b \in BandIds : b = req[p].band /\ b \in Exists
  BY DEF DeleteBand, Exists
<1>2. /\ band' = [band EXCEPT ![b] = None]
      /\ level' = [r \in Results |-> IF level[r] = b THEN None ELSE level[r]]
      /\ UNCHANGED <<test, stored, used, edited, seen>>
      /\ tuned' = TRUE /\ req' = [req EXCEPT ![p] = Idle]
  BY <1>1 DEF DeleteBand, Done
<1>3. /\ band' \in [BandIds -> Row \cup {None}]
      /\ level' \in [Results -> BandIds \cup {None}]
  BY <1>2 DEF IInv, TypeOK
<1>4. \A c \in BandIds : c # b => band'[c] = band[c]
  BY <1>2 DEF IInv, TypeOK
<1>5. Exists' = Exists \ {b}
  BY <1>2, <1>4 DEF IInv, TypeOK, Exists
<1>6. Stable
  BY <1>2, <1>4, <1>5 DEF Stable, Untouched, IInv, TypeOK
<1>7. LevelsAreOfBands'
  BY <1>2, <1>5 DEF IInv, LevelsAreOfBands
<1>8. BandIsMatchable'
  BY <1>4, <1>5, MatchableIs DEF IInv, Exists, BandIsMatchable, Matchable
<1>9. LevelIsJustified'
  <2>1. ASSUME NEW r \in stored, level'[r] # None, level'[r] \notin edited
        PROVE  level'[r] \in Exists' /\ Covers(band'[level'[r]], RawScore[r], Total)
    <3>1. level'[r] = level[r] /\ level[r] # b /\ level[r] \in Exists
      BY <1>2, <2>1 DEF IInv, TypeOK, LevelsAreOfBands
    <3>2. band'[level[r]] = band[level[r]]
      BY <1>4, <3>1 DEF Exists
    <3> QED
      BY <1>5, <2>1, <3>1, <3>2 DEF IInv, LevelIsJustified
  <2> QED
    BY <1>2, <2>1 DEF LevelIsJustified
<1>10. Others
  BY <1>2 DEF IInv, TypeOK, Others
<1>11. /\ stored' \subseteq Results /\ Exists' \subseteq used'
       /\ used' \subseteq BandIds /\ edited' \subseteq used'
  BY <1>2, <1>5 DEF IInv, TypeOK
<1> QED
  BY <1>2, <1>3, <1>6, <1>7, <1>8, <1>9, <1>10, <1>11, IdleRow, WriteStep

(* A result gets a level that is none, or that of a band that covers it    *)
(* unless it was edited.                                                   *)
LEMMA LevelStep ==
  ASSUME IInv, UNCHANGED <<test, band, history>>,
         NEW r \in Results, NEW b \in BandIds \cup {None},
         b = None \/ b \in Exists,
         b # None => (b \notin edited => Covers(band[b], RawScore[r], Total)),
         level' = [level EXCEPT ![r] = b], stored' \subseteq stored \cup {r},
         NEW p \in Requests, NEW q \in Request, Sound(q),
         req' = [req EXCEPT ![p] = q]
  PROVE  IInv'
<1>1. Exists' = Exists /\ Others
  BY DEF Exists, Others, IInv, TypeOK
<1>2. Stable
  BY <1>1 DEF Stable, Untouched
<1>3. Sound(q)'
  BY <1>2, SoundOn DEF IInv
<1>4. level' \in [Results -> BandIds \cup {None}] /\ level'[r] = b
  BY DEF IInv, TypeOK
<1>5. \A x \in Results : x # r => level'[x] = level[x]
  BY DEF IInv, TypeOK
<1>6. LevelsAreOfBands'
  BY <1>1, <1>4, <1>5 DEF IInv, LevelsAreOfBands
<1>7. BandIsMatchable'
  BY <1>1 DEF IInv, BandIsMatchable
<1>8. LevelIsJustified'
  <2>1. ASSUME NEW x \in stored', level'[x] # None, level'[x] \notin edited
        PROVE  level'[x] \in Exists' /\ Covers(band'[level'[x]], RawScore[x], Total)
    <3>1. CASE x = r
      BY <1>1, <1>4, <2>1, <3>1
    <3>2. CASE x # r
      BY <1>1, <1>5, <2>1, <3>2 DEF IInv, TypeOK, LevelIsJustified
    <3> QED
      BY <3>1, <3>2
  <2> QED
    BY <2>1 DEF LevelIsJustified
<1>9. /\ band' \in [BandIds -> Row \cup {None}] /\ stored' \subseteq Results
      /\ used' \subseteq BandIds /\ edited' \subseteq used' /\ Exists' \subseteq used'
  BY <1>1 DEF IInv, TypeOK
<1> QED
  BY <1>1, <1>2, <1>3, <1>4, <1>6, <1>7, <1>8, <1>9, WriteStep

LEMMA CommitStep ==
  ASSUME IInv, NEW p \in Requests, CommitResult(p)
  PROVE  IInv'
<1>1. PICK r \in Results : r = req[p].result
  BY RequestRow DEF CommitResult, Sound
<1>2. PICK b \in BandIds \cup {None} : b = req[p].band /\ (b = None \/ b \in Exists)
  BY RequestRow DEF CommitResult, Request
<1>3. b # None => (b \notin edited => Covers(band[b], RawScore[r], Total))
  BY <1>1, <1>2, RequestRow DEF CommitResult, Sound, Untouched
<1>4. /\ UNCHANGED <<test, band, history>> /\ stored' = stored \cup {r}
      /\ level' = [level EXCEPT ![r] = b] /\ req' = [req EXCEPT ![p] = Idle]
  BY <1>1, <1>2 DEF CommitResult, Done
<1> QED
  BY <1>2, <1>3, <1>4, IdleRow, LevelStep

LEMMA BackfillStep ==
  ASSUME IInv, NEW p \in Requests, NEW r \in Results, BackfillResult(p, r)
  PROVE  IInv'
<1> DEFINE q == [req[p] EXCEPT !.todo = @ \ {r}]
<1>1. /\ req' = [req EXCEPT ![p] = q] /\ UNCHANGED <<test, band, stored, history>>
  BY DEF BackfillResult
<1>2. /\ q \in Request /\ q.pc = "backfill" /\ q.bands = req[p].bands
  BY RequestRow DEF BackfillResult, Request
<1> HIDE DEF q
<1>3. Sound(q)
  BY <1>2, RequestRow DEF Sound
<1>4. CASE UNCHANGED level
  <2>1. Kept /\ UNCHANGED <<test, seen, tuned>>
    BY <1>1, <1>4 DEF Kept
  <2> QED
    BY <1>1, <1>2, <1>3, <2>1, SameOthers, MoveStep
<1>5. ASSUME NEW x \in BackfillMatch(r, req[p].bands), x[1] \in Exists,
             level' = [level EXCEPT ![r] = x[1]]
      PROVE  IInv'
  <2>1. x \in req[p].bands /\ CoversRaw(x[2], RawScore[r])
    BY <1>5 DEF BackfillMatch
  <2>2. x[1] \notin edited => band[x[1]] = x[2]
    BY <1>5, <2>1, RequestRow DEF Sound, Untouched
  <2>3. x[1] \in BandIds /\ x[1] # None
    BY <1>5, NoneIsNoRow DEF Exists
  <2>4. x[1] \notin edited => Covers(band[x[1]], RawScore[r], Total)
    BY <2>1, <2>2 DEF Covers
  <2>5. PICK b \in BandIds : b = x[1]
    BY <2>3
  <2> QED
    BY <1>1, <1>2, <1>3, <1>5, <2>3, <2>4, <2>5, LevelStep
<1> QED
  BY <1>4, <1>5 DEF BackfillResult

-----------------------------------------------------------------------------
LEMMA InitIInv == Init => IInv
<1> SUFFICES ASSUME Init PROVE IInv
  OBVIOUS
<1>1. TypeOK
  BY IdleRow DEF Init, TypeOK
<1>2. Exists = {}
  BY DEF Init, Exists
<1>3. \A p \in Requests : Sound(req[p])
  BY IdleRow DEF Init
<1>4. LevelsAreOfBands /\ BandIsMatchable /\ LevelIsJustified
  BY <1>2 DEF Init, LevelsAreOfBands, BandIsMatchable, LevelIsJustified
<1> QED
  BY <1>1, <1>2, <1>3, <1>4 DEF IInv

LEMMA NextIInv == IInv /\ [Next]_vars => IInv'
<1> SUFFICES ASSUME IInv, [Next]_vars PROVE IInv'
  OBVIOUS
<1>1. ASSUME NEW p \in Requests, Manage(p) PROVE IInv'
  BY <1>1, SubmitStep, CheckTestStep, InsertStep, CheckOwnerStep, UpdateStep,
     DeleteStep DEF Manage
<1>2. ASSUME NEW p \in Requests, Apply(p) PROVE IInv'
  BY <1>2, ReadBandsStep, NextBandStep, ListBandsStep, ListResultsStep,
     FinishBackfillStep, BackfillStep DEF Apply
<1>3. ASSUME NEW p \in Requests,
             \/ CommitResult(p) \/ GiveUp(p) \/ \E r \in Results : ScoreAttempt(p, r)
      PROVE  IInv'
  BY <1>3, CommitStep, GiveUpStep, ScoreStep
<1>4. CASE UNCHANGED vars
  <2>1. Kept /\ Others
    BY <1>4 DEF Kept, Others, IInv, TypeOK
  <2>2. TypeOK'
    BY <1>4 DEF IInv, TypeOK
  <2>3. \A x \in Requests : Sound(req[x])'
    BY <1>4 DEF IInv, Sound, Untouched, Exists
  <2> QED
    BY <2>1, <2>2, <2>3, KeptHolds DEF IInv
<1> QED
  BY <1>1, <1>2, <1>3, <1>4, ArchiveStep DEF Next

(* The inductive invariant holds in every reachable state.                 *)
THEOREM Invariance == Spec => []IInv
  BY InitIInv, NextIInv, PTL DEF Spec

(* Type correctness of the bands, the levels and the requests.             *)
THEOREM TypeCorrect == Spec => []TypeOK
<1>1. IInv => TypeOK
  BY DEF IInv
<1> QED
  BY <1>1, Invariance, PTL

(* Every band that exists can be matched by a score, however many forms    *)
(* are saved over it at once (createPlacementBand, updatePlacementBand).   *)
THEOREM BandsMatch == Spec => []BandIsMatchable
<1>1. IInv => BandIsMatchable
  BY DEF IInv
<1> QED
  BY <1>1, Invariance, PTL

(* A stored level is the level of a band that covers the score, unless the *)
(* band was edited since, although finalizeAttempt and the backfill write  *)
(* what they matched queries ago.                                          *)
THEOREM LevelsJustified == Spec => []LevelIsJustified
<1>1. IInv => LevelIsJustified
  BY DEF IInv
<1> QED
  BY <1>1, Invariance, PTL

-----------------------------------------------------------------------------
(* As long as nobody tunes the bands: how far an application has come, and *)
(* what it has placed.                                                     *)

Ranges       == 1 .. Len(Institutional)
InRange(r, n) == RawScore[r] \in Institutional[n].min .. Institutional[n].max
Created(n)   == \E b \in Exists : band[b] = InstitutionalRow(n)
Placed(r)    == (\E n \in Ranges : InRange(r, n)) => level[r] # None

(* Request q applies the bands, and has created this many of them.         *)
CreatedSoFar(q) ==
  /\ q.pc \in {"applyNext", "listBands", "listResults", "backfill"} => q.next > 0
  /\ q.next > 0 /\ q.pc \in {"create", "insert"}
       => q.next \in Ranges /\ q.input = InstitutionalInput(q.next)
  /\ q.next \in Ranges =>
       \A n \in Ranges : n < q.next \/ (n = q.next /\ q.pc \notin {"create", "insert"})
                           => Created(n)
  /\ q.next \in Ranges /\ q.pc \in {"listBands", "listResults", "backfill"}
       => q.next = Len(Institutional)

(* It has listed them all, if it is whole, and placed what it has passed.  *)
PlacedSoFar(q) ==
  /\ q.next \in Ranges /\ q.pc \in {"listResults", "backfill"} =>
       \A n \in Ranges : \E x \in q.bands : x[2] = InstitutionalRow(n)
  /\ q.pc = "backfill" =>
       /\ q.listed \subseteq stored
       /\ Whole(q) => \A r \in q.listed \ q.todo : Placed(r)

UntunedRows == /\ edited = {}
               /\ \A b \in Exists : \E n \in Ranges : band[b] = InstitutionalRow(n)
               /\ seen \subseteq stored /\ \A r \in seen : Placed(r)

TInv == ~ tuned => /\ UntunedRows
                   /\ \A p \in Requests : CreatedSoFar(req[p]) /\ PlacedSoFar(req[p])

(* Bands are only added and results only placed.                           *)
Grows == /\ \A n \in Ranges : Created(n) => Created(n)'
         /\ stored \subseteq stored' /\ \A r \in stored : Placed(r) => Placed(r)'

LEMMA InstitutionalRowIs ==
  ASSUME NEW n \in Ranges
  PROVE  /\ InstitutionalRow(n).scoringMode = "RAW_SCORE"
         /\ InstitutionalRow(n).minRawScore = Institutional[n].min
         /\ InstitutionalRow(n).maxRawScore = Institutional[n].max
         /\ InstitutionalRow(n).label = Institutional[n].label
         /\ {Institutional[n].min, Institutional[n].max} \subseteq Nat
         /\ \A r \in Results :
              /\ InRange(r, n) <=> CoversRaw(InstitutionalRow(n), RawScore[r])
              /\ InRange(r, n) <=> Covers(InstitutionalRow(n), RawScore[r], Total)
<1>1. /\ InstitutionalRow(n).scoringMode = "RAW_SCORE"
      /\ InstitutionalRow(n).minRawScore = Institutional[n].min
      /\ InstitutionalRow(n).maxRawScore = Institutional[n].max
      /\ InstitutionalRow(n).label = Institutional[n].label
  BY DEF InstitutionalRow, Written, InstitutionalInput
<1>2. Institutional[n].min \in Nat /\ Institutional[n].max \in Nat
  BY InstitutionalAssumption DEF Ranges
<1>3. Institutional[n].min # None /\ Institutional[n].max # None
  BY <1>2, NoneIsNoNumber
<1> HIDE DEF InstitutionalRow
<1>4. ASSUME NEW r \in Results
      PROVE  /\ InRange(r, n) <=> CoversRaw(InstitutionalRow(n), RawScore[r])
             /\ ~ CoversPercentage(InstitutionalRow(n), RawScore[r], Total)
  <2>1. RawScore[r] \in Int
    <3>1. RawScore[r] \in 0 .. Total
      BY ScoresAssumption
    <3> QED
      BY <3>1
  <2> QED
    BY <1>1, <1>2, <1>3, <2>1 DEF InRange, CoversRaw, CoversPercentage
<1> QED
  BY <1>1, <1>2, <1>4 DEF Covers

LEMMA SoFarStays ==
  ASSUME NEW q, Grows, CreatedSoFar(q), PlacedSoFar(q)
  PROVE  CreatedSoFar(q)' /\ PlacedSoFar(q)'
<1>1. CreatedSoFar(q)'
  BY DEF Grows, CreatedSoFar
<1>2. PlacedSoFar(q)'
  BY DEF Grows, PlacedSoFar, Whole
<1> QED
  BY <1>1, <1>2

LEMMA IdleSoFar == /\ CreatedSoFar(Idle) /\ PlacedSoFar(Idle)
                   /\ CreatedSoFar(Idle)' /\ PlacedSoFar(Idle)'
<1>1. Idle.next = 0 /\ Idle.pc = "idle" /\ 0 \notin Ranges /\ ~ (0 > 0)
  BY DEF Idle, Ranges
<1> QED
  BY <1>1 DEF CreatedSoFar, PlacedSoFar

(* The request that moves, and everybody else.                             *)
LEMMA TMove ==
  ASSUME IInv, TInv, ~ tuned, Grows, UntunedRows', NEW p \in Requests, NEW q,
         req' = [req EXCEPT ![p] = q], CreatedSoFar(q)', PlacedSoFar(q)'
  PROVE  TInv'
<1>1. ASSUME NEW x \in Requests PROVE CreatedSoFar(req[x])' /\ PlacedSoFar(req[x])'
  <2>1. CASE x = p
    <3>1. req'[x] = q
      BY <2>1 DEF IInv, TypeOK
    <3> QED
      BY <3>1 DEF CreatedSoFar, PlacedSoFar, Whole
  <2>2. CASE x # p
    <3>1. PICK s : s = req[x] /\ s = req'[x]
      BY <2>2 DEF IInv, TypeOK
    <3>2. CreatedSoFar(s) /\ PlacedSoFar(s)
      BY <3>1 DEF TInv
    <3>3. CreatedSoFar(s)' /\ PlacedSoFar(s)'
      BY <3>2, SoFarStays
    <3> QED
      BY <3>1, <3>3 DEF CreatedSoFar, PlacedSoFar, Whole
  <2> QED
    BY <2>1, <2>2
<1> QED
  BY <1>1 DEF TInv

LEMMA KeptGrows ==
  ASSUME Kept
  PROVE  Grows /\ (UntunedRows /\ seen' = seen => UntunedRows')
BY DEF Kept, Grows, Created, Placed, Exists, UntunedRows

LEMMA TRead ==
  ASSUME IInv, TInv, ~ tuned, Kept, seen' = seen, NEW p \in Requests, NEW q,
         req' = [req EXCEPT ![p] = q], CreatedSoFar(q), PlacedSoFar(q)
  PROVE  TInv'
BY KeptGrows, SoFarStays, TMove DEF TInv

-----------------------------------------------------------------------------
(* One lemma for each step.                                                *)

LEMMA TEnds ==
  ASSUME IInv, TInv, ~ tuned, Kept, seen' = seen, NEW p \in Requests, Done(p)
  PROVE  TInv'
BY IdleSoFar, TRead DEF Done

LEMMA TOwn ==
  ASSUME NEW q, q.next = 0, q.pc \in {"create", "update", "delete", "commit"}
  PROVE  CreatedSoFar(q) /\ PlacedSoFar(q)
<1>1. 0 \notin Ranges /\ ~ (0 > 0)
  BY DEF Ranges
<1> QED
  BY <1>1 DEF CreatedSoFar, PlacedSoFar

(* Requests of single bands and submissions are not applications.          *)
LEMMA TBegin ==
  ASSUME IInv, TInv, ~ tuned, NEW p \in Requests,
         \/ \E input \in FormInputs : SubmitNewBand(p, input)
         \/ \E b \in BandIds : CheckBandOwner(p, b)
         \/ \E r \in Results : ScoreAttempt(p, r)
  PROVE  TInv'
<1>1. Kept /\ seen' = seen
  BY DEF SubmitNewBand, CheckBandOwner, ScoreAttempt, Kept
<1>2. ASSUME NEW input, req' = [req EXCEPT ![p] = [Idle EXCEPT !.pc = "create",
                                                               !.input = input]]
      PROVE  TInv'
  <2>1. PICK q : q = [Idle EXCEPT !.pc = "create", !.input = input]
    OBVIOUS
  <2>2. q.next = 0 /\ q.pc = "create"
    BY <2>1 DEF Idle
  <2> QED
    BY <1>1, <1>2, <2>1, <2>2, TOwn, TRead
<1>3. ASSUME NEW input, NEW b, req' = [req EXCEPT ![p] =
                [Idle EXCEPT !.pc = "update", !.band = b, !.input = input]]
      PROVE  TInv'
  <2>1. PICK q : q = [Idle EXCEPT !.pc = "update", !.band = b, !.input = input]
    OBVIOUS
  <2>2. q.next = 0 /\ q.pc = "update"
    BY <2>1 DEF Idle
  <2> QED
    BY <1>1, <1>3, <2>1, <2>2, TOwn, TRead
<1>4. ASSUME NEW b, req' = [req EXCEPT ![p] = [Idle EXCEPT !.pc = "delete", !.band = b]]
      PROVE  TInv'
  <2>1. PICK q : q = [Idle EXCEPT !.pc = "delete", !.band = b]
    OBVIOUS
  <2>2. q.next = 0 /\ q.pc = "delete"
    BY <2>1 DEF Idle
  <2> QED
    BY <1>1, <1>4, <2>1, <2>2, TOwn, TRead
<1>5. ASSUME NEW r, NEW b, req' = [req EXCEPT ![p] =
                [Idle EXCEPT !.pc = "commit", !.result = r, !.band = b]]
      PROVE  TInv'
  <2>1. PICK q : q = [Idle EXCEPT !.pc = "commit", !.result = r, !.band = b]
    OBVIOUS
  <2>2. q.next = 0 /\ q.pc = "commit"
    BY <2>1 DEF Idle
  <2> QED
    BY <1>1, <1>5, <2>1, <2>2, TOwn, TRead
<1> QED
  BY <1>2, <1>3, <1>4, <1>5 DEF SubmitNewBand, CheckBandOwner, ScoreAttempt

LEMMA TCheckTest ==
  ASSUME IInv, TInv, ~ tuned, NEW p \in Requests, CheckTest(p)
  PROVE  TInv'
<1>1. PICK q : q = [req[p] EXCEPT !.pc = "insert"]
  OBVIOUS
<1>2. /\ q.pc = "insert" /\ req[p].pc = "create"
      /\ q.next = req[p].next /\ q.input = req[p].input
  BY <1>1, RequestRow DEF CheckTest, Request
<1>3. CreatedSoFar(req[p])
  BY DEF TInv
<1>4. CreatedSoFar(q) /\ PlacedSoFar(q)
  BY <1>2, <1>3 DEF CreatedSoFar, PlacedSoFar
<1>5. Kept /\ seen' = seen /\ req' = [req EXCEPT ![p] = q]
  BY <1>1 DEF CheckTest, Goto, Kept
<1> QED
  BY <1>4, <1>5, TRead

LEMMA TReadBands ==
  ASSUME IInv, TInv, ~ tuned, NEW p \in Requests, ReadTestForBands(p)
  PROVE  TInv'
<1>1. Kept /\ seen' = seen
  BY DEF ReadTestForBands, Kept
<1>2. Len(Institutional) \in Nat \ {0} /\ 1 \in Ranges
  BY InstitutionalAssumption DEF Ranges
<1>3. CASE req' = [req EXCEPT ![p] = [Idle EXCEPT !.pc = "create", !.next = 1,
                                                  !.input = InstitutionalInput(1)]]
  <2>1. PICK q : q = [Idle EXCEPT !.pc = "create", !.next = 1,
                                  !.input = InstitutionalInput(1)]
    OBVIOUS
  <2>2. q.next = 1 /\ q.pc = "create" /\ q.input = InstitutionalInput(1)
    BY <2>1 DEF Idle
  <2>3. \A n \in Ranges : ~ (n < 1)
    BY <1>2 DEF Ranges
  <2>4. CreatedSoFar(q) /\ PlacedSoFar(q)
    BY <1>2, <2>2, <2>3 DEF CreatedSoFar, PlacedSoFar
  <2> QED
    BY <1>1, <1>3, <2>1, <2>4, TRead
<1>4. CASE req' = [req EXCEPT ![p] = [Idle EXCEPT !.pc = "listBands",
                                                  !.next = Len(Institutional) + 1]]
  <2>1. PICK q : q = [Idle EXCEPT !.pc = "listBands", !.next = Len(Institutional) + 1]
    OBVIOUS
  <2>2. q.next = Len(Institutional) + 1 /\ q.pc = "listBands"
    BY <2>1 DEF Idle
  <2>3. q.next \notin Ranges /\ q.next > 0
    BY <1>2, <2>2 DEF Ranges
  <2>4. CreatedSoFar(q) /\ PlacedSoFar(q)
    BY <2>2, <2>3 DEF CreatedSoFar, PlacedSoFar
  <2> QED
    BY <1>1, <1>4, <2>1, <2>4, TRead
<1> QED
  BY <1>3, <1>4 DEF ReadTestForBands

LEMMA TNextBand ==
  ASSUME IInv, TInv, ~ tuned, NEW p \in Requests, NextInstitutionalBand(p)
  PROVE  TInv'
<1>1. Kept /\ seen' = seen /\ req[p].pc = "applyNext" /\ req[p] \in Request
  BY RequestRow DEF NextInstitutionalBand, Kept
<1>2. /\ Len(Institutional) \in Nat \ {0} /\ req[p].next \in Nat /\ req[p].next > 0
      /\ CreatedSoFar(req[p])
  BY <1>1, InstitutionalAssumption DEF TInv, CreatedSoFar, Request
<1>3. CASE req[p].next + 1 <= Len(Institutional)
  <2> DEFINE n == req[p].next + 1
             i == InstitutionalInput(n)
  <2>1. PICK q : q = [req[p] EXCEPT !.pc = "create", !.next = n, !.input = i]
    OBVIOUS
  <2>2. n \in Ranges /\ req[p].next \in Ranges
    BY <1>2, <1>3 DEF Ranges
  <2>3. q.pc = "create" /\ q.next = n /\ q.input = i
    <3> HIDE DEF n, i
    <3> QED
      BY <1>1, <2>1 DEF Request
  <2>4. \A m \in Ranges : m < n => m < req[p].next \/ m = req[p].next
    BY <1>2 DEF Ranges
  <2>5. \A m \in Ranges : m < n => Created(m)
    BY <1>1, <1>2, <2>2, <2>4 DEF CreatedSoFar
  <2>6. req' = [req EXCEPT ![p] = q]
    BY <1>3, <2>1 DEF NextInstitutionalBand
  <2> HIDE DEF n
  <2>7. CreatedSoFar(q) /\ PlacedSoFar(q)
    BY <2>2, <2>3, <2>5 DEF CreatedSoFar, PlacedSoFar
  <2> QED
    BY <1>1, <2>6, <2>7, TRead
<1>4. CASE ~ (req[p].next + 1 <= Len(Institutional))
  <2>1. PICK q : q = [req[p] EXCEPT !.pc = "listBands"]
    OBVIOUS
  <2>2. q.pc = "listBands" /\ q.next = req[p].next
    BY <1>1, <2>1 DEF Request
  <2>3. q.next \in Ranges => q.next = Len(Institutional)
    BY <1>2, <1>4, <2>2 DEF Ranges
  <2>4. CreatedSoFar(q) /\ PlacedSoFar(q)
    BY <1>1, <1>2, <2>2, <2>3 DEF CreatedSoFar, PlacedSoFar
  <2>5. req' = [req EXCEPT ![p] = q]
    BY <1>4, <2>1 DEF NextInstitutionalBand, Goto
  <2> QED
    BY <1>1, <2>4, <2>5, TRead
<1> QED
  BY <1>3, <1>4

LEMMA TListBands ==
  ASSUME IInv, TInv, ~ tuned, NEW p \in Requests, ListBands(p)
  PROVE  TInv'
<1> DEFINE B == {<<b, band[b]>> : b \in Exists}
<1>1. PICK q : q = [req[p] EXCEPT !.pc = "listResults", !.bands = B]
  OBVIOUS
<1>2. /\ req[p] \in Request /\ req[p].pc = "listBands" /\ Kept /\ seen' = seen
      /\ req' = [req EXCEPT ![p] = q]
  BY <1>1, RequestRow DEF ListBands, Kept
<1>3. ASSUME NEW n \in Ranges, Created(n)
      PROVE  \E x \in B : x[2] = InstitutionalRow(n)
  <2>1. PICK b \in Exists : band[b] = InstitutionalRow(n)
    BY <1>3 DEF Created
  <2>2. <<b, band[b]>> \in B /\ <<b, band[b]>>[2] = InstitutionalRow(n)
    BY <2>1
  <2> QED
    BY <2>2
<1> HIDE DEF B
<1>4. q.pc = "listResults" /\ q.next = req[p].next /\ q.bands = B
  BY <1>1, <1>2 DEF Request
<1>5. CreatedSoFar(req[p])
  BY DEF TInv
<1>6. q.next \in Ranges => \A n \in Ranges : Created(n)
  <2>1. \A n \in Ranges : n < Len(Institutional) \/ n = Len(Institutional)
    BY InstitutionalAssumption DEF Ranges
  <2> QED
    BY <1>2, <1>4, <1>5, <2>1 DEF CreatedSoFar
<1>7. CreatedSoFar(q)
  BY <1>2, <1>4, <1>5 DEF CreatedSoFar
<1>8. PlacedSoFar(q)
  BY <1>3, <1>4, <1>6 DEF PlacedSoFar
<1> QED
  BY <1>2, <1>7, <1>8, TRead

LEMMA TListResults ==
  ASSUME IInv, TInv, ~ tuned, NEW p \in Requests, ListResults(p)
  PROVE  TInv'
<1> DEFINE T == {r \in stored : level[r] = None}
<1>1. PICK q : q = [req[p] EXCEPT !.pc = "backfill", !.todo = T, !.listed = stored]
  OBVIOUS
<1>2. /\ req[p] \in Request /\ req[p].pc = "listResults" /\ Kept /\ seen' = seen
      /\ req' = [req EXCEPT ![p] = q]
  BY <1>1, RequestRow DEF ListResults, Kept
<1>3. \A r \in stored \ T : Placed(r)
  BY DEF Placed
<1> HIDE DEF T
<1>4. /\ q.pc = "backfill" /\ q.next = req[p].next /\ q.bands = req[p].bands
      /\ q.todo = T /\ q.listed = stored
  BY <1>1, <1>2 DEF Request
<1>5. CreatedSoFar(req[p]) /\ PlacedSoFar(req[p])
  BY DEF TInv
<1>6. CreatedSoFar(q)
  BY <1>2, <1>4, <1>5 DEF CreatedSoFar
<1>7. PlacedSoFar(q)
  BY <1>2, <1>3, <1>4, <1>5 DEF PlacedSoFar
<1> QED
  BY <1>2, <1>6, <1>7, TRead

LEMMA TFinish ==
  ASSUME IInv, TInv, ~ tuned, NEW p \in Requests, FinishBackfill(p)
  PROVE  TInv'
<1>1. Kept /\ req[p].pc = "backfill" /\ req[p].todo = {}
  BY DEF FinishBackfill, Kept
<1>2. PlacedSoFar(req[p])
  BY DEF TInv
<1>3. \A r \in seen' : r \in stored /\ Placed(r)
  BY <1>1, <1>2 DEF FinishBackfill, PlacedSoFar, TInv, UntunedRows
<1>4. UntunedRows'
  BY <1>1, <1>3 DEF TInv, UntunedRows, Kept, Exists, Placed
<1> QED
  BY <1>1, <1>4, KeptGrows, IdleSoFar, TMove DEF FinishBackfill, Done

(* An application adds its band; a band of anybody else's tunes them.      *)
LEMMA TInsert ==
  ASSUME IInv, TInv, ~ tuned', NEW p \in Requests, NEW b \in BandIds, InsertBand(p, b)
  PROVE  TInv'
<1> DEFINE row == Written(NewRow, req[p].input)
<1>1. /\ ~ tuned /\ req[p].next > 0 /\ req[p].pc = "insert" /\ b \notin Exists
      /\ req[p] \in Request
  BY RequestRow DEF InsertBand, Applying, IInv
<1>2. /\ CreatedSoFar(req[p]) /\ UntunedRows
  BY <1>1 DEF TInv
<1>3. PICK m \in Ranges : m = req[p].next /\ row = InstitutionalRow(m)
  BY <1>1, <1>2 DEF CreatedSoFar, InstitutionalRow
<1>4. row # None
  <2>1. req[p].input \in Inputs
    BY <1>1, RequestRow DEF Sound
  <2>2. row \in Row
    BY <2>1, WrittenMatchable DEF NewRow, Bound
  <2> QED
    BY <2>2, NoneIsNoBand
<1>5. /\ band' = [band EXCEPT ![b] = row]
      /\ UNCHANGED <<level, stored, edited, seen>>
      /\ req' = [req EXCEPT ![p].pc = "applyNext"]
  BY <1>1 DEF InsertBand, Goto, Applying
<1> HIDE DEF row
<1>6. /\ band'[b] = row /\ b \in Exists'
      /\ \A c \in Exists : c \in Exists' /\ band'[c] = band[c]
      /\ \A c \in Exists' : c = b \/ c \in Exists
  BY <1>1, <1>4, <1>5 DEF IInv, TypeOK, Exists
<1>7. ASSUME NEW n \in Ranges, Created(n) PROVE Created(n)'
  <2>1. PICK c \in Exists : band[c] = InstitutionalRow(n)
    BY <1>7 DEF Created
  <2>2. c \in Exists' /\ band'[c] = InstitutionalRow(n)
    BY <1>6, <2>1
  <2> QED
    BY <2>2 DEF Created
<1>8. Grows
  BY <1>5, <1>7 DEF Grows, Placed
<1>9. UntunedRows'
  BY <1>2, <1>3, <1>5, <1>6 DEF UntunedRows, Placed
<1>10. Created(m)'
  BY <1>3, <1>6 DEF Created
<1>11. PICK q : q = [req[p] EXCEPT !.pc = "applyNext"]
  OBVIOUS
<1>12. q.pc = "applyNext" /\ q.next = m
  BY <1>1, <1>3, <1>11 DEF Request
<1>13. \A n \in Ranges : n < m => Created(n)
  BY <1>2, <1>3 DEF CreatedSoFar
<1>14. \A n \in Ranges : n < m \/ n = m => Created(n)'
  BY <1>7, <1>10, <1>13
<1>15. CreatedSoFar(q)' /\ PlacedSoFar(q)'
  BY <1>1, <1>3, <1>12, <1>14 DEF CreatedSoFar, PlacedSoFar
<1> QED
  BY <1>1, <1>5, <1>8, <1>9, <1>11, <1>15, TMove

(* A result that was not there gets whatever its submission had matched.   *)
LEMMA TCommit ==
  ASSUME IInv, TInv, ~ tuned, NEW p \in Requests, CommitResult(p)
  PROVE  TInv'
<1>1. PICK r \in Results : r = req[p].result /\ r \notin stored
  BY RequestRow DEF CommitResult, Sound
<1>2. /\ UNCHANGED <<band, seen, edited>> /\ stored' = stored \cup {r}
      /\ level' = [level EXCEPT ![r] = req[p].band] /\ req' = [req EXCEPT ![p] = Idle]
  BY <1>1 DEF CommitResult, Done
<1>3. \A x \in stored : level'[x] = level[x]
  BY <1>1, <1>2 DEF IInv, TypeOK
<1>4. Grows
  BY <1>2, <1>3 DEF Grows, Created, Exists, Placed
<1>5. UntunedRows'
  BY <1>2, <1>3 DEF TInv, UntunedRows, Exists, Placed
<1> QED
  BY <1>2, <1>4, <1>5, IdleSoFar, TMove

(* A whole application finds the band of a result it passes.               *)
LEMMA TBackfill ==
  ASSUME IInv, TInv, ~ tuned, NEW p \in Requests, NEW r \in Results, BackfillResult(p, r)
  PROVE  TInv'
<1>1. PICK q : q = [req[p] EXCEPT !.todo = @ \ {r}]
  OBVIOUS
<1>2. /\ req[p] \in Request /\ req[p].pc = "backfill"
      /\ req' = [req EXCEPT ![p] = q] /\ UNCHANGED <<band, stored, edited, seen>>
  BY <1>1, RequestRow DEF BackfillResult
<1>3. /\ q.pc = "backfill" /\ q.next = req[p].next /\ q.bands = req[p].bands
      /\ q.todo = req[p].todo \ {r} /\ q.listed = req[p].listed
  BY <1>1, <1>2 DEF Request
<1>4. CreatedSoFar(req[p]) /\ PlacedSoFar(req[p]) /\ UntunedRows
  BY DEF TInv
<1> DEFINE matching == BackfillMatch(r, req[p].bands)
<1>5. \/ matching = {} /\ UNCHANGED level
      \/ \E x \in matching : x[1] \in Exists /\ level' = [level EXCEPT ![r] = x[1]]
  BY DEF BackfillResult
<1>6. \A x \in Exists : x # None
  BY NoneIsNoRow DEF Exists
<1>7. \/ UNCHANGED level
      \/ level'[r] # None /\ \A x \in Results : x # r => level'[x] = level[x]
  <2> HIDE DEF matching
  <2> QED
    BY <1>5, <1>6 DEF IInv, TypeOK
<1>8. \A x \in stored : Placed(x) => Placed(x)'
  <2>1. stored \subseteq Results
    BY DEF IInv, TypeOK
  <2> QED
    BY <1>7, <2>1 DEF Placed
<1>9. Grows
  BY <1>2, <1>8 DEF Grows, Created, Exists
<1>10. UntunedRows'
  BY <1>2, <1>4, <1>8 DEF UntunedRows, Exists
<1>11. ASSUME Whole(q) PROVE Placed(r)'
  <2>1. ASSUME NEW n \in Ranges, InRange(r, n) PROVE level'[r] # None
    <3>1. \E x \in req[p].bands : x[2] = InstitutionalRow(n)
      <4>1. req[p].next <= Len(Institutional) => req[p].next \in Ranges
        BY <1>2, <1>4, InstitutionalAssumption DEF CreatedSoFar, Ranges, Request
      <4> QED
        BY <1>2, <1>3, <1>4, <1>11, <4>1 DEF PlacedSoFar, Whole, Ranges
    <3>2. matching # {}
      BY <2>1, <3>1, InstitutionalRowIs DEF BackfillMatch
    <3> HIDE DEF matching
    <3> QED
      BY <1>5, <1>6, <3>2 DEF IInv, TypeOK
  <2> QED
    BY <2>1 DEF Placed, InRange
<1>12. CreatedSoFar(q)
  BY <1>2, <1>3, <1>4 DEF CreatedSoFar
<1>13. CreatedSoFar(q)'
  BY <1>9, <1>12 DEF CreatedSoFar, Grows
<1>14. PlacedSoFar(q)'
  <2>1. q.next \in Ranges =>
          \A n \in Ranges : \E x \in q.bands : x[2] = InstitutionalRow(n)
    BY <1>2, <1>3, <1>4 DEF PlacedSoFar
  <2>2. q.listed \subseteq stored'
    BY <1>2, <1>3, <1>4 DEF PlacedSoFar
  <2>3. Whole(q) => \A x \in req[p].listed \ req[p].todo : x \in stored /\ Placed(x)
    BY <1>2, <1>3, <1>4 DEF PlacedSoFar, Whole
  <2>4. Whole(q) => \A x \in q.listed \ q.todo : Placed(x)'
    BY <1>3, <1>8, <1>11, <2>3
  <2> QED
    BY <1>3, <2>1, <2>2, <2>4 DEF PlacedSoFar, Whole
<1> QED
  BY <1>2, <1>9, <1>10, <1>13, <1>14, TMove

LEMMA InitTInv == Init => TInv
<1> SUFFICES ASSUME Init PROVE TInv
  OBVIOUS
<1>1. Exists = {} /\ \A p \in Requests : req[p] = Idle
  BY DEF Init, Exists
<1> QED
  BY <1>1, IdleSoFar DEF Init, TInv, UntunedRows

LEMMA NextTInv == IInv /\ TInv /\ [Next]_vars => TInv'
<1> SUFFICES ASSUME IInv, TInv, [Next]_vars, ~ tuned' PROVE TInv'
  BY DEF TInv
<1>1. ASSUME NEW p \in Requests,
             Manage(p) \/ Apply(p) \/ CommitResult(p) \/ GiveUp(p)
               \/ \E r \in Results : ScoreAttempt(p, r)
      PROVE  TInv'
  <2>1. CASE \E b \in BandIds : InsertBand(p, b)
    BY <2>1, TInsert
  <2>2. CASE UpdateBand(p) \/ DeleteBand(p)
    BY <2>2 DEF UpdateBand, DeleteBand
  <2>3. CASE \/ \E input \in FormInputs : SubmitNewBand(p, input)
             \/ \E b \in BandIds : CheckBandOwner(p, b)
             \/ \E r \in Results : ScoreAttempt(p, r)
    <3>1. ~ tuned
      BY <2>3 DEF SubmitNewBand, CheckBandOwner, ScoreAttempt
    <3> QED
      BY <2>3, <3>1, TBegin
  <2>4. CASE CheckTest(p) \/ CommitResult(p)
    BY <2>4, TCheckTest, TCommit DEF CheckTest, CommitResult
  <2>5. CASE GiveUp(p)
    BY <2>5, TEnds DEF GiveUp, Kept
  <2>6. CASE Apply(p)
    <3>1. ~ tuned
      BY <2>6 DEF Apply, ReadTestForBands, NextInstitutionalBand, ListBands,
         ListResults, FinishBackfill, BackfillResult
    <3> QED
      BY <2>6, <3>1, TReadBands, TNextBand, TListBands, TListResults, TFinish,
         TBackfill DEF Apply
  <2> QED
    BY <1>1, <2>1, <2>2, <2>3, <2>4, <2>5, <2>6 DEF Manage
<1>2. CASE ArchiveTest \/ UNCHANGED vars
  <2>1. ~ tuned /\ Kept /\ UNCHANGED <<seen, req, tuned>>
    BY <1>2 DEF ArchiveTest, Kept
  <2>2. Grows /\ UntunedRows'
    BY <2>1, KeptGrows DEF TInv
  <2>3. ASSUME NEW x \in Requests PROVE CreatedSoFar(req[x])' /\ PlacedSoFar(req[x])'
    <3>1. PICK s : s = req[x] /\ s = req'[x]
      BY <2>1
    <3>2. CreatedSoFar(s)' /\ PlacedSoFar(s)'
      BY <2>1, <2>2, <3>1, SoFarStays DEF TInv
    <3> QED
      BY <3>1, <3>2 DEF CreatedSoFar, PlacedSoFar, Whole
  <2> QED
    BY <2>2, <2>3 DEF TInv
<1> QED
  BY <1>1, <1>2 DEF Next

LEMMA LevelledFromTInv == IInv /\ TInv => AppliedMeansLevelled
<1> SUFFICES ASSUME IInv, TInv, ~ tuned, NEW r \in seen, NEW n \in Ranges, InRange(r, n)
             PROVE  level[r] # None /\ band[level[r]].label = Institutional[n].label
  BY DEF AppliedMeansLevelled, InRange, Ranges
<1>1. r \in stored /\ r \in Results /\ level[r] # None /\ edited = {}
  BY DEF TInv, UntunedRows, Placed, IInv, TypeOK
<1>2. level[r] \in Exists /\ Covers(band[level[r]], RawScore[r], Total)
  BY <1>1 DEF IInv, LevelIsJustified
<1>3. PICK m \in Ranges : band[level[r]] = InstitutionalRow(m)
  BY <1>2 DEF TInv, UntunedRows
<1>4. InRange(r, m)
  BY <1>1, <1>2, <1>3, InstitutionalRowIs
<1>5. m = n
  <2>1. /\ {Institutional[n].min, Institutional[n].max} \subseteq Nat
        /\ {Institutional[m].min, Institutional[m].max} \subseteq Nat
    BY InstitutionalRowIs
  <2>2. RawScore[r] \in Int
    BY <1>4, <2>1 DEF InRange
  <2> QED
    BY <1>4, <2>1, <2>2, InstitutionalAssumption DEF InRange, Ranges
<1> QED
  BY <1>1, <1>3, <1>5, InstitutionalRowIs

(* An application of the institutional bands that created them or found    *)
(* them all leaves no result it had listed without its level, however      *)
(* submissions and other applications overlap with it                      *)
(* (applyLanguageHubInstitutionalBands), until an admin tunes the bands.   *)
THEOREM AppliedLevels == Spec => []AppliedMeansLevelled
<1>1. Spec => [](IInv /\ TInv)
  BY Invariance, InitTInv, NextTInv, PTL DEF Spec
<1> QED
  BY <1>1, LevelledFromTInv, PTL
=============================================================================
