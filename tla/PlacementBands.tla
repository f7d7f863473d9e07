--------------------------- MODULE PlacementBands ---------------------------
(***************************************************************************)
(* The scoring bands of one test and the levels stored with its results:   *)
(* createPlacementBand, updatePlacementBand and deletePlacementBand        *)
(* (placement-band.service.ts), the one-off application of the             *)
(* institutional bands and its backfill (language-hub-scoring.service.ts), *)
(* and the placing of a result by finalizeAttempt.                         *)
(*                                                                         *)
(* Bands may be tuned while students submit.  None of these operations is  *)
(* a transaction, apart from the commit of a finalization: each reads,     *)
(* decides and writes by id, and applying the institutional bands is a     *)
(* chain of a dozen queries.  One step of a request is one query.          *)
(***************************************************************************)
EXTENDS PlacementLevels, FiniteSets

CONSTANTS
  Requests,       \* requests being served at once
  BandIds,        \* ids a placement_bands row may get
  Results,        \* attempts of the test that may be finalized
  RawScore,       \* RawScore[r]: the number of correct answers of attempt r
  Total,          \* the number of questions
  Institutional,  \* LANGUAGE_HUB_INSTITUTIONAL_BANDS: <<[order, label, min, max]>>
  FormInputs      \* what an admin may enter in the band form

ASSUME NoneIsNoRow == None \notin BandIds \cup Results
ASSUME ScoresAssumption == RawScore \in [Results -> 0 .. Total]
ASSUME NoneIsNoNumber == None \notin Int

(* What the form's fields hold before they are validated, and the list in  *)
(* the source.                                                             *)
ASSUME FormAssumption ==
  \A input \in FormInputs : /\ input.order \in Nat
                             /\ input.scoringMode \in {"RAW_SCORE", "PERCENTAGE"}
ASSUME InstitutionalAssumption ==
  /\ Len(Institutional) \in Nat \ {0}
  /\ \A n \in 1 .. Len(Institutional) :
        LET i == Institutional[n]
        IN  {i.order, i.min, i.max} \subseteq Nat /\ i.min <= i.max
  /\ \A n, m \in 1 .. Len(Institutional) :
        n # m => Institutional[n].max < Institutional[m].min
                   \/ Institutional[m].max < Institutional[n].min

VARIABLES
  test,         \* the status of the test: "OPEN" (DRAFT, PUBLISHED), "ARCHIVED"
  band,         \* band[b]: the row of band b, None when absent
  level,        \* level[r]: placementBandId of the result of r, None when null
  stored,       \* the results that exist
  req,          \* req[p]: where request p stands and what it has read
  used,         \* history: ids that a band has had
  edited,       \* history: bands that were updated after their creation
  tuned,        \* history: an admin created, updated or deleted a band
  seen          \* history: results that a whole application had listed

vars == <<test, band, level, stored, req, used, edited, tuned, seen>>

rows    == <<test, band, level, stored>>
history == <<used, edited, tuned, seen>>

-----------------------------------------------------------------------------
Exists  == {b \in BandIds : band[b] # None}
Rows(B) == {band[b] : b \in B}

Idle == [pc |-> "idle", input |-> None, band |-> None, result |-> None,
         next |-> 0, bands |-> {}, todo |-> {}, listed |-> {}]

(* bandFieldsSchema, createBandSchema and the checks of                    *)
(* updatePlacementBand, on what the form sends: both bounds of the metric  *)
(* that is selected, the other pair left alone.  (The variant does not     *)
(* compare them.)                                                          *)
InputParses(input) ==
  /\ input.min \in Nat /\ input.max \in Nat
  /\ input.scoringMode = "PERCENTAGE" => input.max <= 100

InputAccepted(input) ==
  /\ input.min \in Nat /\ input.max \in Nat
  /\ input.scoringMode = "PERCENTAGE" => input.max <= 100
  /\ input.min <= input.max

(* The row after the fields of the input are written over `old`.           *)
Written(old, input) ==
  LET raw == input.scoringMode = "RAW_SCORE"
  IN  [order |-> input.order, label |-> input.label,
       scoringMode   |-> input.scoringMode,
       minRawScore   |-> IF raw THEN input.min ELSE old.minRawScore,
       maxRawScore   |-> IF raw THEN input.max ELSE old.maxRawScore,
       minPercentage |-> IF raw THEN old.minPercentage ELSE input.min,
       maxPercentage |-> IF raw THEN old.maxPercentage ELSE input.max]

NewRow == [minRawScore |-> None, maxRawScore |-> None,
           minPercentage |-> None, maxPercentage |-> None]

(* The unique index on (testId, order).                                    *)
OrderFree(n, but) == \A b \in Exists \ {but} : band[b].order # n

Goto(p, to) == req' = [req EXCEPT ![p].pc = to]
Done(p)     == req' = [req EXCEPT ![p] = Idle]

(* The request applies the institutional bands.                            *)
Applying(p) == req[p].next > 0

(* A request ends in an error, or dies.  If it was applying the            *)
(* institutional bands, they stay as far as it came.                       *)
GiveUp(p) ==
  /\ req[p].pc # "idle"
  /\ Done(p)
  /\ UNCHANGED <<rows, history>>

-----------------------------------------------------------------------------
(* createPlacementBand: the test is read, then the row inserted.  The      *)
(* application of the institutional bands calls it for each of them.       *)
CheckTest(p) ==
  /\ req[p].pc = "create"
  /\ test # "ARCHIVED"
  /\ Goto(p, "insert")
  /\ UNCHANGED <<rows, history>>

SubmitNewBand(p, input) ==
  /\ req[p].pc = "idle"
  /\ InputAccepted(input)
  /\ req' = [req EXCEPT ![p] = [Idle EXCEPT !.pc = "create", !.input = input]]
  /\ UNCHANGED <<rows, history>>

InsertBand(p, b) ==
  /\ req[p].pc = "insert"
  /\ b \notin used
  /\ OrderFree(req[p].input.order, None)
  /\ band' = [band EXCEPT ![b] = Written(NewRow, req[p].input)]
  /\ IF Applying(p) THEN Goto(p, "applyNext") ELSE Done(p)
  /\ used' = used \cup {b}
  /\ tuned' = (tuned \/ ~ Applying(p))
  /\ UNCHANGED <<test, level, stored, edited, seen>>

(* updatePlacementBand and deletePlacementBand: requireEditableBandOwner,  *)
(* then the write by id.  Deleting a band clears the level of the results  *)
(* that were placed in it (the foreign key is SET NULL).                   *)
CheckBandOwner(p, b) ==
  /\ req[p].pc = "idle"
  /\ b \in Exists
  /\ test # "ARCHIVED"
  /\ \/ \E input \in FormInputs :
          /\ InputAccepted(input)
          /\ req' = [req EXCEPT ![p] = [Idle EXCEPT !.pc = "update", !.band = b,
                                                    !.input = input]]
     \/ req' = [req EXCEPT ![p] = [Idle EXCEPT !.pc = "delete", !.band = b]]
  /\ UNCHANGED <<rows, history>>

UpdateBand(p) ==
  LET b == req[p].band
  IN  /\ req[p].pc = "update"
      /\ b \in Exists
      /\ OrderFree(req[p].input.order, b)
      /\ band' = [band EXCEPT ![b] = Written(band[b], req[p].input)]
      /\ edited' = edited \cup {b}
      /\ tuned' = TRUE
      /\ Done(p)
      /\ UNCHANGED <<test, level, stored, used, seen>>

DeleteBand(p) ==
  LET b == req[p].band
  IN  /\ req[p].pc = "delete"
      /\ b \in Exists
      /\ band' = [band EXCEPT ![b] = None]
      /\ level' = [r \in Results |-> IF level[r] = b THEN None ELSE level[r]]
      /\ tuned' = TRUE
      /\ Done(p)
      /\ UNCHANGED <<test, stored, used, edited, seen>>

-----------------------------------------------------------------------------
(* finalizeAttempt: the bands are read with the answers, the result is     *)
(* written by the transaction.  A band that was deleted in between violates*)
(* the foreign key, and the submission fails as a whole.                   *)
BandIdOf(row) == IF row = None THEN None
                 ELSE CHOOSE b \in Exists : band[b] = row

ScoreAttempt(p, r) ==
  LET match == MatchPlacementBand(RawScore[r], Total, Rows(Exists))
  IN  /\ req[p].pc = "idle"
      /\ r \notin stored
      /\ req' = [req EXCEPT ![p] = [Idle EXCEPT !.pc = "commit", !.result = r,
                                                !.band = BandIdOf(match)]]
      /\ UNCHANGED <<rows, history>>

CommitResult(p) ==
  LET r == req[p].result
      b == req[p].band
  IN  /\ req[p].pc = "commit"
      /\ r \notin stored
      /\ b = None \/ b \in Exists
      /\ stored' = stored \cup {r}
      /\ level' = [level EXCEPT ![r] = b]
      /\ Done(p)
      /\ UNCHANGED <<test, band, history>>

-----------------------------------------------------------------------------
(* applyLanguageHubInstitutionalBands.                                     *)

InstitutionalInput(n) ==
  [order |-> Institutional[n].order, label |-> Institutional[n].label,
   scoringMode |-> "RAW_SCORE",
   min |-> Institutional[n].min, max |-> Institutional[n].max]

InstitutionalRow(n) == Written(NewRow, InstitutionalInput(n))

(* The test with its bands; the institutional ones are created only when   *)
(* there are none, and all skipped otherwise.                              *)
ReadTestForBands(p) ==
  /\ req[p].pc = "idle"
  /\ req' = [req EXCEPT ![p] =
       IF Exists = {}
       THEN [Idle EXCEPT !.pc = "create", !.next = 1,
                         !.input = InstitutionalInput(1)]
       ELSE [Idle EXCEPT !.pc = "listBands", !.next = Len(Institutional) + 1]]
  /\ UNCHANGED <<rows, history>>

(* The loop over the institutional bands.  (The variant stops one early.)  *)
NextButLastBand(p) ==
  LET n == req[p].next + 1
  IN  /\ req[p].pc = "applyNext"
      /\ IF n < Len(Institutional)
         THEN req' = [req EXCEPT ![p].pc = "create", ![p].next = n,
                                 ![p].input = InstitutionalInput(n)]
         ELSE Goto(p, "listBands")
      /\ UNCHANGED <<rows, history>>

NextInstitutionalBand(p) ==
  LET n == req[p].next + 1
  IN  /\ req[p].pc = "applyNext"
      /\ IF n <= Len(Institutional)
         THEN req' = [req EXCEPT ![p].pc = "create", ![p].next = n,
                                 ![p].input = InstitutionalInput(n)]
         ELSE Goto(p, "listBands")
      /\ UNCHANGED <<rows, history>>

ListBands(p) ==
  /\ req[p].pc = "listBands"
  /\ req' = [req EXCEPT ![p].pc = "listResults",
                        ![p].bands = {<<b, band[b]>> : b \in Exists}]
  /\ UNCHANGED <<rows, history>>

(* The results without a level.                                            *)
ListResults(p) ==
  LET unplaced == {r \in stored : level[r] = None}
  IN  /\ req[p].pc = "listResults"
      /\ req' = [req EXCEPT ![p].pc = "backfill", ![p].todo = unplaced,
                            ![p].listed = stored]
      /\ UNCHANGED <<rows, history>>

(* Any RAW_SCORE band that covers the stored score: the bands come in no   *)
(* particular order.  (The variant goes by the lower bound alone.)         *)
BackfillFromBelow(r, bands) ==
  {x \in bands : x[2].scoringMode = "RAW_SCORE" /\ RawScore[r] >= x[2].minRawScore}

BackfillMatch(r, bands) == {x \in bands : CoversRaw(x[2], RawScore[r])}

(* One result of the loop: skipped when no band matches, or updated by id.  *)
BackfillResult(p, r) ==
  LET matching == BackfillMatch(r, req[p].bands)
  IN  /\ req[p].pc = "backfill"
      /\ r \in req[p].todo
      /\ req' = [req EXCEPT ![p].todo = @ \ {r}]
      /\ \/ matching = {} /\ UNCHANGED level
         \/ \E x \in matching : x[1] \in Exists
                                  /\ level' = [level EXCEPT ![r] = x[1]]
      /\ UNCHANGED <<test, band, stored, history>>

(* The application has created the bands itself, or found all of them.     *)
Whole(q) ==
  \/ q.next <= Len(Institutional)
  \/ \A n \in 1 .. Len(Institutional) : \E x \in q.bands : x[2] = InstitutionalRow(n)

FinishBackfill(p) ==
  /\ req[p].pc = "backfill"
  /\ req[p].todo = {}
  /\ seen' = IF Whole(req[p]) THEN seen \cup req[p].listed ELSE seen
  /\ Done(p)
  /\ UNCHANGED <<rows, used, edited, tuned>>

ArchiveTest ==
  /\ test # "ARCHIVED"
  /\ test' = "ARCHIVED"
  /\ UNCHANGED <<band, level, stored, req, history>>

-----------------------------------------------------------------------------
Init ==
  /\ test = "OPEN"
  /\ band = [b \in BandIds |-> None]
  /\ level = [r \in Results |-> None]
  /\ stored = {}
  /\ req = [p \in Requests |-> Idle]
  /\ used = {} /\ edited = {} /\ seen = {}
  /\ tuned = FALSE

Manage(p) ==
  \/ \E input \in FormInputs : SubmitNewBand(p, input)
  \/ CheckTest(p)
  \/ \E b \in BandIds : InsertBand(p, b) \/ CheckBandOwner(p, b)
  \/ UpdateBand(p) \/ DeleteBand(p)

Apply(p) ==
  \/ ReadTestForBands(p) \/ NextInstitutionalBand(p)
  \/ ListBands(p) \/ ListResults(p) \/ FinishBackfill(p)
  \/ \E r \in Results : BackfillResult(p, r)

Next ==
  \/ \E p \in Requests : \/ Manage(p) \/ Apply(p) \/ CommitResult(p) \/ GiveUp(p)
                         \/ \E r \in Results : ScoreAttempt(p, r)
  \/ ArchiveTest

Spec == Init /\ [][Next]_vars

-----------------------------------------------------------------------------
(* Properties.                                                             *)

Inputs == {input \in FormInputs : InputAccepted(input)}
            \cup {InstitutionalInput(n) : n \in 1 .. Len(Institutional)}

Bound == Nat \cup {None}
Row   == [order : Nat, label : {input.label : input \in Inputs},
          scoringMode : {"RAW_SCORE", "PERCENTAGE"},
          minRawScore : Bound, maxRawScore : Bound,
          minPercentage : Bound, maxPercentage : Bound]

ASSUME NoneIsNoBand == None \notin Row

Request == [pc : {"idle", "create", "insert", "update", "delete", "commit",
                  "applyNext", "listBands", "listResults", "backfill"},
            input : Inputs \cup {None}, band : BandIds \cup {None},
            result : Results \cup {None}, next : Nat,
            bands : SUBSET (BandIds \X Row), todo : SUBSET Results,
            listed : SUBSET Results]

TypeOK ==
  /\ test \in {"OPEN", "ARCHIVED"}
  /\ band \in [BandIds -> Row \cup {None}]
  /\ level \in [Results -> BandIds \cup {None}]
  /\ req \in [Requests -> Request]
  /\ used \subseteq BandIds /\ edited \subseteq used
  /\ stored \subseteq Results /\ seen \subseteq Results
  /\ tuned \in BOOLEAN

(* Whatever admins save, switch to the other metric or overwrite at once,  *)
(* every band can be matched by a score: the bounds of its metric are      *)
(* there and in order.  (A service call that sends one bound only is not   *)
(* held to that; the form sends both.)                                     *)
BandIsMatchable ==
  \A b \in Exists :
    LET low  == IF band[b].scoringMode = "RAW_SCORE" THEN band[b].minRawScore
                                                     ELSE band[b].minPercentage
        high == IF band[b].scoringMode = "RAW_SCORE" THEN band[b].maxRawScore
                                                     ELSE band[b].maxPercentage
    IN  low # None /\ high # None /\ low <= high

(* A stored level is the level of a band that covers the score, unless the *)
(* band was edited since: however late a finalization commits or a         *)
(* backfill writes what it matched, and whichever bands were created or    *)
(* deleted meanwhile.                                                      *)
LevelIsJustified ==
  \A r \in stored :
    level[r] # None /\ level[r] \notin edited
      => level[r] \in Exists /\ Covers(band[level[r]], RawScore[r], Total)

(* Once an application of the institutional bands has run to its end,      *)
(* every result it had listed has the level the bands give it, and keeps   *)
(* it: submissions scored without bands or with some of them commit        *)
(* meanwhile, and other applications run at once or die.  As long as       *)
(* nobody tunes the bands, and not for an application that found the bands *)
(* another one had begun to create: it leaves results without a level.     *)
AppliedMeansLevelled ==
  ~ tuned =>
    \A r \in seen : \A n \in 1 .. Len(Institutional) :
       RawScore[r] \in Institutional[n].min .. Institutional[n].max
         => level[r] # None /\ band[level[r]].label = Institutional[n].label
=============================================================================
