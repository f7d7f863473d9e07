----------------------------- MODULE TestImport -----------------------------
(***************************************************************************)
(* Importing a whole test: the dialog of the admin's browser               *)
(* (import-test-dialog.tsx), the two sources, a JSON file and the verified *)
(* Language Hub dataset, their validation (domain/import) and the server   *)
(* functions that preview and confirm (import.service.ts).                 *)
(*                                                                         *)
(* The dialog sends a preview request and goes on listening: the admin may *)
(* choose another file or source, close it or reload the page before the   *)
(* reply arrives.  The server validates what it is sent again on every     *)
(* confirmation; whether the Language Hub test exists already is a query,  *)
(* and creating the test is a later transaction.                           *)
(***************************************************************************)
EXTENDS PlacementLevels, FiniteSets, Sequences

CONSTANTS
  Dialogs,    \* open import dialogs, of any admins
  Requests,   \* requests the server handles at once
  Files,      \* the .json files below the size limit an admin may choose
  Content,    \* Content[f]: the draft file f holds, None when it is not JSON
  HubTitle,   \* LANGUAGE_HUB_TEST_TITLE
  Titles,     \* the titles of tests
  MaxTests    \* bound: tests imported

ASSUME NoneIsNoFile == None \notin Files \cup Dialogs

(* Lists are lists and flags are flags in what JSON.parse returns and the  *)
(* schema lets through.                                                    *)
IsList(s) == Len(s) \in Nat /\ DOMAIN s = 1 .. Len(s)

ASSUME ContentAssumption ==
  \A f \in Files : Content[f] # None =>
    /\ IsList(Content[f].questions) /\ IsList(Content[f].placementBands)
    /\ \A n \in DOMAIN Content[f].questions :
         LET options == Content[f].questions[n].options
         IN  IsList(options) /\ \A o \in DOMAIN options : options[o].isCorrect \in BOOLEAN

ASSUME TitlesAssumption ==
  /\ HubTitle \in Titles
  /\ \A f \in Files : Content[f] # None => Content[f].title \in Titles

VARIABLES
  dialog,   \* dialog[d]: [source, file, preview, confirming]
  request,  \* request[r]: a request of a dialog, on its way or being served;
            \* its file is the content that was sent
  tests     \* the tests imported, in order: what each was made from, its title,
            \* and whether it is the dataset, confirmed when a test of its
            \* title was there, and one has been there ever since

vars == <<dialog, request, tests>>

-----------------------------------------------------------------------------
(* domain/import/validate.ts.  A text is a value, "" when it is blank; an  *)
(* issue is named for its rule.                                            *)

Count(seq, Test(_)) == Cardinality({n \in DOMAIN seq : Test(seq[n])})

IsBlank(text)       == text = ""
IsDuration(seconds) == seconds \in 60 .. 24 * 60 * 60

ValidateNormalizedQuestions(questions, expected, counts) ==
  LET orders == {questions[n].order : n \in DOMAIN questions}
      Bad(q) ==
        \/ Len(q.options) \notin counts
        \/ Count(q.options, LAMBDA o : o.isCorrect) # 1
        \/ Cardinality({q.options[n].text : n \in DOMAIN q.options}) # Len(q.options)
        \/ IsBlank(q.prompt)
        \/ Count(q.options, LAMBDA o : IsBlank(o.text)) > 0
  IN  {issue \in {"COUNT", "DUPLICATE_ORDER", "MISSING_ORDER", "QUESTION"} :
         CASE issue = "COUNT"           -> Len(questions) # expected
           [] issue = "DUPLICATE_ORDER" -> Cardinality(orders) # Len(questions)
           [] issue = "MISSING_ORDER"   -> ~ (1 .. expected \subseteq orders)
           [] issue = "QUESTION"        -> Count(questions, Bad) > 0}

(* The bounds of a band may have decimals, 49.99: they are counted in      *)
(* hundredths of a per cent.                                               *)
HundredPercent == 10000

ValidateImportedPlacementBands(bands) ==
  LET Bad(b) == \/ IsBlank(b.label)
                \/ b.order \notin Nat
                \/ b.minPercentage < 0 \/ b.maxPercentage > HundredPercent
                \/ b.minPercentage > b.maxPercentage
      orders == {bands[n].order : n \in DOMAIN bands}
  IN  {issue \in {"BAND", "BAND_ORDER"} :
         CASE issue = "BAND"       -> Count(bands, Bad) > 0
           [] issue = "BAND_ORDER" -> Cardinality(orders) # Len(bands)}

(* GENERIC_IMPORT_OPTION_RANGE; at least one question.                     *)
ValidateImportDraft(draft) ==
  {issue \in {"TITLE", "DURATION", "NO_QUESTIONS"} :
     CASE issue = "TITLE"        -> IsBlank(draft.title)
       [] issue = "DURATION"     -> ~ IsDuration(draft.durationSeconds)
       [] issue = "NO_QUESTIONS" -> draft.questions = <<>>}
  \cup ValidateNormalizedQuestions(draft.questions, Len(draft.questions), 2 .. 10)
  \cup ValidateImportedPlacementBands(draft.placementBands)

(* The shapes importedTestJsonSchema lets through to the validation.       *)
ParsesAsDraft(draft) ==
  /\ draft # None
  /\ ~ IsBlank(draft.title)
  /\ IsDuration(draft.durationSeconds)
  /\ Len(draft.questions) \in 1 .. 500
  /\ \A n \in DOMAIN draft.questions :
        LET q == draft.questions[n]
        IN  /\ q.order \in Nat \ {0} /\ ~ IsBlank(q.prompt) /\ Len(q.options) \in 1 .. 20
            /\ \A o \in DOMAIN q.options : ~ IsBlank(q.options[o].text)
  /\ Len(draft.placementBands) <= 20
  /\ \A n \in DOMAIN draft.placementBands :
        LET b == draft.placementBands[n]
        IN  /\ b.order \in Nat /\ ~ IsBlank(b.label)
            /\ {b.minPercentage, b.maxPercentage} \subseteq 0 .. HundredPercent

ParseAndValidate(file) ==
  IF ParsesAsDraft(Content[file]) THEN ValidateImportDraft(Content[file])
                                  ELSE {"PARSE"}

(* LANGUAGE_HUB_QUESTIONS: its key, and the level each question is for.    *)
LanguageHubKey ==
  <<1, 3, 4, 3, 3, 2, 1, 3, 1, 3, 4, 3, 4, 3, 4, 2, 4, 1, 3, 3, 2, 1, 4, 3,
    3, 2, 3, 1, 1, 3, 4, 2, 3, 2, 4, 2, 1, 3, 4, 2, 2, 3, 4, 3, 1, 2, 3, 4,
    1, 4, 2, 1, 3, 2, 2, 4, 3, 1, 4, 1, 2, 4, 3, 2, 4, 1, 2, 1, 3, 4>>

LanguageHubDraft ==
  [title |-> HubTitle, durationSeconds |-> 30 * 60, placementBands |-> <<>>,
   questions |->
     [n \in DOMAIN LanguageHubKey |->
        [order |-> n, prompt |-> "transcribed",
         difficultyBand |-> FindProgressionBand(n).label,
         options |->
           [o \in 1 .. 4 |-> [text |-> <<"in", "on", "to", "at">>[o],
                              isCorrect |-> o = LanguageHubKey[n]]]]]]

(* What the server finds wrong with the draft of a request.                *)
IssuesOf(source, file) ==
  IF source = "language-hub"
  THEN ValidateNormalizedQuestions(LanguageHubDraft.questions, 70, {4})
  ELSE ParseAndValidate(file)

Sources == {<<"language-hub", None>>} \cup ({"json"} \X Files)
Valid   == {x \in Sources : IssuesOf(x[1], x[2]) = {}}

-----------------------------------------------------------------------------
PreviewState(status) ==
  [status |-> status, source |-> "json", file |-> None, isImportable |-> FALSE]

SourceNames == {"json", "language-hub"}
MaybeFile   == Files \cup {None}

Shown   == [status : {"idle", "loading", "error", "ready", "ok"},
            source : SourceNames, file : MaybeFile, isImportable : BOOLEAN]
Dialog  == [source : SourceNames, file : MaybeFile, preview : Shown,
            confirming : BOOLEAN]
Request == [kind : {"none", "preview", "confirm"}, dialog : Dialogs \cup {None},
            source : SourceNames, file : MaybeFile,
            pc : {"free", "sent", "checked", "answered"}, reply : Shown,
            known : BOOLEAN]
Test    == [source : SourceNames, file : MaybeFile, title : Titles, known : BOOLEAN]

TypeOK ==
  /\ dialog \in [Dialogs -> Dialog]
  /\ request \in [Requests -> Request]
  /\ tests \in Seq(Test)

Idle   == PreviewState("idle")
Closed == [source |-> "json", file |-> None, preview |-> Idle, confirming |-> FALSE]
Free   == [kind |-> "none", dialog |-> None, source |-> "json", file |-> None,
           pc |-> "free", reply |-> Idle, known |-> FALSE]

(* A request whose answer nobody waits for: only a confirmation matters.   *)
Abandoned(q) == IF q.kind = "confirm" THEN [q EXCEPT !.dialog = None] ELSE Free

TitleTaken(title) == \E n \in DOMAIN tests : tests[n].title = title

Send(r, kind, d, source, file) ==
  /\ request[r].pc = "free"
  /\ request' = [request EXCEPT ![r] =
       [Free EXCEPT !.kind = kind, !.dialog = d, !.source = source,
                    !.file = file, !.pc = "sent",
                    !.known = /\ kind = "confirm" /\ source = "language-hub"
                              /\ TitleTaken(HubTitle)]]

IsReady(d) == dialog[d].preview.status = "ready"

-----------------------------------------------------------------------------
(* The dialog before its preview: choosing a source or a file.  Both       *)
(* forget the preview, and neither is disabled while one is on its way.    *)
SelectSource(d, source) ==
  /\ ~ IsReady(d)
  /\ dialog' = [dialog EXCEPT ![d].source = source, ![d].preview = Idle]
  /\ UNCHANGED <<request, tests>>

(* handleFileChange; None when the selection was cleared, or was refused   *)
(* for its name or its size.                                               *)
HandleFileChange(d, file) ==
  /\ ~ IsReady(d)
  /\ dialog[d].source = "json"
  /\ dialog' = [dialog EXCEPT ![d].file = file, ![d].preview = Idle]
  /\ UNCHANGED <<request, tests>>

HandlePreview(d, r) ==
  LET source == dialog[d].source
      file   == IF source = "json" THEN dialog[d].file ELSE None
  IN  /\ dialog[d].preview.status \in {"idle", "error"}
      /\ source = "json" => file # None
      /\ Send(r, "preview", d, source, file)
      /\ dialog' = [dialog EXCEPT ![d].preview = PreviewState("loading")]
      /\ UNCHANGED tests

(* previewGenericImport, previewLanguageHubImport.  (That a test of the    *)
(* same title exists is only shown for a file, and blocks for the dataset.)*)
Preview(r) ==
  LET q     == request[r]
      clear == <<q.source, q.file>> \in Valid
  IN  /\ q.kind = "preview" /\ q.pc = "sent"
      /\ request' = [request EXCEPT ![r].pc = "answered",
           ![r].reply = [status |-> "ready", source |-> q.source, file |-> q.file,
                         isImportable |-> clear /\ (q.source = "language-hub"
                                                      => ~ TitleTaken(HubTitle))]]
      /\ UNCHANGED <<dialog, tests>>

(* The reply is shown, whatever the dialog has been turned to meanwhile.   *)
ShowPreview(r) ==
  LET d == request[r].dialog
  IN  /\ request[r].kind = "preview" /\ request[r].pc = "answered"
      /\ dialog' = IF d = None THEN dialog
                   ELSE [dialog EXCEPT ![d].preview = request[r].reply]
      /\ request' = [request EXCEPT ![r] = Free]
      /\ UNCHANGED tests

Back(d) ==
  /\ IsReady(d)
  /\ ~ dialog[d].confirming
  /\ dialog' = [dialog EXCEPT ![d].preview = Idle]
  /\ UNCHANGED <<request, tests>>

(* The source of the preview, but the file that is selected now.           *)
HandleConfirm(d, r) ==
  LET shown == dialog[d].preview
  IN  /\ IsReady(d) /\ ~ dialog[d].confirming
      /\ shown.isImportable
      /\ shown.source = "json" => dialog[d].file # None
      /\ Send(r, "confirm", d, shown.source,
              IF shown.source = "json" THEN dialog[d].file ELSE None)
      /\ dialog' = [dialog EXCEPT ![d].confirming = TRUE]
      /\ UNCHANGED tests

(* The dialog is closed: reset() leaves `confirming` alone.  Only a reload *)
(* of the page clears it, and lets go of the requests.                     *)
Close(d) ==
  /\ dialog' = [dialog EXCEPT ![d] = [Closed EXCEPT !.confirming = dialog[d].confirming]]
  /\ UNCHANGED <<request, tests>>

Reload(d) ==
  /\ dialog' = [dialog EXCEPT ![d] = Closed]
  /\ request' = [r \in Requests |-> IF request[r].dialog = d
                                    THEN Abandoned(request[r])
                                    ELSE request[r]]
  /\ UNCHANGED tests

-----------------------------------------------------------------------------
(* confirmGenericImport and confirmLanguageHubImport: validated from       *)
(* scratch, and the title of the dataset looked up.  (One variant trusts   *)
(* the preview, the other one forgets to look.)                            *)
TrustPreview(source, file)      == TRUE
MayPersistUnlooked(source, file) == <<source, file>> \in Valid
MayPersist(source, file) ==
  /\ <<source, file>> \in Valid
  /\ source = "language-hub" => ~ TitleTaken(HubTitle)

CheckImport(r) ==
  /\ request[r].kind = "confirm" /\ request[r].pc = "sent"
  /\ MayPersist(request[r].source, request[r].file)
  /\ request' = [request EXCEPT ![r].pc = "checked"]
  /\ UNCHANGED <<dialog, tests>>

(* persistImportedTest: one transaction, committed as a whole.             *)
TitleOf(source, file) ==
  IF source = "language-hub" THEN HubTitle ELSE Content[file].title

PersistImportedTest(r) ==
  LET q == request[r]
  IN  /\ q.pc = "checked"
      /\ Len(tests) < MaxTests
      /\ tests' = Append(tests, [source |-> q.source, file |-> q.file, known |-> q.known,
                                 title |-> TitleOf(q.source, q.file)])
      /\ request' = [request EXCEPT ![r].pc = "answered", ![r].reply = PreviewState("ok")]
      /\ UNCHANGED dialog

(* A refusal, a failure, or a transaction that is rolled back.             *)
RefuseRequest(r) ==
  /\ request[r].pc \in {"sent", "checked"}
  /\ request' = [request EXCEPT ![r].pc = "answered", ![r].reply = PreviewState("error")]
  /\ UNCHANGED <<dialog, tests>>

(* The dialog hears of it: an import closes and resets it, an error is     *)
(* shown in the panel.                                                     *)
FinishConfirm(r) ==
  LET d == request[r].dialog
  IN  /\ request[r].kind = "confirm" /\ request[r].pc = "answered"
      /\ dialog' = IF d = None THEN dialog
                   ELSE IF request[r].reply.status = "ok" THEN [dialog EXCEPT ![d] = Closed]
                   ELSE [dialog EXCEPT ![d].confirming = FALSE]
      /\ request' = [request EXCEPT ![r] = Free]
      /\ UNCHANGED tests

(* A response that never arrives leaves the dialog waiting.                *)
LoseResponse(r) ==
  /\ request[r].pc # "free"
  /\ request' = [request EXCEPT ![r] = Abandoned(@)]
  /\ UNCHANGED <<dialog, tests>>

(* updatePlacementTest, from the Edit dialog of a test's own page: it may  *)
(* get any title, or one that is taken.  Only a DRAFT can be edited, which *)
(* is what an import creates; that it stops being one is left out.         *)
RenameTest(n, title) ==
  /\ tests' = [tests EXCEPT ![n].title = title]
  /\ request' = [r \in Requests |->
                   [request[r] EXCEPT !.known = @ /\ TitleTaken(HubTitle)']]
  /\ UNCHANGED dialog

-----------------------------------------------------------------------------
Init ==
  /\ dialog = [d \in Dialogs |-> Closed]
  /\ request = [r \in Requests |-> Free]
  /\ tests = <<>>

Browse(d) ==
  \/ \E source \in {"json", "language-hub"} : SelectSource(d, source)
  \/ \E file \in Files \cup {None} : HandleFileChange(d, file)
  \/ \E r \in Requests : HandlePreview(d, r) \/ HandleConfirm(d, r)
  \/ Back(d) \/ Close(d) \/ Reload(d)

Serve(r) ==
  \/ Preview(r) \/ ShowPreview(r)
  \/ CheckImport(r) \/ PersistImportedTest(r) \/ RefuseRequest(r) \/ FinishConfirm(r)
  \/ LoseResponse(r)

Next ==
  \/ \E d \in Dialogs : Browse(d)
  \/ \E r \in Requests : Serve(r)
  \/ \E n \in DOMAIN tests, title \in Titles : RenameTest(n, title)

Spec == Init /\ [][Next]_vars

-----------------------------------------------------------------------------
(* Properties.                                                             *)

(* What a test must be for the rest of the system to work: its questions   *)
(* are numbered 1..N (the runner and the progression ranges go by that),   *)
(* each has two to ten options with different texts and one correct one,   *)
(* and its bands have different orders and a range each.                   *)
IsSound(draft) ==
  LET qs == draft.questions
      bs == draft.placementBands
  IN  /\ qs # <<>>
      /\ \A k \in 1 .. Len(qs) : \E n \in DOMAIN qs : qs[n].order = k
      /\ \A n \in DOMAIN qs :
            /\ Len(qs[n].options) \in 2 .. 10
            /\ \E o \in DOMAIN qs[n].options :
                 \A p \in DOMAIN qs[n].options : qs[n].options[p].isCorrect = (p = o)
            /\ \A o, p \in DOMAIN qs[n].options :
                 qs[n].options[o].text = qs[n].options[p].text => o = p
      /\ \A n, m \in DOMAIN bs : bs[n].order = bs[m].order => n = m
      /\ \A n \in DOMAIN bs : bs[n].minPercentage <= bs[n].maxPercentage

(* Whatever the admin had previewed, and whichever file or source the      *)
(* dialog was turned to before the reply came or after the confirmation    *)
(* was sent, no test is created from a file that is not sound.  (That the  *)
(* dataset is sound is an assumption of the MC module, which TLC checks.)  *)
ImportedTestIsSound ==
  \A n \in DOMAIN tests :
     tests[n].source = "json" => IsSound(Content[tests[n].file])

(* The Language Hub dataset is never imported again by an admin who        *)
(* confirms when a test of its title is there, as long as one goes on      *)
(* being there: not from a preview that is older than that test, not when  *)
(* the page was reloaded or a response was lost, and not when tests are    *)
(* renamed.  (Confirmations that overlap the first import may each add     *)
(* one: the title is looked up before the transaction and is not unique.   *)
(* A dataset all of whose tests were renamed may be imported again.)       *)
NoImportOfAKnownDataset ==
  \A n \in DOMAIN tests : tests[n].source = "language-hub" => ~ tests[n].known
=============================================================================
