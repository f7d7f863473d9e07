-------------------------- MODULE TestImport_proofs --------------------------
(***************************************************************************)
(* Theorems about TestImport for every number of dialogs, requests and     *)
(* files, whatever the files hold, and every bound on the tests.           *)
(***************************************************************************)
EXTENDS TestImport, FiniteSetTheorems, TLAPS

USE DEF vars

-----------------------------------------------------------------------------
(* The inductive invariant: a request that was sent when the dataset was   *)
(* there, and it has been since, is not past the check; a file past the    *)
(* check is sound, and has a title.                                        *)

Taken == TitleTaken(HubTitle)

KnownIsTaken   == \A r \in Requests : request[r].known => Taken
CheckedIsNew   == \A r \in Requests :
                    request[r].pc = "checked" /\ request[r].source = "language-hub"
                      => ~ request[r].known

CheckedIsSound == \A r \in Requests :
                    request[r].pc = "checked" /\ request[r].source = "json"
                      => /\ IsSound(Content[request[r].file])
                         /\ Content[request[r].file].title \in Titles

IInv ==
  /\ TypeOK
  /\ KnownIsTaken /\ CheckedIsNew /\ CheckedIsSound
  /\ NoImportOfAKnownDataset /\ ImportedTestIsSound

-----------------------------------------------------------------------------
(* What a valid draft is.                                                  *)

LEMMA Places ==
  ASSUME NEW n \in Nat
  PROVE  IsFiniteSet(1 .. n) /\ Cardinality(1 .. n) = n
<1>1. 1 \in Int /\ n \in Int
  OBVIOUS
<1>2. IsFiniteSet(1 .. n) /\ Cardinality(1 .. n) = IF 1 > n THEN 0 ELSE n - 1 + 1
  BY <1>1, FS_Interval
<1> QED
  BY <1>2

LEMMA Distinct ==
  ASSUME NEW n \in Nat, NEW g, DOMAIN g = 1 .. n,
         Cardinality({g[x] : x \in 1 .. n}) = n
  PROVE  \A x, y \in 1 .. n : g[x] = g[y] => x = y
<1> DEFINE T == {g[x] : x \in 1 .. n}
           h == [x \in 1 .. n |-> g[x]]
<1>1. IsFiniteSet(1 .. n) /\ Cardinality(1 .. n) = n
  BY Places
<1>2. h \in Surjection(1 .. n, T)
  BY DEF Surjection
<1>3. h \in Injection(1 .. n, T)
  <2> HIDE DEF h
  <2> QED
    BY <1>1, <1>2, FS_Surjection
<1> QED
  BY <1>3 DEF Injection, IsInjective

LEMMA NoneSuch ==
  ASSUME NEW n \in Nat, NEW S \in SUBSET (1 .. n), ~ (Cardinality(S) > 0)
  PROVE  S = {}
<1>1. IsFiniteSet(S)
  BY Places, FS_Subset
<1>2. Cardinality(S) \in Nat
  BY <1>1, FS_CardinalityType
<1>3. Cardinality(S) = 0
  BY <1>2
<1> QED
  BY <1>1, <1>3, FS_EmptySet

LEMMA JustOne ==
  ASSUME NEW n \in Nat, NEW S \in SUBSET (1 .. n), Cardinality(S) = 1
  PROVE  \E x \in S : \A y \in S : x = y
<1>1. IsFiniteSet(S)
  BY Places, FS_Subset
<1>2. PICK x : S = {x}
  BY <1>1, FS_Singleton
<1> QED
  BY <1>2

(* A list of questions without an issue.                                   *)
LEMMA ValidQuestions ==
  ASSUME NEW qs, IsList(qs), NEW counts,
         \A n \in DOMAIN qs : /\ IsList(qs[n].options)
                              /\ \A o \in DOMAIN qs[n].options :
                                   qs[n].options[o].isCorrect \in BOOLEAN,
         ValidateNormalizedQuestions(qs, Len(qs), counts) = {}
  PROVE  /\ \A k \in 1 .. Len(qs) : \E n \in DOMAIN qs : qs[n].order = k
         /\ \A n \in DOMAIN qs :
              /\ Len(qs[n].options) \in counts
              /\ \E o \in DOMAIN qs[n].options :
                   \A p \in DOMAIN qs[n].options : qs[n].options[p].isCorrect = (p = o)
              /\ \A o, p \in DOMAIN qs[n].options :
                   qs[n].options[o].text = qs[n].options[p].text => o = p
<1> DEFINE Right(os) == {n \in DOMAIN os : os[n].isCorrect}
           Empties(os) == {n \in DOMAIN os : IsBlank(os[n].text)}
           Bad(q) == \/ Len(q.options) \notin counts
                     \/ Cardinality(Right(q.options)) # 1
                     \/ Cardinality({q.options[n].text : n \in DOMAIN q.options})
                          # Len(q.options)
                     \/ IsBlank(q.prompt)
                     \/ Cardinality(Empties(q.options)) > 0
           BadOnes == {n \in DOMAIN qs : Bad(qs[n])}
<1>1. ~ (Cardinality(BadOnes) > 0)
  BY DEF ValidateNormalizedQuestions, Count
<1>2. 1 .. Len(qs) \subseteq {qs[n].order : n \in DOMAIN qs}
  BY DEF ValidateNormalizedQuestions
<1>3. BadOnes = {}
  <2>1. BadOnes \in SUBSET (1 .. Len(qs)) /\ Len(qs) \in Nat
    BY DEF IsList
  <2> HIDE DEF BadOnes
  <2> QED
    BY <1>1, <2>1, NoneSuch
<1>4. ASSUME NEW n \in DOMAIN qs
      PROVE  /\ Len(qs[n].options) \in counts
             /\ \E o \in DOMAIN qs[n].options :
                  \A p \in DOMAIN qs[n].options : qs[n].options[p].isCorrect = (p = o)
             /\ \A o, p \in DOMAIN qs[n].options :
                  qs[n].options[o].text = qs[n].options[p].text => o = p
  <2> DEFINE os == qs[n].options
  <2>1. /\ Len(os) \in counts /\ Cardinality(Right(os)) = 1
        /\ Cardinality({os[m].text : m \in DOMAIN os}) = Len(os)
    BY <1>3
  <2>2. IsList(os) /\ \A o \in DOMAIN os : os[o].isCorrect \in BOOLEAN
    OBVIOUS
  <2> HIDE DEF os
  <2>3. \A o, p \in DOMAIN os : os[o].text = os[p].text => o = p
    <3> DEFINE g == [o \in 1 .. Len(os) |-> os[o].text]
    <3>1. Len(os) \in Nat /\ DOMAIN os = 1 .. Len(os) /\ DOMAIN g = 1 .. Len(os)
      BY <2>2 DEF IsList
    <3>2. {g[x] : x \in 1 .. Len(os)} = {os[m].text : m \in DOMAIN os}
      BY <3>1
    <3>3. \A x \in 1 .. Len(os) : g[x] = os[x].text
      OBVIOUS
    <3> HIDE DEF g
    <3>4. \A x, y \in 1 .. Len(os) : g[x] = g[y] => x = y
      BY <2>1, <3>1, <3>2, Distinct
    <3> QED
      BY <3>1, <3>3, <3>4
  <2>4. \E o \in DOMAIN os : \A p \in DOMAIN os : os[p].isCorrect = (p = o)
    <3>1. Right(os) \in SUBSET (1 .. Len(os)) /\ Len(os) \in Nat
      BY <2>2 DEF IsList
    <3>2. PICK o \in Right(os) : \A p \in Right(os) : o = p
      <4> HIDE DEF Right
      <4> QED
        BY <2>1, <3>1, JustOne
    <3>3. \A p \in DOMAIN os : os[p].isCorrect = (p = o)
      BY <2>2, <3>2
    <3> QED
      BY <3>2, <3>3
  <2> QED
    BY <2>1, <2>3, <2>4 DEF os
<1> QED
  BY <1>2, <1>4

(* Its bands.                                                              *)
LEMMA ValidBands ==
  ASSUME NEW bs, IsList(bs), ValidateImportedPlacementBands(bs) = {},
         \A n \in DOMAIN bs : {bs[n].minPercentage, bs[n].maxPercentage} \subseteq 0 .. HundredPercent
  PROVE  /\ \A n, m \in DOMAIN bs : bs[n].order = bs[m].order => n = m
         /\ \A n \in DOMAIN bs : bs[n].minPercentage <= bs[n].maxPercentage
<1> DEFINE Bad(b) == \/ IsBlank(b.label)
                     \/ b.order \notin Nat
                     \/ b.minPercentage < 0 \/ b.maxPercentage > HundredPercent
                     \/ b.minPercentage > b.maxPercentage
           BadOnes == {n \in DOMAIN bs : Bad(bs[n])}
           g == [n \in 1 .. Len(bs) |-> bs[n].order]
<1>1. Len(bs) \in Nat /\ DOMAIN bs = 1 .. Len(bs) /\ DOMAIN g = 1 .. Len(bs)
  BY DEF IsList
<1>2. ~ (Cardinality(BadOnes) > 0)
  BY DEF ValidateImportedPlacementBands, Count
<1>3. Cardinality({bs[n].order : n \in DOMAIN bs}) = Len(bs)
  BY DEF ValidateImportedPlacementBands
<1>4. BadOnes = {}
  <2>1. BadOnes \in SUBSET (1 .. Len(bs))
    BY <1>1
  <2> HIDE DEF BadOnes
  <2> QED
    BY <1>1, <1>2, <2>1, NoneSuch
<1>5. ASSUME NEW n \in DOMAIN bs PROVE bs[n].minPercentage <= bs[n].maxPercentage
  <2>1. ~ (bs[n].minPercentage > bs[n].maxPercentage)
    BY <1>4
  <2>2. bs[n].minPercentage \in Int /\ bs[n].maxPercentage \in Int
    OBVIOUS
  <2> QED
    BY <2>1, <2>2
<1>6. {g[x] : x \in 1 .. Len(bs)} = {bs[n].order : n \in DOMAIN bs}
  BY <1>1
<1>7. \A x \in 1 .. Len(bs) : g[x] = bs[x].order
  OBVIOUS
<1> HIDE DEF g
<1>8. \A x, y \in 1 .. Len(bs) : g[x] = g[y] => x = y
  BY <1>1, <1>3, <1>6, Distinct
<1> QED
  BY <1>1, <1>5, <1>7, <1>8

(* A draft without an issue.                                               *)
LEMMA DraftIsSound ==
  ASSUME NEW draft, ParsesAsDraft(draft), ValidateImportDraft(draft) = {},
         IsList(draft.questions), IsList(draft.placementBands),
         \A n \in DOMAIN draft.questions :
           /\ IsList(draft.questions[n].options)
           /\ \A o \in DOMAIN draft.questions[n].options :
                draft.questions[n].options[o].isCorrect \in BOOLEAN
  PROVE  IsSound(draft)
<1> DEFINE qs == draft.questions
           bs == draft.placementBands
           A == {issue \in {"TITLE", "DURATION", "NO_QUESTIONS"} :
                   CASE issue = "TITLE"        -> IsBlank(draft.title)
                     [] issue = "DURATION"     -> ~ IsDuration(draft.durationSeconds)
                     [] issue = "NO_QUESTIONS" -> draft.questions = <<>>}
           B == ValidateNormalizedQuestions(qs, Len(qs), 2 .. 10)
           C == ValidateImportedPlacementBands(bs)
<1>1. A \cup B \cup C = {}
  BY DEF ValidateImportDraft
<1>2. B = {} /\ C = {}
  <2> HIDE DEF A, B, C
  <2> QED
    BY <1>1
<1>3. Len(qs) \in 1 .. 500
  BY DEF ParsesAsDraft
<1>4. \A n \in DOMAIN bs : {bs[n].minPercentage, bs[n].maxPercentage} \subseteq 0 .. HundredPercent
  BY DEF ParsesAsDraft
<1>5. IsList(qs) /\ IsList(bs)
  OBVIOUS
<1>6. \A n \in DOMAIN qs : /\ IsList(qs[n].options)
                           /\ \A o \in DOMAIN qs[n].options :
                                qs[n].options[o].isCorrect \in BOOLEAN
  OBVIOUS
<1> HIDE DEF A, B, C
<1>7. ASSUME qs # <<>>,
             \A k \in 1 .. Len(qs) : \E n \in DOMAIN qs : qs[n].order = k,
             \A n \in DOMAIN qs :
               /\ Len(qs[n].options) \in 2 .. 10
               /\ \E o \in DOMAIN qs[n].options :
                    \A p \in DOMAIN qs[n].options : qs[n].options[p].isCorrect = (p = o)
               /\ \A o, p \in DOMAIN qs[n].options :
                    qs[n].options[o].text = qs[n].options[p].text => o = p,
             \A n, m \in DOMAIN bs : bs[n].order = bs[m].order => n = m,
             \A n \in DOMAIN bs : bs[n].minPercentage <= bs[n].maxPercentage
      PROVE  IsSound(draft)
  BY <1>7 DEF IsSound
<1>8. ValidateNormalizedQuestions(qs, Len(qs), 2 .. 10) = {} /\ ValidateImportedPlacementBands(bs) = {}
  BY <1>2 DEF B, C
<1> HIDE DEF qs, bs
<1>9. qs # <<>>
  <2>1. Len(<<>>) = 0
    OBVIOUS
  <2>2. ASSUME qs = <<>> PROVE FALSE
    <3>1. Len(qs) = 0
      BY <2>1, <2>2, Zenon
    <3> QED
      BY <1>3, <3>1
  <2> QED
    BY <2>2
<1>10. /\ \A k \in 1 .. Len(qs) : \E n \in DOMAIN qs : qs[n].order = k
       /\ \A n \in DOMAIN qs :
            /\ Len(qs[n].options) \in 2 .. 10
            /\ \E o \in DOMAIN qs[n].options :
                 \A p \in DOMAIN qs[n].options : qs[n].options[p].isCorrect = (p = o)
            /\ \A o, p \in DOMAIN qs[n].options :
                 qs[n].options[o].text = qs[n].options[p].text => o = p
  <2> DEFINE counts == 2 .. 10
  <2>1. ValidateNormalizedQuestions(qs, Len(qs), counts) = {}
    BY <1>8
  <2> HIDE DEF counts
  <2>2. /\ \A k \in 1 .. Len(qs) : \E n \in DOMAIN qs : qs[n].order = k
        /\ \A n \in DOMAIN qs :
             /\ Len(qs[n].options) \in counts
             /\ \E o \in DOMAIN qs[n].options :
                  \A p \in DOMAIN qs[n].options : qs[n].options[p].isCorrect = (p = o)
             /\ \A o, p \in DOMAIN qs[n].options :
                  qs[n].options[o].text = qs[n].options[p].text => o = p
    BY <1>5, <1>6, <2>1, ValidQuestions
  <2> QED
    BY <2>2 DEF counts
<1>11. /\ \A n, m \in DOMAIN bs : bs[n].order = bs[m].order => n = m
       /\ \A n \in DOMAIN bs : bs[n].minPercentage <= bs[n].maxPercentage
  BY <1>4, <1>5, <1>8, ValidBands, Zenon
<1> QED
  BY <1>7, <1>9, <1>10, <1>11

(* A file in which the server finds nothing wrong is sound.                *)
LEMMA ValidIsSound ==
  ASSUME NEW f \in Files, ParseAndValidate(f) = {}
  PROVE  IsSound(Content[f]) /\ Content[f].title \in Titles
<1>1. ParsesAsDraft(Content[f]) /\ ValidateImportDraft(Content[f]) = {}
  <2>1. CASE ParsesAsDraft(Content[f])
    BY <2>1 DEF ParseAndValidate
  <2>2. CASE ~ ParsesAsDraft(Content[f])
    <3>1. ParseAndValidate(f) = {"PARSE"}
      BY <2>2 DEF ParseAndValidate
    <3> QED
      BY <3>1
  <2> QED
    BY <2>1, <2>2
<1>2. Content[f] # None
  BY <1>1, Zenon DEF ParsesAsDraft
<1>3. /\ IsList(Content[f].questions) /\ IsList(Content[f].placementBands)
      /\ \A n \in DOMAIN Content[f].questions :
           /\ IsList(Content[f].questions[n].options)
           /\ \A o \in DOMAIN Content[f].questions[n].options :
                Content[f].questions[n].options[o].isCorrect \in BOOLEAN
  BY <1>2, ContentAssumption, Zenon
<1>4. Content[f].title \in Titles
  BY <1>2, TitlesAssumption, Zenon
<1> QED
  BY <1>1, <1>3, <1>4, DraftIsSound, Zenon

-----------------------------------------------------------------------------
(* ... and a sound draft is valid.                                         *)

LEMMA AllDistinct ==
  ASSUME NEW n \in Nat, NEW g, DOMAIN g = 1 .. n,
         \A x, y \in 1 .. n : g[x] = g[y] => x = y
  PROVE  Cardinality({g[x] : x \in 1 .. n}) = n
<1> DEFINE T == {g[x] : x \in 1 .. n}
           h == [x \in 1 .. n |-> g[x]]
<1>1. IsFiniteSet(1 .. n) /\ Cardinality(1 .. n) = n
  BY Places
<1>2. h \in Surjection(1 .. n, T) /\ h \in Injection(1 .. n, T)
  BY DEF Surjection, Injection, IsInjective
<1> HIDE DEF h
<1> QED
  BY <1>1, <1>2, FS_Surjection

(* The same of a list, by the numbers or the texts in it; numbers that are *)
(* all there are there once.                                               *)
LEMMA OrdersComplete ==
  ASSUME NEW s, IsList(s), \A k \in 1 .. Len(s) : \E x \in DOMAIN s : s[x].order = k
  PROVE  Cardinality({s[x].order : x \in DOMAIN s}) = Len(s)
<1>1. PICK n \in Nat : n = Len(s) /\ DOMAIN s = 1 .. n
  BY DEF IsList
<1>2. PICK T : T = {s[x].order : x \in DOMAIN s}
  OBVIOUS
<1>3. PICK h : h = [x \in 1 .. n |-> s[x].order]
  OBVIOUS
<1>4. IsFiniteSet(1 .. n) /\ Cardinality(1 .. n) = n
  BY Places
<1>5. h \in Surjection(1 .. n, T)
  BY <1>1, <1>2, <1>3 DEF Surjection
<1>6. IsFiniteSet(T) /\ Cardinality(T) <= n
  BY <1>4, <1>5, FS_Surjection
<1>7. 1 .. n \in SUBSET T
  BY <1>1, <1>2
<1>8. n <= Cardinality(T)
  BY <1>4, <1>6, <1>7, FS_Subset
<1>9. Cardinality(T) \in Nat
  BY <1>6, FS_CardinalityType
<1> QED
  BY <1>1, <1>2, <1>6, <1>8, <1>9

LEMMA OrdersDiffer ==
  ASSUME NEW s, IsList(s), \A x, y \in DOMAIN s : s[x].order = s[y].order => x = y
  PROVE  Cardinality({s[x].order : x \in DOMAIN s}) = Len(s)
<1>1. PICK n \in Nat : n = Len(s) /\ DOMAIN s = 1 .. n
  BY DEF IsList
<1>2. PICK g : g = [x \in 1 .. n |-> s[x].order]
  OBVIOUS
<1>3. DOMAIN g = 1 .. n /\ \A x \in 1 .. n : g[x] = s[x].order
  BY <1>2
<1>4. \A x, y \in 1 .. n : g[x] = g[y] => x = y
  BY <1>1, <1>3
<1>5. Cardinality({g[x] : x \in 1 .. n}) = n
  BY <1>3, <1>4, AllDistinct
<1>6. {g[x] : x \in 1 .. n} = {s[x].order : x \in DOMAIN s}
  BY <1>1, <1>3
<1> QED
  BY <1>1, <1>5, <1>6

LEMMA TextsDiffer ==
  ASSUME NEW s, IsList(s), \A x, y \in DOMAIN s : s[x].text = s[y].text => x = y
  PROVE  Cardinality({s[x].text : x \in DOMAIN s}) = Len(s)
<1>1. PICK n \in Nat : n = Len(s) /\ DOMAIN s = 1 .. n
  BY DEF IsList
<1>2. PICK g : g = [x \in 1 .. n |-> s[x].text]
  OBVIOUS
<1>3. DOMAIN g = 1 .. n /\ \A x \in 1 .. n : g[x] = s[x].text
  BY <1>2
<1>4. \A x, y \in 1 .. n : g[x] = g[y] => x = y
  BY <1>1, <1>3
<1>5. Cardinality({g[x] : x \in 1 .. n}) = n
  BY <1>3, <1>4, AllDistinct
<1>6. {g[x] : x \in 1 .. n} = {s[x].text : x \in DOMAIN s}
  BY <1>1, <1>3
<1> QED
  BY <1>1, <1>5, <1>6

LEMMA SoundQuestions ==
  ASSUME NEW qs, IsList(qs), NEW counts,
         \A k \in 1 .. Len(qs) : \E n \in DOMAIN qs : qs[n].order = k,
         \A n \in DOMAIN qs :
           /\ IsList(qs[n].options)
           /\ Len(qs[n].options) \in counts
           /\ \E o \in DOMAIN qs[n].options :
                \A p \in DOMAIN qs[n].options : qs[n].options[p].isCorrect = (p = o)
           /\ \A o, p \in DOMAIN qs[n].options :
                qs[n].options[o].text = qs[n].options[p].text => o = p
           /\ ~ IsBlank(qs[n].prompt)
           /\ \A o \in DOMAIN qs[n].options : ~ IsBlank(qs[n].options[o].text)
  PROVE  ValidateNormalizedQuestions(qs, Len(qs), counts) = {}
<1> DEFINE Right(os) == {n \in DOMAIN os : os[n].isCorrect}
           Empties(os) == {n \in DOMAIN os : IsBlank(os[n].text)}
           Bad(q) == \/ Len(q.options) \notin counts
                     \/ Cardinality(Right(q.options)) # 1
                     \/ Cardinality({q.options[n].text : n \in DOMAIN q.options})
                          # Len(q.options)
                     \/ IsBlank(q.prompt)
                     \/ Cardinality(Empties(q.options)) > 0
           BadOnes == {n \in DOMAIN qs : Bad(qs[n])}
<1>1. Len(qs) \in Nat /\ DOMAIN qs = 1 .. Len(qs)
  BY DEF IsList
<1>2. Cardinality({qs[n].order : n \in DOMAIN qs}) = Len(qs)
  BY OrdersComplete
<1>3. 1 .. Len(qs) \subseteq {qs[n].order : n \in DOMAIN qs}
  OBVIOUS
<1>4. ASSUME NEW n \in DOMAIN qs
      PROVE  ~ Bad(qs[n])
  <2>1. PICK os : os = qs[n].options
    OBVIOUS
  <2>2. /\ IsList(os) /\ DOMAIN os = 1 .. Len(os)
        /\ Len(os) \in counts
        /\ \A o, p \in DOMAIN os : os[o].text = os[p].text => o = p
        /\ \A o \in DOMAIN os : ~ IsBlank(os[o].text)
    BY <2>1 DEF IsList
  <2>3. PICK o \in DOMAIN os : \A p \in DOMAIN os : os[p].isCorrect = (p = o)
    BY <2>1
  <2>4. Cardinality(Right(os)) = 1
    <3>1. Right(os) = {o}
      BY <2>3
    <3> QED
      BY <3>1, FS_Singleton
  <2>5. Cardinality({os[m].text : m \in DOMAIN os}) = Len(os)
    <3>1. IsList(os) /\ \A x, y \in DOMAIN os : os[x].text = os[y].text => x = y
      BY <2>2
    <3> HIDE DEF Right, Empties
    <3> QED
      BY <3>1, TextsDiffer, Zenon
  <2>6. ~ (Cardinality(Empties(os)) > 0)
    <3>1. Empties(os) = {}
      BY <2>2
    <3> HIDE DEF Empties
    <3> QED
      BY <3>1, FS_EmptySet
  <2>7. ~ IsBlank(qs[n].prompt)
    OBVIOUS
  <2> HIDE DEF Right, Empties
  <2> QED
    BY <2>1, <2>2, <2>4, <2>5, <2>6, <2>7
<1>5. ~ (Cardinality(BadOnes) > 0)
  <2>1. BadOnes = {}
    BY <1>4
  <2> HIDE DEF BadOnes
  <2> QED
    BY <2>1, FS_EmptySet
<1> QED
  BY <1>2, <1>3, <1>5 DEF ValidateNormalizedQuestions, Count

LEMMA SoundBands ==
  ASSUME NEW bs, IsList(bs),
         \A n, m \in DOMAIN bs : bs[n].order = bs[m].order => n = m,
         \A n \in DOMAIN bs :
           /\ bs[n].order \in Nat /\ ~ IsBlank(bs[n].label)
           /\ {bs[n].minPercentage, bs[n].maxPercentage} \subseteq 0 .. HundredPercent
           /\ bs[n].minPercentage <= bs[n].maxPercentage
  PROVE  ValidateImportedPlacementBands(bs) = {}
<1> DEFINE Bad(b) == \/ IsBlank(b.label)
                     \/ b.order \notin Nat
                     \/ b.minPercentage < 0 \/ b.maxPercentage > HundredPercent
                     \/ b.minPercentage > b.maxPercentage
           BadOnes == {n \in DOMAIN bs : Bad(bs[n])}
<1>2. Cardinality({bs[n].order : n \in DOMAIN bs}) = Len(bs)
  BY OrdersDiffer
<1>3. BadOnes = {}
  <2>1. ASSUME NEW n \in DOMAIN bs PROVE ~ Bad(bs[n])
    <3>1. PICK lo, hi : lo = bs[n].minPercentage /\ hi = bs[n].maxPercentage
      OBVIOUS
    <3>2. lo \in 0 .. HundredPercent /\ hi \in 0 .. HundredPercent /\ lo <= hi
      BY <3>1
    <3>3. ~ (lo < 0) /\ ~ (hi > HundredPercent) /\ ~ (lo > hi)
      <4>1. HundredPercent \in Int
        BY DEF HundredPercent
      <4> QED
        BY <3>2, <4>1
    <3>4. bs[n].order \in Nat /\ ~ IsBlank(bs[n].label)
      OBVIOUS
    <3> QED
      BY <3>1, <3>3, <3>4
  <2> QED
    BY <2>1
<1>4. ~ (Cardinality(BadOnes) > 0)
  <2> HIDE DEF BadOnes
  <2> QED
    BY <1>3, FS_EmptySet
<1> QED
  BY <1>2, <1>4 DEF ValidateImportedPlacementBands, Count

LEMMA SoundIsValid ==
  ASSUME NEW draft, ParsesAsDraft(draft), IsSound(draft),
         IsList(draft.questions), IsList(draft.placementBands),
         \A n \in DOMAIN draft.questions : IsList(draft.questions[n].options)
  PROVE  ValidateImportDraft(draft) = {}
<1> DEFINE qs     == draft.questions
           bs     == draft.placementBands
           counts == 2 .. 10
<1>1. /\ qs # <<>> /\ IsList(qs) /\ IsList(bs)
      /\ \A k \in 1 .. Len(qs) : \E n \in DOMAIN qs : qs[n].order = k
      /\ \A n, m \in DOMAIN bs : bs[n].order = bs[m].order => n = m
      /\ \A n \in DOMAIN bs : bs[n].minPercentage <= bs[n].maxPercentage
  BY DEF IsSound
<1>2. \A n \in DOMAIN qs :
         /\ IsList(qs[n].options)
         /\ Len(qs[n].options) \in counts
         /\ \E o \in DOMAIN qs[n].options :
              \A p \in DOMAIN qs[n].options : qs[n].options[p].isCorrect = (p = o)
         /\ \A o, p \in DOMAIN qs[n].options :
              qs[n].options[o].text = qs[n].options[p].text => o = p
  BY DEF IsSound
<1>3. \A n \in DOMAIN qs :
         /\ ~ IsBlank(qs[n].prompt)
         /\ \A o \in DOMAIN qs[n].options : ~ IsBlank(qs[n].options[o].text)
  BY Zenon DEF ParsesAsDraft
<1>4. \A n \in DOMAIN bs :
         /\ bs[n].order \in Nat /\ ~ IsBlank(bs[n].label)
         /\ {bs[n].minPercentage, bs[n].maxPercentage} \subseteq 0 .. HundredPercent
  BY DEF ParsesAsDraft
<1>5. ~ IsBlank(draft.title) /\ IsDuration(draft.durationSeconds)
  BY Zenon DEF ParsesAsDraft
<1>6. {issue \in {"TITLE", "DURATION", "NO_QUESTIONS"} :
         CASE issue = "TITLE"        -> IsBlank(draft.title)
           [] issue = "DURATION"     -> ~ IsDuration(draft.durationSeconds)
           [] issue = "NO_QUESTIONS" -> draft.questions = <<>>} = {}
  BY <1>1, <1>5
<1> HIDE DEF qs, bs, counts
<1>7. ValidateNormalizedQuestions(qs, Len(qs), counts) = {}
  BY <1>1, <1>2, <1>3, SoundQuestions
<1>8. ValidateImportedPlacementBands(bs) = {}
  BY <1>1, <1>4, SoundBands
<1> QED
  BY <1>6, <1>7, <1>8 DEF ValidateImportDraft, qs, bs, counts

(* validateImportDraft is exact: a file that importedTestJsonSchema lets   *)
(* through is refused when, and only when, it is not sound (its questions  *)
(* are not numbered 1..N, one has not 2 to 10 different options with one   *)
(* right one, two bands share an order or one has no range).               *)
THEOREM FilesAreJudgedExactly ==
  \A f \in Files : ParsesAsDraft(Content[f]) =>
    (ParseAndValidate(f) = {} <=> IsSound(Content[f]))
<1> SUFFICES ASSUME NEW f \in Files, ParsesAsDraft(Content[f])
             PROVE  ParseAndValidate(f) = {} <=> IsSound(Content[f])
  OBVIOUS
<1>1. ASSUME IsSound(Content[f])
      PROVE  ParseAndValidate(f) = {}
  <2>1. Content[f] # None
    BY Zenon DEF ParsesAsDraft
  <2>2. /\ IsList(Content[f].questions) /\ IsList(Content[f].placementBands)
        /\ \A n \in DOMAIN Content[f].questions : IsList(Content[f].questions[n].options)
    BY <2>1, ContentAssumption, Zenon
  <2>3. ValidateImportDraft(Content[f]) = {}
    BY <1>1, <2>2, SoundIsValid, Zenon
  <2> QED
    BY <2>3 DEF ParseAndValidate
<1> QED
  BY <1>1, ValidIsSound

-----------------------------------------------------------------------------
(* Types.                                                                  *)

LEMMA Blanks ==
  /\ \A status \in {"idle", "loading", "error", "ready", "ok"} :
       PreviewState(status) \in Shown
  /\ Idle \in Shown /\ Closed \in Dialog /\ Free \in Request
BY DEF PreviewState, Idle, Closed, Free, Shown, Dialog, Request, SourceNames,
   MaybeFile

LEMMA InitType == Init => TypeOK
BY Blanks DEF Init, TypeOK

LEMMA AbandonedType ==
  ASSUME NEW q \in Request
  PROVE  Abandoned(q) \in Request
BY Blanks DEF Abandoned, Request

(* What the dialog does without a request.                                 *)
LEMMA DialogAlone ==
  ASSUME TypeOK, NEW d \in Dialogs
  PROVE  /\ \A s \in SourceNames, v \in Shown :
              [dialog EXCEPT ![d].source = s, ![d].preview = v] \in [Dialogs -> Dialog]
         /\ \A f \in MaybeFile, v \in Shown :
              [dialog EXCEPT ![d].file = f, ![d].preview = v] \in [Dialogs -> Dialog]
         /\ \A v \in Shown :
              [dialog EXCEPT ![d].preview = v] \in [Dialogs -> Dialog]
         /\ \A b \in BOOLEAN :
              /\ [dialog EXCEPT ![d].confirming = b] \in [Dialogs -> Dialog]
              /\ [dialog EXCEPT ![d] = [Closed EXCEPT !.confirming = b]]
                   \in [Dialogs -> Dialog]
         /\ [dialog EXCEPT ![d] = Closed] \in [Dialogs -> Dialog]
<1>1. dialog \in [Dialogs -> Dialog] /\ dialog[d] \in Dialog
  BY DEF TypeOK
<1>2. /\ \A s \in SourceNames, v \in Shown :
           [dialog[d] EXCEPT !.source = s, !.preview = v] \in Dialog
      /\ \A f \in MaybeFile, v \in Shown :
           [dialog[d] EXCEPT !.file = f, !.preview = v] \in Dialog
      /\ \A v \in Shown : [dialog[d] EXCEPT !.preview = v] \in Dialog
      /\ \A b \in BOOLEAN : /\ [dialog[d] EXCEPT !.confirming = b] \in Dialog
                             /\ [Closed EXCEPT !.confirming = b] \in Dialog
  BY <1>1, Blanks DEF Dialog
<1> QED
  BY <1>1, <1>2, Blanks

(* A request that is sent.                                                 *)
LEMMA SendType ==
  ASSUME TypeOK, NEW r \in Requests, NEW kind \in {"preview", "confirm"},
         NEW d \in Dialogs, NEW s \in SourceNames, NEW f \in MaybeFile,
         Send(r, kind, d, s, f)
  PROVE  /\ request' \in [Requests -> Request]
         /\ request'[r].pc = "sent"
         /\ request'[r].known => kind = "confirm" /\ Taken
         /\ \A x \in Requests \ {r} : request'[x] = request[x]
<1> DEFINE known == kind = "confirm" /\ s = "language-hub" /\ TitleTaken(HubTitle)
           q == [Free EXCEPT !.kind = kind, !.dialog = d, !.source = s,
                             !.file = f, !.pc = "sent", !.known = known]
<1>1. known \in BOOLEAN
  OBVIOUS
<1>2. request' = [request EXCEPT ![r] = q]
  BY DEF Send
<1>3. known => kind = "confirm" /\ Taken
  BY DEF Taken
<1> HIDE DEF known
<1>4. q \in Request /\ q.pc = "sent"
  BY <1>1, Blanks DEF Request, Free
<1>5. q.known = known
  BY DEF Free
<1> HIDE DEF q
<1>6. request'[r] = q /\ \A x \in Requests \ {r} : request'[x] = request[x]
  BY <1>2 DEF TypeOK
<1>7. request' \in [Requests -> Request]
  BY <1>2, <1>4 DEF TypeOK
<1> QED
  BY <1>3, <1>4, <1>5, <1>6, <1>7

-----------------------------------------------------------------------------
(* How a request may change in one step: it is known only if it was, or if *)
(* the dataset is there; it is past the check only if it was, with the     *)
(* source and the file it had.                                             *)
Evolves(x) ==
  /\ request'[x].known => request[x].known \/ Taken
  /\ request'[x].pc = "checked" => /\ request[x].pc = "checked"
                                   /\ request'[x].source = request[x].source
                                   /\ request'[x].file = request[x].file
                                   /\ request'[x].known => request[x].known

Step == TypeOK' /\ \A x \in Requests : Evolves(x)

LEMMA BrowseAlone ==
  ASSUME TypeOK, NEW d \in Dialogs,
         \/ \E source \in SourceNames : SelectSource(d, source)
         \/ \E file \in MaybeFile : HandleFileChange(d, file)
         \/ Back(d) \/ Close(d)
  PROVE  Step /\ UNCHANGED tests
<1>1. UNCHANGED <<request, tests>>
  BY DEF SelectSource, HandleFileChange, Back, Close
<1>2. \A x \in Requests : Evolves(x)
  BY <1>1 DEF Evolves
<1>3. dialog' \in [Dialogs -> Dialog]
  <2>1. ASSUME NEW source \in SourceNames, SelectSource(d, source)
        PROVE  dialog' \in [Dialogs -> Dialog]
    BY <2>1, DialogAlone, Blanks DEF SelectSource
  <2>2. ASSUME NEW file \in MaybeFile, HandleFileChange(d, file)
        PROVE  dialog' \in [Dialogs -> Dialog]
    BY <2>2, DialogAlone, Blanks DEF HandleFileChange
  <2>3. CASE Back(d)
    BY <2>3, DialogAlone, Blanks DEF Back
  <2>4. CASE Close(d)
    <3>1. dialog[d].confirming \in BOOLEAN
      BY DEF TypeOK, Dialog
    <3> QED
      BY <2>4, <3>1, DialogAlone DEF Close
  <2> QED
    BY <2>1, <2>2, <2>3, <2>4
<1> QED
  BY <1>1, <1>2, <1>3 DEF Step, TypeOK

LEMMA SelectedType ==
  ASSUME TypeOK, NEW d \in Dialogs
  PROVE  /\ dialog[d].source \in SourceNames /\ dialog[d].file \in MaybeFile
         /\ dialog[d].preview.source \in SourceNames
         /\ None \in MaybeFile
BY DEF TypeOK, Dialog, Shown, MaybeFile

LEMMA HandlePreviewStep ==
  ASSUME TypeOK, NEW d \in Dialogs, NEW r \in Requests, HandlePreview(d, r)
  PROVE  Step /\ UNCHANGED tests
<1> DEFINE source == dialog[d].source
           file   == IF source = "json" THEN dialog[d].file ELSE None
<1>1. source \in SourceNames /\ file \in MaybeFile
  BY SelectedType
<1>2. Send(r, "preview", d, source, file)
  BY DEF HandlePreview
<1> HIDE DEF source, file
<1>3. /\ request' \in [Requests -> Request]
      /\ request'[r].pc = "sent" /\ ~ request'[r].known
      /\ \A x \in Requests \ {r} : request'[x] = request[x]
  BY <1>1, <1>2, SendType
<1>4. ASSUME NEW x \in Requests PROVE Evolves(x)
  <2>1. CASE x = r
    BY <1>3, <2>1 DEF Evolves
  <2>2. CASE x # r
    <3>1. request'[x] = request[x]
      BY <1>3, <2>2
    <3> QED
      BY <3>1 DEF Evolves
  <2> QED
    BY <2>1, <2>2
<1>5. dialog' \in [Dialogs -> Dialog] /\ UNCHANGED tests
  BY DialogAlone, Blanks DEF HandlePreview
<1> QED
  BY <1>3, <1>4, <1>5 DEF Step, TypeOK

LEMMA HandleConfirmStep ==
  ASSUME TypeOK, NEW d \in Dialogs, NEW r \in Requests, HandleConfirm(d, r)
  PROVE  Step /\ UNCHANGED tests
<1> DEFINE source == dialog[d].preview.source
           file   == IF source = "json" THEN dialog[d].file ELSE None
<1>1. source \in SourceNames /\ file \in MaybeFile
  BY SelectedType
<1>2. Send(r, "confirm", d, source, file)
  BY DEF HandleConfirm
<1> HIDE DEF source, file
<1>3. /\ request' \in [Requests -> Request]
      /\ request'[r].pc = "sent" /\ (request'[r].known => Taken)
      /\ \A x \in Requests \ {r} : request'[x] = request[x]
  BY <1>1, <1>2, SendType
<1>4. ASSUME NEW x \in Requests PROVE Evolves(x)
  <2>1. CASE x = r
    BY <1>3, <2>1 DEF Evolves
  <2>2. CASE x # r
    <3>1. request'[x] = request[x]
      BY <1>3, <2>2
    <3> QED
      BY <3>1 DEF Evolves
  <2> QED
    BY <2>1, <2>2
<1>5. dialog' \in [Dialogs -> Dialog] /\ UNCHANGED tests
  BY DialogAlone DEF HandleConfirm
<1> QED
  BY <1>3, <1>4, <1>5 DEF Step, TypeOK

(* Letting go of requests keeps what they are about.                       *)
LEMMA AbandonedKeeps ==
  ASSUME NEW q \in Request
  PROVE  /\ Abandoned(q).known => q.known
         /\ Abandoned(q).pc = "checked" =>
              /\ q.pc = "checked"
              /\ Abandoned(q).source = q.source /\ Abandoned(q).file = q.file
BY DEF Abandoned, Request, Free

LEMMA ReloadStep ==
  ASSUME TypeOK, NEW d \in Dialogs, Reload(d)
  PROVE  Step /\ UNCHANGED tests
<1>1. \A x \in Requests : request[x] \in Request
  BY DEF TypeOK
<1>2. \A x \in Requests : request'[x] = Abandoned(request[x])
                            \/ request'[x] = request[x]
  BY DEF Reload
<1>3. \A x \in Requests : request'[x] \in Request
  BY <1>1, <1>2, AbandonedType
<1>4. request' \in [Requests -> Request]
  BY <1>3 DEF Reload
<1>5. ASSUME NEW x \in Requests PROVE Evolves(x)
  <2>1. CASE request'[x] = request[x]
    BY <2>1 DEF Evolves
  <2>2. CASE request'[x] = Abandoned(request[x])
    <3>1. /\ request'[x].known => request[x].known
          /\ request'[x].pc = "checked" =>
               /\ request[x].pc = "checked"
               /\ request'[x].source = request[x].source
               /\ request'[x].file = request[x].file
      BY <1>1, <2>2, AbandonedKeeps
    <3> QED
      BY <3>1 DEF Evolves
  <2> QED
    BY <1>2, <2>1, <2>2
<1>6. dialog' \in [Dialogs -> Dialog] /\ UNCHANGED tests
  BY DialogAlone DEF Reload
<1> QED
  BY <1>4, <1>5, <1>6 DEF Step, TypeOK

-----------------------------------------------------------------------------
(* The server's steps.                                                     *)

(* A request that is answered, or whose slot is free again.                *)
LEMMA AnsweredType ==
  ASSUME TypeOK, NEW r \in Requests, NEW reply \in Shown,
         request' = [request EXCEPT ![r].pc = "answered", ![r].reply = reply]
  PROVE  request' \in [Requests -> Request] /\ \A x \in Requests : Evolves(x)
<1> DEFINE q == [request[r] EXCEPT !.pc = "answered", !.reply = reply]
<1>1. request[r] \in Request
  BY DEF TypeOK
<1>2. q \in Request /\ q.pc = "answered"
  BY <1>1 DEF Request
<1>3. q.known = request[r].known
  BY <1>1 DEF Request
<1>4. request' = [request EXCEPT ![r] = q]
  OBVIOUS
<1> HIDE DEF q
<1>5. request' \in [Requests -> Request]
  BY <1>2, <1>4 DEF TypeOK
<1>6. request'[r] = q /\ \A x \in Requests \ {r} : request'[x] = request[x]
  BY <1>4 DEF TypeOK
<1>7. Evolves(r)
  BY <1>2, <1>3, <1>6 DEF Evolves
<1>8. ASSUME NEW x \in Requests \ {r} PROVE Evolves(x)
  <2>1. request'[x] = request[x]
    BY <1>6
  <2> QED
    BY <2>1 DEF Evolves
<1> QED
  BY <1>5, <1>7, <1>8

LEMMA FreedType ==
  ASSUME TypeOK, NEW r \in Requests, NEW q \in Request,
         q = Free \/ q = Abandoned(request[r]),
         request' = [request EXCEPT ![r] = q]
  PROVE  request' \in [Requests -> Request] /\ \A x \in Requests : Evolves(x)
<1>1. request' \in [Requests -> Request]
  BY DEF TypeOK
<1>2. request'[r] = q /\ \A x \in Requests \ {r} : request'[x] = request[x]
  BY DEF TypeOK
<1>3. /\ q.known => request[r].known
      /\ q.pc = "checked" => /\ request[r].pc = "checked"
                             /\ q.source = request[r].source
                             /\ q.file = request[r].file
  <2>1. request[r] \in Request
    BY DEF TypeOK
  <2>2. CASE q = Free
    BY <2>2 DEF Free
  <2> QED
    BY <2>1, <2>2, AbandonedKeeps
<1>4. Evolves(r)
  BY <1>2, <1>3 DEF Evolves
<1>5. ASSUME NEW x \in Requests \ {r} PROVE Evolves(x)
  <2>1. request'[x] = request[x]
    BY <1>2
  <2> QED
    BY <2>1 DEF Evolves
<1> QED
  BY <1>1, <1>4, <1>5

LEMMA PreviewStep ==
  ASSUME TypeOK, NEW r \in Requests, Preview(r)
  PROVE  Step /\ UNCHANGED tests
<1> DEFINE clear == <<request[r].source, request[r].file>> \in Valid
           may   == clear /\ (request[r].source = "language-hub" => ~ TitleTaken(HubTitle))
           reply == [status |-> "ready", source |-> request[r].source,
                     file |-> request[r].file, isImportable |-> may]
<1>1. may \in BOOLEAN
  OBVIOUS
<1>2. request[r] \in Request
  BY DEF TypeOK
<1>3. request' = [request EXCEPT ![r].pc = "answered", ![r].reply = reply]
  BY DEF Preview
<1> HIDE DEF may
<1>4. reply \in Shown
  BY <1>1, <1>2 DEF Request, Shown
<1> HIDE DEF reply
<1>5. UNCHANGED <<dialog, tests>>
  BY DEF Preview
<1> QED
  BY <1>3, <1>4, <1>5, AnsweredType DEF Step, TypeOK

LEMMA RefuseStep ==
  ASSUME TypeOK, NEW r \in Requests, RefuseRequest(r)
  PROVE  Step /\ UNCHANGED tests
<1>1. request' \in [Requests -> Request] /\ \A x \in Requests : Evolves(x)
  BY AnsweredType, Blanks DEF RefuseRequest
<1> QED
  BY <1>1 DEF RefuseRequest, Step, TypeOK

LEMMA ShowPreviewStep ==
  ASSUME TypeOK, NEW r \in Requests, ShowPreview(r)
  PROVE  Step /\ UNCHANGED tests
<1>1. request' \in [Requests -> Request] /\ \A x \in Requests : Evolves(x)
  BY FreedType, Blanks DEF ShowPreview
<1>2. request[r] \in Request
  BY DEF TypeOK
<1>3. request[r].reply \in Shown /\ request[r].dialog \in Dialogs \cup {None}
  BY <1>2 DEF Request
<1>4. dialog' \in [Dialogs -> Dialog]
  <2>1. CASE request[r].dialog = None
    BY <2>1 DEF ShowPreview, TypeOK
  <2>2. CASE request[r].dialog # None
    <3> DEFINE d == request[r].dialog
               v == request[r].reply
    <3>1. d \in Dialogs /\ v \in Shown
      BY <1>3, <2>2
    <3>2. dialog' = [dialog EXCEPT ![d].preview = v]
      BY <2>2 DEF ShowPreview
    <3> HIDE DEF d, v
    <3> QED
      BY <3>1, <3>2, DialogAlone
  <2> QED
    BY <2>1, <2>2
<1> QED
  BY <1>1, <1>4 DEF ShowPreview, Step, TypeOK

LEMMA FinishConfirmStep ==
  ASSUME TypeOK, NEW r \in Requests, FinishConfirm(r)
  PROVE  Step /\ UNCHANGED tests
<1>1. request' \in [Requests -> Request] /\ \A x \in Requests : Evolves(x)
  BY FreedType, Blanks DEF FinishConfirm
<1>2. request[r] \in Request
  BY DEF TypeOK
<1>3. request[r].dialog \in Dialogs \cup {None}
  BY <1>2 DEF Request
<1>4. dialog' \in [Dialogs -> Dialog]
  <2>1. CASE request[r].dialog = None
    BY <2>1 DEF FinishConfirm, TypeOK
  <2>2. CASE request[r].dialog # None
    <3> DEFINE d == request[r].dialog
    <3>1. d \in Dialogs
      BY <1>3, <2>2
    <3>2. \/ dialog' = [dialog EXCEPT ![d] = Closed]
          \/ dialog' = [dialog EXCEPT ![d].confirming = FALSE]
      BY <2>2 DEF FinishConfirm
    <3> HIDE DEF d
    <3>3. [dialog EXCEPT ![d].confirming = FALSE] \in [Dialogs -> Dialog]
      <4>1. dialog[d] \in Dialog /\ dialog \in [Dialogs -> Dialog]
        BY <3>1 DEF TypeOK
      <4>2. [dialog[d] EXCEPT !.confirming = FALSE] \in Dialog
        BY <4>1 DEF Dialog
      <4> QED
        BY <4>1, <4>2
    <3>4. [dialog EXCEPT ![d] = Closed] \in [Dialogs -> Dialog]
      BY <3>1, DialogAlone
    <3> QED
      BY <3>2, <3>3, <3>4
  <2> QED
    BY <2>1, <2>2
<1> QED
  BY <1>1, <1>4 DEF FinishConfirm, Step, TypeOK

LEMMA LoseResponseStep ==
  ASSUME TypeOK, NEW r \in Requests, LoseResponse(r)
  PROVE  Step /\ UNCHANGED tests
<1>1. request[r] \in Request
  BY DEF TypeOK
<1>2. Abandoned(request[r]) \in Request
  BY <1>1, AbandonedType
<1>3. request' = [request EXCEPT ![r] = Abandoned(request[r])]
  BY DEF LoseResponse
<1>4. request' \in [Requests -> Request] /\ \A x \in Requests : Evolves(x)
  BY <1>2, <1>3, FreedType
<1> QED
  BY <1>4 DEF LoseResponse, Step, TypeOK

(* The check: of the dataset only when it is not there.                    *)
LEMMA CheckImportStep ==
  ASSUME TypeOK, KnownIsTaken, NEW r \in Requests, CheckImport(r)
  PROVE  /\ TypeOK' /\ UNCHANGED tests
         /\ \A x \in Requests : request'[x].known => request[x].known
         /\ CheckedIsNew => CheckedIsNew'
         /\ CheckedIsSound => CheckedIsSound'
<1> DEFINE q == [request[r] EXCEPT !.pc = "checked"]
<1>1. request[r] \in Request
  BY DEF TypeOK
<1>2. q \in Request /\ q.source = request[r].source /\ q.file = request[r].file
  BY <1>1 DEF Request
<1>3. q.known = request[r].known
  BY <1>1 DEF Request
<1>4. request' = [request EXCEPT ![r] = q]
  BY DEF CheckImport
<1>5. request[r].source = "language-hub" => ~ Taken
  BY DEF CheckImport, MayPersist, Taken
<1> HIDE DEF q
<1>6. request'[r] = q /\ \A x \in Requests \ {r} : request'[x] = request[x]
  BY <1>4 DEF TypeOK
<1>7. TypeOK'
  BY <1>2, <1>4 DEF CheckImport, TypeOK
<1>8. q.source = "language-hub" => ~ q.known
  BY <1>2, <1>3, <1>5 DEF KnownIsTaken
<1>9. ASSUME NEW x \in Requests PROVE request'[x].known => request[x].known
  <2>1. CASE x = r
    BY <1>3, <1>6, <2>1
  <2>2. CASE x # r
    <3>1. request'[x] = request[x]
      BY <1>6, <2>2
    <3> QED
      BY <3>1
  <2> QED
    BY <2>1, <2>2
<1>10. ASSUME CheckedIsNew PROVE CheckedIsNew'
  <2> SUFFICES ASSUME NEW x \in Requests, request'[x].pc = "checked",
                      request'[x].source = "language-hub"
               PROVE  ~ request'[x].known
    BY DEF CheckedIsNew
  <2>1. CASE x = r
    BY <1>6, <1>8, <2>1
  <2>2. CASE x # r
    <3>1. request'[x] = request[x]
      BY <1>6, <2>2
    <3> QED
      BY <1>10, <3>1 DEF CheckedIsNew
  <2> QED
    BY <2>1, <2>2
<1>11. q.source = "json" => IsSound(Content[q.file]) /\ Content[q.file].title \in Titles
  <2> SUFFICES ASSUME request[r].source = "json"
               PROVE  /\ IsSound(Content[request[r].file])
                      /\ Content[request[r].file].title \in Titles
    BY <1>2
  <2>1. <<"json", request[r].file>> \in Valid
    BY DEF CheckImport, MayPersist
  <2>2. request[r].file \in Files
    BY <2>1 DEF Valid, Sources
  <2>3. ParseAndValidate(request[r].file) = {}
    BY <2>1 DEF Valid, IssuesOf
  <2> QED
    BY <2>2, <2>3, ValidIsSound
<1>12. ASSUME CheckedIsSound PROVE CheckedIsSound'
  <2> SUFFICES ASSUME NEW x \in Requests, request'[x].pc = "checked",
                      request'[x].source = "json"
               PROVE  /\ IsSound(Content[request'[x].file])
                      /\ Content[request'[x].file].title \in Titles
    BY DEF CheckedIsSound
  <2>1. CASE x = r
    BY <1>6, <1>11, <2>1
  <2>2. CASE x # r
    <3>1. request'[x] = request[x]
      BY <1>6, <2>2
    <3> QED
      BY <1>12, <3>1 DEF CheckedIsSound
  <2> QED
    BY <2>1, <2>2
<1> QED
  BY <1>7, <1>9, <1>10, <1>12 DEF CheckImport

(* The import: of the dataset only for a request not known to repeat it.   *)
LEMMA PersistStep ==
  ASSUME IInv, NEW r \in Requests, PersistImportedTest(r)
  PROVE  Step /\ (Taken => Taken') /\ NoImportOfAKnownDataset' /\ ImportedTestIsSound'
<1> DEFINE t == [source |-> request[r].source, file |-> request[r].file,
                 known |-> request[r].known,
                 title |-> TitleOf(request[r].source, request[r].file)]
<1>1. TypeOK /\ request[r] \in Request
  BY DEF IInv, TypeOK
<1>2. t \in Test
  <2>1. request[r].source \in SourceNames
    BY <1>1 DEF Request
  <2>2. CASE request[r].source = "language-hub"
    BY <1>1, <2>2, TitlesAssumption DEF Request, Test, TitleOf
  <2>3. CASE request[r].source = "json"
    <3>1. Content[request[r].file].title \in Titles
      BY <2>3 DEF IInv, CheckedIsSound, PersistImportedTest
    <3> QED
      BY <1>1, <2>3, <3>1 DEF Request, Test, TitleOf
  <2> QED
    BY <2>1, <2>2, <2>3 DEF SourceNames
<1>3. /\ t.source = "language-hub" => ~ t.known
      /\ t.source = "json" => IsSound(Content[t.file])
  BY DEF IInv, CheckedIsNew, CheckedIsSound, PersistImportedTest
<1>4. tests' = Append(tests, t) /\ UNCHANGED dialog
  BY DEF PersistImportedTest
<1> HIDE DEF t
<1>5. tests \in Seq(Test)
  BY <1>1 DEF TypeOK
<1>6. /\ tests' \in Seq(Test)
      /\ DOMAIN tests' = DOMAIN tests \cup {Len(tests) + 1}
      /\ tests'[Len(tests) + 1] = t
      /\ \A n \in DOMAIN tests : tests'[n] = tests[n]
  BY <1>2, <1>4, <1>5
<1>7. request' \in [Requests -> Request] /\ \A x \in Requests : Evolves(x)
  BY <1>1, AnsweredType, Blanks DEF PersistImportedTest
<1>8. Taken => Taken'
  <2> SUFFICES ASSUME Taken PROVE Taken'
    OBVIOUS
  <2>1. PICK n \in DOMAIN tests : tests[n].title = HubTitle
    BY DEF Taken, TitleTaken
  <2>2. n \in DOMAIN tests' /\ tests'[n] = tests[n]
    BY <1>6
  <2> QED
    BY <2>1, <2>2 DEF Taken, TitleTaken
<1>9. NoImportOfAKnownDataset'
  <2> SUFFICES ASSUME NEW n \in DOMAIN tests', tests'[n].source = "language-hub"
               PROVE  ~ tests'[n].known
    BY DEF NoImportOfAKnownDataset
  <2>1. CASE n \in DOMAIN tests
    BY <1>6, <2>1 DEF IInv, NoImportOfAKnownDataset
  <2>2. CASE n = Len(tests) + 1
    BY <1>3, <1>6, <2>2
  <2> QED
    BY <1>6, <2>1, <2>2
<1>10. ImportedTestIsSound'
  <2> SUFFICES ASSUME NEW n \in DOMAIN tests', tests'[n].source = "json"
               PROVE  IsSound(Content[tests'[n].file])
    BY DEF ImportedTestIsSound
  <2>1. CASE n \in DOMAIN tests
    BY <1>6, <2>1 DEF IInv, ImportedTestIsSound
  <2>2. CASE n = Len(tests) + 1
    BY <1>3, <1>6, <2>2
  <2> QED
    BY <1>6, <2>1, <2>2
<1> QED
  BY <1>1, <1>4, <1>6, <1>7, <1>8, <1>9, <1>10 DEF Step, TypeOK

(* A rename: whether the dataset is there may change, and what is known of *)
(* it changes with it.                                                     *)
LEMMA RenameStep ==
  ASSUME IInv, NEW n \in DOMAIN tests, NEW title \in Titles, RenameTest(n, title)
  PROVE  IInv'
<1> DEFINE Told(x) == [request[x] EXCEPT !.known = request[x].known /\ Taken']
<1>1. TypeOK
  BY DEF IInv
<1>2. request' = [x \in Requests |-> Told(x)]
  BY DEF RenameTest, Taken
<1>3. ASSUME NEW x \in Requests
      PROVE  /\ request'[x] \in Request
             /\ request'[x].pc = request[x].pc
             /\ request'[x].source = request[x].source
             /\ request'[x].file = request[x].file
             /\ request'[x].known => request[x].known /\ Taken'
  <2>1. PICK there \in BOOLEAN : there = (request[x].known /\ Taken')
    OBVIOUS
  <2>2. request'[x] = [request[x] EXCEPT !.known = there]
    BY <1>2, <2>1
  <2>3. request[x] \in Request
    BY <1>1 DEF TypeOK
  <2>4. request'[x].known = there
    BY <2>2, <2>3 DEF Request
  <2> QED
    BY <2>1, <2>2, <2>3, <2>4 DEF Request
<1>4. PICK t : t = [tests[n] EXCEPT !.title = title]
  OBVIOUS
<1>5. tests[n] \in Test
  BY <1>1 DEF TypeOK
<1>6. /\ t \in Test /\ t.source = tests[n].source /\ t.file = tests[n].file
      /\ t.known = tests[n].known
  BY <1>4, <1>5 DEF Test
<1>7. tests' = [tests EXCEPT ![n] = t]
  BY <1>4 DEF RenameTest
<1>8. /\ tests' \in Seq(Test) /\ DOMAIN tests' = DOMAIN tests
      /\ \A m \in DOMAIN tests : tests'[m] = IF m = n THEN t ELSE tests[m]
  BY <1>1, <1>6, <1>7 DEF TypeOK
<1>9. TypeOK'
  <2>1. request' \in [Requests -> Request]
    BY <1>2, <1>3
  <2>2. UNCHANGED dialog
    BY DEF RenameTest
  <2> QED
    BY <1>1, <1>8, <2>1, <2>2 DEF TypeOK
<1>10. KnownIsTaken' /\ CheckedIsNew' /\ CheckedIsSound'
  BY <1>3 DEF IInv, KnownIsTaken, CheckedIsNew, CheckedIsSound
<1>11. \A m \in DOMAIN tests : /\ tests'[m].source = tests[m].source
                              /\ tests'[m].file = tests[m].file
                              /\ tests'[m].known = tests[m].known
  BY <1>6, <1>8
<1>12. NoImportOfAKnownDataset' /\ ImportedTestIsSound'
  BY <1>8, <1>11 DEF IInv, NoImportOfAKnownDataset, ImportedTestIsSound
<1> QED
  BY <1>9, <1>10, <1>12 DEF IInv

-----------------------------------------------------------------------------
(* The invariant.                                                          *)

LEMMA ServeKinds ==
  ASSUME TypeOK, NEW r \in Requests, Serve(r)
  PROVE  \/ Step /\ UNCHANGED tests
         \/ CheckImport(r) \/ PersistImportedTest(r)
BY PreviewStep, ShowPreviewStep, RefuseStep, FinishConfirmStep, LoseResponseStep
   DEF Serve

LEMMA BrowseKinds ==
  ASSUME TypeOK, NEW d \in Dialogs, Browse(d)
  PROVE  Step /\ UNCHANGED tests
BY BrowseAlone, HandlePreviewStep, HandleConfirmStep, ReloadStep
   DEF Browse, SourceNames, MaybeFile

(* Steps that keep the dataset where it is keep what is known of it.       *)
LEMMA EvolvesKeeps ==
  ASSUME IInv, Step, Taken => Taken', NoImportOfAKnownDataset', ImportedTestIsSound'
  PROVE  IInv'
<1>1. KnownIsTaken'
  <2> SUFFICES ASSUME NEW x \in Requests, request'[x].known PROVE Taken'
    BY DEF KnownIsTaken
  <2>1. request[x].known \/ Taken
    BY DEF Step, Evolves
  <2> QED
    BY <2>1 DEF IInv, KnownIsTaken
<1>2. CheckedIsNew'
  <2> SUFFICES ASSUME NEW x \in Requests, request'[x].pc = "checked",
                      request'[x].source = "language-hub", request'[x].known
               PROVE  FALSE
    BY DEF CheckedIsNew
  <2>1. /\ request[x].pc = "checked" /\ request[x].source = "language-hub"
        /\ request[x].known
    BY DEF Step, Evolves
  <2> QED
    BY <2>1 DEF IInv, CheckedIsNew
<1>3. CheckedIsSound'
  <2> SUFFICES ASSUME NEW x \in Requests, request'[x].pc = "checked",
                      request'[x].source = "json"
               PROVE  /\ IsSound(Content[request'[x].file])
                      /\ Content[request'[x].file].title \in Titles
    BY DEF CheckedIsSound
  <2>1. /\ request[x].pc = "checked" /\ request[x].source = "json"
        /\ request'[x].file = request[x].file
    BY DEF Step, Evolves
  <2> QED
    BY <2>1 DEF IInv, CheckedIsSound
<1> QED
  BY <1>1, <1>2, <1>3 DEF IInv, Step

LEMMA SameTests ==
  ASSUME UNCHANGED tests
  PROVE  /\ Taken => Taken'
         /\ NoImportOfAKnownDataset => NoImportOfAKnownDataset'
         /\ ImportedTestIsSound => ImportedTestIsSound'
BY DEF Taken, TitleTaken, NoImportOfAKnownDataset, ImportedTestIsSound

LEMMA NextIInv == IInv /\ [Next]_vars => IInv'
<1> SUFFICES ASSUME IInv, [Next]_vars PROVE IInv'
  OBVIOUS
<1>1. TypeOK
  BY DEF IInv
<1>2. CASE UNCHANGED vars
  BY <1>2 DEF IInv, TypeOK, KnownIsTaken, CheckedIsNew, CheckedIsSound,
     NoImportOfAKnownDataset, ImportedTestIsSound, Taken, TitleTaken
<1>3. CASE Step /\ UNCHANGED tests
  BY <1>3, SameTests, EvolvesKeeps DEF IInv
<1>4. ASSUME NEW r \in Requests, CheckImport(r) PROVE IInv'
  <2>1. /\ TypeOK' /\ UNCHANGED tests /\ CheckedIsNew' /\ CheckedIsSound'
        /\ \A x \in Requests : request'[x].known => request[x].known
    BY <1>1, <1>4, CheckImportStep DEF IInv
  <2>2. KnownIsTaken'
    BY <2>1, SameTests DEF IInv, KnownIsTaken
  <2> QED
    BY <2>1, <2>2, SameTests DEF IInv
<1>5. ASSUME NEW r \in Requests, PersistImportedTest(r) PROVE IInv'
  BY <1>5, PersistStep, EvolvesKeeps
<1>6. CASE \E d \in Dialogs : Browse(d)
  BY <1>1, <1>3, <1>6, BrowseKinds
<1>7. CASE \E r \in Requests : Serve(r)
  BY <1>1, <1>3, <1>4, <1>5, <1>7, ServeKinds
<1>8. CASE \E n \in DOMAIN tests, title \in Titles : RenameTest(n, title)
  BY <1>8, RenameStep
<1> QED
  BY <1>2, <1>6, <1>7, <1>8 DEF Next

LEMMA InitIInv == Init => IInv
<1> SUFFICES ASSUME Init PROVE IInv
  OBVIOUS
<1>1. TypeOK /\ tests = <<>>
  BY InitType DEF Init
<1>2. \A x \in Requests : ~ request[x].known
  BY DEF Init, Free
<1>3. NoImportOfAKnownDataset /\ ImportedTestIsSound
  BY <1>1 DEF NoImportOfAKnownDataset, ImportedTestIsSound
<1>4. CheckedIsSound
  BY DEF Init, Free, CheckedIsSound
<1> QED
  BY <1>1, <1>2, <1>3, <1>4 DEF IInv, KnownIsTaken, CheckedIsNew

(* Everything above holds in every state the dialogs and requests reach.   *)
THEOREM Invariance == Spec => []IInv
BY InitIInv, NextIInv, PTL DEF Spec

(* Dialogs, requests and tests stay of their types.                        *)
THEOREM TypeCorrect == Spec => []TypeOK
<1>1. IInv => TypeOK
  BY DEF IInv
<1> QED
  BY <1>1, Invariance, PTL

(* No confirmation sent when a test of the dataset's title was there adds  *)
(* it again while one is, whatever replies are lost, late or shown in the  *)
(* wrong dialog, and whatever tests are renamed.                           *)
THEOREM NotImportedAgain == Spec => []NoImportOfAKnownDataset
<1>1. IInv => NoImportOfAKnownDataset
  BY DEF IInv
<1> QED
  BY <1>1, Invariance, PTL

(* No test is created from a file that is not sound, whatever the admin    *)
(* had previewed and whichever file the dialog was turned to meanwhile.    *)
THEOREM ImportsAreSound == Spec => []ImportedTestIsSound
<1>1. IInv => ImportedTestIsSound
  BY DEF IInv
<1> QED
  BY <1>1, Invariance, PTL
=============================================================================
