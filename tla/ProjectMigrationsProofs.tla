----------------------- MODULE ProjectMigrationsProofs ------------------------
(***************************************************************************)
(* Theorems about the migrations, for any documents, in any number of          *)
(* batches, any version to begin from, and any number of stops.               *)
(*                                                                           *)
(* What a document is to be at the last version can be told from the document *)
(* at any version: those are its promises.  A migration keeps them, if the     *)
(* document is sound: if what later migrations rely on is there.  A document   *)
(* sound for a version is sound for any earlier one, back to that from which   *)
(* the run began; so one that was migrated, and is migrated again from there,  *)
(* comes to the same.                                                        *)
(***************************************************************************)
EXTENDS ProjectMigrations, NaturalsInduction, WellFoundedInduction, TLAPS

\* Of versions, if any, one is the least.
LEMMA LeastVersion ==
    ASSUME NEW T \in SUBSET Nat, T # {}
    PROVE  \E n \in T : \A m \in T : n <= m
<1> DEFINE LT == {ss \in Nat \X Nat : ss[1] < ss[2]}
<1>1. OpToRel(<, Nat) = LT
    BY Zenon DEF OpToRel
<1>2. IsWellFoundedOn(LT, Nat)
    BY <1>1, NatLessThanWellFounded, Zenon
<1>3. \E n \in T : \A m \in T : ~(<<m, n>> \in LT)
    <2> HIDE DEF LT
    <2>. QED  BY <1>2, WFMin, Zenon
<1>4. \A m, n \in Nat : m < n => <<m, n>> \in LT
    OBVIOUS
<1> HIDE DEF LT
<1>5. PICK n \in T : \A m \in T : ~(<<m, n>> \in LT)
    BY <1>3
<1>6. \A m \in T : m \in Nat /\ n \in Nat
    OBVIOUS
<1>7. \A m \in T : ~(m < n)
    BY <1>4, <1>5, <1>6
<1>8. \A m \in T : n <= m
    BY <1>6, <1>7, SMT
<1>. QED  BY <1>8

-----------------------------------------------------------------------------
(* What a document is to be                                                  *)

\* The fields that one migration adds and none changes: which migration, and the value it gives.
AddedFields == {"isValid", "bookPermissions", "chapterPermissions", "translateConfig", "editable",
                "biblicalTermsEnabled", "hasRenderings", "draftConfig", "trainingDataFiles",
                "autoCorrections", "assessments", "punctuationChecker", "allowedCharacterChecker"}
AddedBy(f) ==
    CASE f = "isValid" -> 1 [] f = "bookPermissions" -> 2 [] f = "chapterPermissions" -> 3
      [] f = "translateConfig" -> 5 [] f = "editable" -> 6 [] f = "biblicalTermsEnabled" -> 11
      [] f = "hasRenderings" -> 11 [] f = "draftConfig" -> 12 [] f = "trainingDataFiles" -> 17
      [] f = "autoCorrections" -> 25 [] f = "assessments" -> 25 [] f = "punctuationChecker" -> 25
      [] f = "allowedCharacterChecker" -> 25
AddedAs(f) ==
    CASE f = "isValid" -> True [] f = "bookPermissions" -> {"byRole"}
      [] f = "chapterPermissions" -> {"byRole"} [] f = "translateConfig" -> {"object"}
      [] f = "editable" -> True [] f = "biblicalTermsEnabled" -> False
      [] f = "hasRenderings" -> False [] f = "draftConfig" -> {"object"}
      [] f = "trainingDataFiles" -> EmptyList [] f = "autoCorrections" -> False
      [] f = "assessments" -> False [] f = "punctuationChecker" -> False
      [] f = "allowedCharacterChecker" -> False

AddedPromise(at, d, f) == IF Has(d, f) \/ at >= AddedBy(f) THEN d[f] ELSE AddedAs(f)
UserPermissionsPromise(at, d) == IF at < 4 THEN {"object"} ELSE d["userPermissions"]
PreTranslatePromise(at, d) == IF at < 10 THEN False ELSE d["preTranslate"]
ResolvePromise(at, d) ==
    IF at < 15 /\ Has(d, "creatorResolve") THEN True ELSE d["creatorResolve"]

RolePromise(at, d) ==
    IF at >= 21 \/ Has(d, "rolePermissions") THEN d["rolePermissions"]
    ELSE (IF d["checkingShareEnabled"] = True THEN {"checker"} ELSE {}) \cup
         (IF d["translateShareEnabled"] = True THEN {"commenter", "viewer"} ELSE {})

\* A source that is enabled or, before there was a switch for it, is there.
Alternate(at, d, enabled, source) ==
    Has(d, source) /\ (d[enabled] = True \/ (at < 18 /\ enabled = "alternateSourceEnabled" /\ ~Has(d, enabled)))

ChosenPromise(at, d, enabled, source) ==
    IF Alternate(at, d, enabled, source) THEN d[source] ELSE d["source"] \ Null
UsedPromise(d, sources) == IF d["preTranslate"] = True THEN sources ELSE {}
DraftingPromise(at, d) ==
    IF at >= 27 \/ Has(d, "draftingSources") THEN d["draftingSources"]
    ELSE UsedPromise(d, ChosenPromise(at, d, "alternateSourceEnabled", "alternateSource"))
TrainingPromise(at, d) ==
    IF at >= 27 \/ Has(d, "trainingSources") THEN d["trainingSources"]
    ELSE UsedPromise(d,
             ChosenPromise(at, d, "alternateTrainingSourceEnabled", "alternateTrainingSource") \cup
             (IF d["additionalTrainingSourceEnabled"] = True
              THEN d["additionalTrainingSource"] \ Null ELSE {}))

NoBooks(d, f) == d[f] \in {Null, EmptyList}

\* Books have been chosen, and no list of ranges names them.
TrainingChosen(d) ==
    \/ Has(d, "trainingRange")
    \/ ~NoBooks(d, "lastSelectedTrainingBooks")
    \/ ~Has(d, "lastSelectedTrainingBooks") /\ ~NoBooks(d, "lastSelectedBooks")
TranslationChosen(d) == Has(d, "translationRange") \/ ~NoBooks(d, "lastSelectedTranslationBooks")
RangesPromise(at, d, ranges, isChosen, enabled, source) ==
    IF at >= 26 \/ ~NoBooks(d, ranges) \/ ~isChosen THEN d[ranges]
    ELSE {"range"} \cup (IF Alternate(at, d, enabled, source) THEN d[source] ELSE d["source"])
TrainingRangesPromise(at, d) ==
    RangesPromise(at, d, "trainingRanges", TrainingChosen(d),
                  "alternateTrainingSourceEnabled", "alternateTrainingSource")
TranslationRangesPromise(at, d) ==
    RangesPromise(at, d, "translationRanges", TranslationChosen(d),
                  "alternateSourceEnabled", "alternateSource")

\* The draft's range is there, or there is no draft.
DraftKnown(d) == Has(d, "currentScriptureRange") \/ d["hasDraft"] # True
CurrentPromise(at, d) ==
    IF at >= 28 \/ DraftKnown(d) THEN d["currentScriptureRange"] ELSE {"range"}
DraftedPromise(at, d) ==
    IF at >= 28 \/ DraftKnown(d) \/ Has(d, "draftedScriptureRange") THEN d["draftedScriptureRange"]
    ELSE {"range"}

\* Migrated from version `at' to the last, d and e come to the same.
Alike(at, d, e) ==
    /\ \A f \in AddedFields : AddedPromise(at, d, f) = AddedPromise(at, e, f)
    /\ UserPermissionsPromise(at, d) = UserPermissionsPromise(at, e)
    /\ PreTranslatePromise(at, d) = PreTranslatePromise(at, e)
    /\ ResolvePromise(at, d) = ResolvePromise(at, e)
    /\ RolePromise(at, d) = RolePromise(at, e)
    /\ DraftingPromise(at, d) = DraftingPromise(at, e)
    /\ TrainingPromise(at, d) = TrainingPromise(at, e)
    /\ TrainingRangesPromise(at, d) = TrainingRangesPromise(at, e)
    /\ TranslationRangesPromise(at, d) = TranslationRangesPromise(at, e)
    /\ CurrentPromise(at, d) = CurrentPromise(at, e)
    /\ DraftedPromise(at, d) = DraftedPromise(at, e)
    /\ d["source"] = e["source"]

-----------------------------------------------------------------------------
(* What a document is, n being the version to which this run has brought it,  *)
(* and `at' the one from which it began                                      *)

AddedSound(n, d) == \A f \in AddedFields : AddedBy(f) <= n => Has(d, f)

SettingsSound(at, n, d) ==
    /\ 4 <= n => Has(d, "userPermissions") /\ (at < 4 => d["userPermissions"] = {"object"})
    /\ at < 10 => d["preTranslate"] # True
    /\ 10 <= n => Has(d, "preTranslate") /\ (at < 10 => d["preTranslate"] = False)
    /\ at < 15 /\ 15 <= n => d["creatorResolve"] \in {Null, True}

RolesSound(at, n, d) ==
    /\ at < 5 => d["translateShareEnabled"] # True
    /\ 21 <= n => Has(d, "rolePermissions")

SourcesSound(at, n, d) ==
    /\ 27 <= n => \A f \in SourceLists : Has(d, f)
    /\ 27 <= n => \A f \in SourceFields \cup EnabledFields : ~Has(d, f)
    /\ at < 18 /\ 18 <= n /\ n < 27 => Has(d, "alternateSourceEnabled")

TrainingSound(n, d) ==
    /\ d["trainingRange"] \in {Null, {"range"}}
    /\ Has(d, "lastSelectedTrainingBooks") \/ 14 <= n => NoBooks(d, "lastSelectedBooks")
    /\ 22 <= n => Has(d, "trainingRange") \/ NoBooks(d, "lastSelectedTrainingBooks")
    /\ 26 <= n => ~Has(d, "trainingRange") /\ ~Has(d, "lastSelectedTrainingBooks")

TranslationSound(n, d) ==
    /\ d["translationRange"] \in {Null, {"range"}}
    /\ 22 <= n => Has(d, "translationRange") \/ NoBooks(d, "lastSelectedTranslationBooks")
    /\ 26 <= n => ~Has(d, "translationRange") /\ ~Has(d, "lastSelectedTranslationBooks")

DraftSound(at, n, d) == at < 28 /\ 28 <= n => DraftKnown(d)

Sound(at, n, d) ==
    /\ AddedSound(n, d) /\ SettingsSound(at, n, d) /\ RolesSound(at, n, d)
    /\ SourcesSound(at, n, d) /\ TrainingSound(n, d) /\ TranslationSound(n, d)
    /\ DraftSound(at, n, d)

-----------------------------------------------------------------------------
(* The inductive invariant                                                   *)

\* The version to which the migrator has brought a document, since it last began.
Place(d) ==
    IF recorded = Latest THEN Latest
    ELSE IF \E b \in 1 .. (migrating.batch - 1) : d \in Batches[b] THEN Latest
    ELSE IF migrating.batch # 0 /\ d \in Batches[migrating.batch]
         THEN IF d \in migrating.left THEN migrating.version - 1 ELSE migrating.version
    ELSE recorded

Sweep ==
    /\ recorded \in {original.at, Latest}
    /\ recorded = Latest => migrating = NotRunning
    /\ migrating.batch = 0 => migrating = NotRunning
    /\ migrating.batch # 0 => /\ recorded <= migrating.version /\ migrating.left \subseteq Batches[migrating.batch]
                              /\ migrating.left # {} => recorded < migrating.version

\* A document is sound where it is, and comes to what it would have come to from the start.
Brought(d) ==
    /\ original.docs[d] \in DocsAt(original.at)
    /\ Sound(original.at, Place(d), project[d])
    /\ Alike(original.at, original.docs[d], project[d])

MigrationsInv ==
    /\ MigrationsTypeOK
    /\ Sweep
    /\ \A d \in Projects : Brought(d)

-----------------------------------------------------------------------------
(* Fields and values                                                         *)

NamedFields == {"userPermissions", "translateConfig", "draftConfig", "editable", "tagIcon",
    "percentCompleted", "preTranslate", "lastSelectedBooks", "creatorResolve", "sendAllSegments",
    "trainingDataFiles", "additionalTrainingData", "rolePermissions", "usfmConfig",
    "currentScriptureRange", "draftedScriptureRange", "qualityEstimationConfig", "source",
    "hasDraft", "translateShareEnabled", "checkingShareEnabled", "translateShareLevel",
    "checkingShareLevel", "lastSelectedTrainingBooks", "lastSelectedTranslationBooks",
    "trainingRange", "translationRange", "trainingRanges", "translationRanges", "alternateSource",
    "alternateTrainingSource", "additionalTrainingSource", "alternateSourceEnabled",
    "alternateTrainingSourceEnabled", "additionalTrainingSourceEnabled", "draftingSources",
    "trainingSources", "autoCorrections", "assessments", "punctuationChecker",
    "allowedCharacterChecker", "biblicalTermsEnabled", "hasRenderings", "isValid",
    "bookPermissions", "chapterPermissions"}

\* Every field named in the migrations is a field.
LEMMA FieldNames == NamedFields \subseteq Fields
<1>1. ShareFields \subseteq Fields
    BY Zenon DEF Fields
<1>2. ShareLevels \subseteq Fields
    BY Zenon DEF Fields
<1>3. BookFields \subseteq Fields
    BY Zenon DEF Fields
<1>4. RangeFields \subseteq Fields
    BY Zenon DEF Fields
<1>5. RangesFields \subseteq Fields
    BY Zenon DEF Fields
<1>6. SourceFields \subseteq Fields
    BY Zenon DEF Fields
<1>7. EnabledFields \subseteq Fields
    BY Zenon DEF Fields
<1>8. SourceLists \subseteq Fields
    BY Zenon DEF Fields
<1>9. LynxFields \subseteq Fields
    BY Zenon DEF Fields
<1>10. TermsFields \subseteq Fields
    BY Zenon DEF Fields
<1>11. TextFields \subseteq Fields
    BY Zenon DEF Fields
<1>12. PlainFields \subseteq Fields
    BY Zenon DEF Fields
<1>. QED  BY <1>1, <1>2, <1>3, <1>4, <1>5, <1>6, <1>7, <1>8, <1>9, <1>10, <1>11, <1>12 DEF
                NamedFields, ShareFields, ShareLevels, BookFields, RangeFields, RangesFields,
                SourceFields, EnabledFields, SourceLists, LynxFields, TermsFields, TextFields,
                PlainFields

\* The values the migrations write are values, and none but Null is the want of one.
LEMMA ValueNames ==
    /\ Null \in SUBSET Members /\ False \in SUBSET Members /\ True \in SUBSET Members
    /\ EmptyList \in SUBSET Members /\ {"object"} \in SUBSET Members
    /\ {"byRole"} \in SUBSET Members /\ {"range"} \in SUBSET Members /\ {"old"} \in SUBSET Members
    /\ False # Null /\ True # Null /\ EmptyList # Null /\ True # False
    /\ {"object"} # Null /\ {"byRole"} # Null /\ {"range"} # Null /\ {"range"} # EmptyList
BY DEF Null, False, True, EmptyList, Members

\* The ways in which a migration changes a document.
LEMMA DefaultDoc ==
    ASSUME NEW d \in Docs, NEW fs, NEW v \in SUBSET Members
    PROVE  /\ Default(d, fs, v) \in Docs
           /\ \A f \in Fields : Default(d, fs, v)[f] = IF f \in fs /\ d[f] = Null THEN v ELSE d[f]
BY DEF Default, Docs

LEMMA WithoutDoc ==
    ASSUME NEW d \in Docs, NEW fs
    PROVE  /\ Without(d, fs) \in Docs
           /\ \A f \in Fields : Without(d, fs)[f] = IF f \in fs THEN Null ELSE d[f]
BY ValueNames DEF Without, Docs

LEMMA SetDoc ==
    ASSUME NEW d \in Docs, NEW g \in Fields, NEW v \in SUBSET Members
    PROVE  /\ Set(d, g, v) \in Docs
           /\ \A f \in Fields : Set(d, g, v)[f] = IF f = g THEN v ELSE d[f]
BY DEF Set, Docs

-----------------------------------------------------------------------------
(* The fields that a migration touches                                       *)

Touched(v) ==
    CASE v = 1 -> {"isValid"}
      [] v = 2 -> {"bookPermissions"}
      [] v = 3 -> {"chapterPermissions"}
      [] v = 4 -> {"userPermissions"}
      [] v = 5 -> {"translateConfig", "translateShareEnabled", "translateShareLevel"}
      [] v = 6 -> {"editable"}
      [] v = 7 -> {"tagIcon"}
      [] v = 8 -> {"percentCompleted"}
      [] v = 9 -> {"translateShareLevel", "checkingShareLevel"}
      [] v = 10 -> {"preTranslate"}
      [] v = 11 -> {"biblicalTermsEnabled", "hasRenderings"}
      [] v = 12 -> {"draftConfig"}
      [] v = 13 -> {"lastSelectedBooks"}
      [] v = 14 -> {"lastSelectedBooks", "lastSelectedTrainingBooks", "lastSelectedTranslationBooks",
                 "alternateTrainingSourceEnabled"}
      [] v = 15 -> {"creatorResolve"}
      [] v = 16 -> {"sendAllSegments"}
      [] v = 17 -> {"trainingDataFiles", "additionalTrainingData"}
      [] v = 18 -> {"alternateSourceEnabled"}
      [] v = 19 -> {"sendAllSegments"}
      [] v = 20 -> {"additionalTrainingSourceEnabled"}
      [] v = 21 -> {"translateShareEnabled", "checkingShareEnabled", "rolePermissions"}
      [] v = 22 -> {"trainingRange", "translationRange"}
      [] v = 23 -> {"usfmConfig"}
      [] v = 24 -> {"additionalTrainingData"}
      [] v = 25 -> {"autoCorrections", "assessments", "punctuationChecker",
                 "allowedCharacterChecker"}
      [] v = 26 -> {"trainingRanges", "translationRanges", "lastSelectedTrainingBooks",
                 "lastSelectedTranslationBooks", "trainingRange", "translationRange"}
      [] v = 27 -> {"draftingSources", "trainingSources", "alternateSource",
                 "alternateTrainingSource", "additionalTrainingSource", "alternateSourceEnabled",
                 "alternateTrainingSourceEnabled", "additionalTrainingSourceEnabled"}
      [] v = 28 -> {"draftedScriptureRange", "currentScriptureRange"}
      [] v = 29 -> {"qualityEstimationConfig"}

\* Migrations that add fields where there are none, or take fields away.
Adds(e, d, fs, v) ==
    e \in Docs /\ \A f \in Fields : e[f] = IF f \in fs /\ d[f] = Null THEN v ELSE d[f]
Removes(e, d, fs) == e \in Docs /\ \A f \in Fields : e[f] = IF f \in fs THEN Null ELSE d[f]

\* The migrations that only add fields, or only remove them.
LEMMA AddingMigrations ==
    ASSUME NEW d \in Docs
    PROVE  /\ Adds(Migration1(d), d, {"isValid"}, True)
           /\ Adds(Migration2(d), d, {"bookPermissions"}, {"byRole"})
           /\ Adds(Migration3(d), d, {"chapterPermissions"}, {"byRole"})
           /\ Adds(Migration6(d), d, {"editable"}, True)
           /\ Adds(Migration11(d), d, TermsFields, False)
           /\ Adds(Migration12(d), d, {"draftConfig"}, {"object"})
           /\ Adds(Migration13(d), d, {"lastSelectedBooks"}, EmptyList)
           /\ Adds(Migration16(d), d, {"sendAllSegments"}, False)
           /\ Adds(Migration20(d), d, {"additionalTrainingSourceEnabled"}, False)
           /\ Adds(Migration25(d), d, LynxFields, False)
           /\ Removes(Migration7(d), d, {"tagIcon"})
           /\ Removes(Migration8(d), d, {"percentCompleted"})
           /\ Removes(Migration9(d), d, ShareLevels)
           /\ Removes(Migration19(d), d, {"sendAllSegments"})
           /\ Removes(Migration23(d), d, {"usfmConfig"})
           /\ Removes(Migration24(d), d, {"additionalTrainingData"})
           /\ Removes(Migration29(d), d, {"qualityEstimationConfig"})
<1>1. \A fs : \A v \in SUBSET Members : Adds(Default(d, fs, v), d, fs, v)
    BY DefaultDoc DEF Adds
<1>2. \A fs : Removes(Without(d, fs), d, fs)
    BY WithoutDoc DEF Removes
<1>. QED  BY <1>1, <1>2, ValueNames DEF Migration1, Migration2, Migration3, Migration6, Migration11, Migration12,
       Migration13, Migration16, Migration20, Migration25, Migration7,
       Migration8, Migration9, Migration19, Migration23, Migration24,
       Migration29

\* The others, field by field.
LEMMA Effect4 ==
    ASSUME NEW d \in Docs
    PROVE  /\ Migration4(d) \in Docs
           /\ \A f \in Fields :
                  Migration4(d)[f] = IF f = "userPermissions" THEN {"object"} ELSE d[f]
BY FieldNames, ValueNames, SetDoc DEF Migration4, NamedFields

\* What each of the other migrations does to each field.
LEMMA Effect5 ==
    ASSUME NEW d \in Docs
    PROVE  /\ Migration5(d) \in Docs
           /\ \A f \in Fields :
                  Migration5(d)[f] = IF f = "translateShareEnabled" THEN False
                                     ELSE IF f = "translateShareLevel" THEN {"old"}
                                     ELSE IF f = "translateConfig" /\ d[f] = Null THEN {"object"}
                                     ELSE d[f]
<1> DEFINE d1 == Default(d, {"translateConfig"}, {"object"})
           d2 == Set(d1, "translateShareEnabled", False)
<1>1. /\ d1 \in Docs
      /\ \A f \in Fields : d1[f] = IF f \in {"translateConfig"} /\ d[f] = Null THEN {"object"} ELSE d[f]
    BY ValueNames, DefaultDoc
<1> HIDE DEF d1
<1>2. d2 \in Docs /\ \A f \in Fields : d2[f] = IF f = "translateShareEnabled" THEN False ELSE d1[f]
    BY <1>1, FieldNames, ValueNames, SetDoc DEF NamedFields
<1> HIDE DEF d2
<1>3. Migration5(d) = Set(d2, "translateShareLevel", {"old"})
    BY DEF Migration5, d1, d2
<1>4. /\ Set(d2, "translateShareLevel", {"old"}) \in Docs
      /\ \A f \in Fields : Set(d2, "translateShareLevel", {"old"})[f] =
                               IF f = "translateShareLevel" THEN {"old"} ELSE d2[f]
    BY <1>2, FieldNames, ValueNames, SetDoc DEF NamedFields
<1>. QED  BY <1>1, <1>2, <1>3, <1>4

LEMMA Effect10 ==
    ASSUME NEW d \in Docs
    PROVE  /\ Migration10(d) \in Docs
           /\ \A f \in Fields : Migration10(d)[f] =
                  IF f = "preTranslate" /\ Has(d, "translateConfig") THEN False ELSE d[f]
BY FieldNames, ValueNames, SetDoc DEF Migration10, NamedFields

LEMMA Effect14 ==
    ASSUME NEW d \in Docs
    PROVE  /\ Migration14(d) \in Docs
           /\ \A f \in Fields : Migration14(d)[f] =
                  IF f = "lastSelectedBooks"
                  THEN IF Has(d, "lastSelectedTrainingBooks") THEN d[f] ELSE Null
                  ELSE IF f = "lastSelectedTrainingBooks"
                  THEN IF Has(d, f) THEN d[f]
                       ELSE IF Has(d, "lastSelectedBooks") THEN d["lastSelectedBooks"] ELSE EmptyList
                  ELSE IF f = "alternateTrainingSourceEnabled" THEN IF Has(d, f) THEN d[f] ELSE False
                  ELSE IF f = "lastSelectedTranslationBooks" THEN IF Has(d, f) THEN d[f] ELSE EmptyList
                  ELSE d[f]
<1> DEFINE moved == IF Has(d, "lastSelectedBooks") THEN d["lastSelectedBooks"] ELSE EmptyList
           d1 == Without(d, {"lastSelectedBooks"})
           d2 == Set(d1, "lastSelectedTrainingBooks", moved)
           books == IF Has(d, "lastSelectedTrainingBooks") THEN d ELSE d2
           d3 == Default(books, {"alternateTrainingSourceEnabled"}, False)
<1>1. moved \in SUBSET Members
    BY FieldNames, ValueNames DEF NamedFields, Docs
<1> HIDE DEF moved
<1>2. d1 \in Docs /\ \A f \in Fields : d1[f] = IF f \in {"lastSelectedBooks"} THEN Null ELSE d[f]
    BY WithoutDoc
<1> HIDE DEF d1
<1>3. d2 \in Docs /\ \A f \in Fields : d2[f] = IF f = "lastSelectedTrainingBooks" THEN moved ELSE d1[f]
    BY <1>1, <1>2, FieldNames, SetDoc DEF NamedFields
<1> HIDE DEF d2
<1>4. books \in Docs
    BY <1>3
<1>5. \A f \in Fields : books[f] =
          IF Has(d, "lastSelectedTrainingBooks") THEN d[f]
          ELSE IF f = "lastSelectedBooks" THEN Null
          ELSE IF f = "lastSelectedTrainingBooks" THEN moved ELSE d[f]
    BY <1>2, <1>3
<1>6. Migration14(d) = Default(d3, {"lastSelectedTranslationBooks"}, EmptyList)
    BY DEF Migration14, moved, d1, d2
<1> HIDE DEF books
<1>7. /\ d3 \in Docs
      /\ \A f \in Fields : d3[f] = IF f \in {"alternateTrainingSourceEnabled"} /\ books[f] = Null
                                   THEN False ELSE books[f]
    BY <1>4, ValueNames, DefaultDoc
<1> HIDE DEF d3
<1>8. /\ Default(d3, {"lastSelectedTranslationBooks"}, EmptyList) \in Docs
      /\ \A f \in Fields : Default(d3, {"lastSelectedTranslationBooks"}, EmptyList)[f] =
             IF f \in {"lastSelectedTranslationBooks"} /\ d3[f] = Null THEN EmptyList ELSE d3[f]
    BY <1>7, ValueNames, DefaultDoc
<1>9. moved = IF d["lastSelectedBooks"] # Null THEN d["lastSelectedBooks"] ELSE EmptyList
    BY DEF moved, Has
<1> DEFINE e == Migration14(d)
<1> HIDE DEF e
<1>10. /\ e \in Docs
       /\ \A f \in Fields : e[f] =
              IF f = "lastSelectedTranslationBooks" /\ d3[f] = Null THEN EmptyList ELSE d3[f]
    BY <1>6, <1>8 DEF e
<1>11. ASSUME NEW f \in Fields
       PROVE  e[f] = IF f = "lastSelectedBooks"
                     THEN IF Has(d, "lastSelectedTrainingBooks") THEN d[f] ELSE Null
                     ELSE IF f = "lastSelectedTrainingBooks"
                     THEN IF Has(d, f) THEN d[f]
                          ELSE IF Has(d, "lastSelectedBooks") THEN d["lastSelectedBooks"] ELSE EmptyList
                     ELSE IF f = "alternateTrainingSourceEnabled" THEN IF Has(d, f) THEN d[f] ELSE False
                     ELSE IF f = "lastSelectedTranslationBooks" THEN IF Has(d, f) THEN d[f] ELSE EmptyList
                     ELSE d[f]
    BY <1>5, <1>7, <1>9, <1>10 DEF Has
<1>. QED  BY <1>10, <1>11, Zenon DEF e

LEMMA Effect15 ==
    ASSUME NEW d \in Docs
    PROVE  /\ Migration15(d) \in Docs
           /\ \A f \in Fields : Migration15(d)[f] =
                  IF f = "creatorResolve" /\ Has(d, f) THEN True ELSE d[f]
BY FieldNames, ValueNames, SetDoc DEF Migration15, NamedFields

LEMMA Effect17 ==
    ASSUME NEW d \in Docs
    PROVE  /\ Migration17(d) \in Docs
           /\ \A f \in Fields : Migration17(d)[f] =
                  IF f = "trainingDataFiles" /\ d[f] = Null THEN EmptyList
                  ELSE IF f = "additionalTrainingData" /\ d[f] = Null THEN False ELSE d[f]
<1> DEFINE d1 == Default(d, {"trainingDataFiles"}, EmptyList)
<1>1. /\ d1 \in Docs
      /\ \A f \in Fields : d1[f] = IF f \in {"trainingDataFiles"} /\ d[f] = Null THEN EmptyList ELSE d[f]
    BY ValueNames, DefaultDoc
<1>2. Migration17(d) = Default(d1, {"additionalTrainingData"}, False)
    BY DEF Migration17
<1> HIDE DEF d1
<1>3. /\ Default(d1, {"additionalTrainingData"}, False) \in Docs
      /\ \A f \in Fields : Default(d1, {"additionalTrainingData"}, False)[f] =
             IF f \in {"additionalTrainingData"} /\ d1[f] = Null THEN False ELSE d1[f]
    BY <1>1, ValueNames, DefaultDoc
<1>. QED  BY <1>1, <1>2, <1>3

LEMMA Effect18 ==
    ASSUME NEW d \in Docs
    PROVE  /\ Migration18(d) \in Docs
           /\ \A f \in Fields : Migration18(d)[f] =
                  IF f = "alternateSourceEnabled" /\ d[f] = Null
                  THEN IF Has(d, "alternateSource") THEN True ELSE False ELSE d[f]
<1>1. (IF Has(d, "alternateSource") THEN True ELSE False) \in SUBSET Members
    BY ValueNames
<1>. QED  BY <1>1, DefaultDoc DEF Migration18

LEMMA Effect21 ==
    ASSUME NEW d \in Docs
    PROVE  /\ Migration21(d) \in Docs
           /\ \A f \in Fields : Migration21(d)[f] =
                  IF Has(d, "rolePermissions") THEN d[f]
                  ELSE IF f = "rolePermissions"
                  THEN (IF d["checkingShareEnabled"] = True THEN {"checker"} ELSE {}) \cup
                       (IF d["translateShareEnabled"] = True THEN {"commenter", "viewer"} ELSE {})
                  ELSE IF f \in ShareFields THEN Null ELSE d[f]
<1> DEFINE roles == (IF d["checkingShareEnabled"] = True THEN {"checker"} ELSE {}) \cup
                    (IF d["translateShareEnabled"] = True THEN {"commenter", "viewer"} ELSE {})
           d1 == Without(d, ShareFields)
<1>1. roles \in SUBSET Members
    BY DEF Members
<1>2. d1 \in Docs /\ \A f \in Fields : d1[f] = IF f \in ShareFields THEN Null ELSE d[f]
    BY WithoutDoc
<1>3. Migration21(d) = IF Has(d, "rolePermissions") THEN d ELSE Set(d1, "rolePermissions", roles)
    BY DEF Migration21
<1> HIDE DEF roles, d1
<1>4. /\ Set(d1, "rolePermissions", roles) \in Docs
      /\ \A f \in Fields : Set(d1, "rolePermissions", roles)[f] =
             IF f = "rolePermissions" THEN roles ELSE d1[f]
    BY <1>1, <1>2, FieldNames, SetDoc DEF NamedFields
<1>. QED  BY <1>2, <1>3, <1>4 DEF roles

LEMMA Effect22 ==
    ASSUME NEW d \in Docs
    PROVE  /\ Migration22(d) \in Docs
           /\ \A f \in Fields : Migration22(d)[f] =
                  IF f = "trainingRange"
                  THEN RangeOf(d, "trainingRange", "lastSelectedTrainingBooks")
                  ELSE IF f = "translationRange"
                  THEN RangeOf(d, "translationRange", "lastSelectedTranslationBooks") ELSE d[f]
<1>1. /\ RangeOf(d, "trainingRange", "lastSelectedTrainingBooks") \in SUBSET Members
      /\ RangeOf(d, "translationRange", "lastSelectedTranslationBooks") \in SUBSET Members
    BY FieldNames, ValueNames DEF RangeOf, Docs, NamedFields
<1>. QED  BY <1>1, FieldNames DEF Migration22, Docs, NamedFields

LEMMA Effect26 ==
    ASSUME NEW d \in Docs
    PROVE  /\ Migration26(d) \in Docs
           /\ \A f \in Fields : Migration26(d)[f] =
                  IF f = "trainingRanges"
                  THEN RangesOf(d, "trainingRange", "trainingRanges",
                                "alternateTrainingSourceEnabled", "alternateTrainingSource")
                  ELSE IF f = "translationRanges"
                  THEN RangesOf(d, "translationRange", "translationRanges",
                                "alternateSourceEnabled", "alternateSource")
                  ELSE IF f \in BookFields \cup RangeFields THEN Null ELSE d[f]
<1> DEFINE training == RangesOf(d, "trainingRange", "trainingRanges",
                                "alternateTrainingSourceEnabled", "alternateTrainingSource")
           translation == RangesOf(d, "translationRange", "translationRanges",
                                   "alternateSourceEnabled", "alternateSource")
           d1 == [d EXCEPT !["trainingRanges"] = training, !["translationRanges"] = translation]
<1>1. \A f \in NamedFields : f \in Fields /\ d[f] \in SUBSET Members
    BY FieldNames DEF Docs
<1>2. training \in SUBSET Members /\ translation \in SUBSET Members
    BY <1>1 DEF RangesOf, NamedFields
<1>3. Migration26(d) = Without(d1, BookFields \cup RangeFields)
    BY DEF Migration26
<1> HIDE DEF training, translation
<1>4. /\ d1 \in Docs
      /\ \A f \in Fields : d1[f] = IF f = "trainingRanges" THEN training
                                   ELSE IF f = "translationRanges" THEN translation ELSE d[f]
    BY <1>1, <1>2 DEF Docs, NamedFields
<1> HIDE DEF d1
<1>5. /\ Without(d1, BookFields \cup RangeFields) \in Docs
      /\ \A f \in Fields : Without(d1, BookFields \cup RangeFields)[f] =
             IF f \in BookFields \cup RangeFields THEN Null ELSE d1[f]
    BY <1>4, WithoutDoc
<1>6. \A f \in {"trainingRanges", "translationRanges"} : f \notin BookFields \cup RangeFields
    BY DEF BookFields, RangeFields
<1>. QED  BY <1>3, <1>4, <1>5, <1>6 DEF training, translation

\* The sources that Migration27 writes, where there is a draft.
TrainingChoice(d) ==
    Chosen(d, "alternateTrainingSourceEnabled", "alternateTrainingSource") \cup
    (IF d["additionalTrainingSourceEnabled"] = True THEN d["additionalTrainingSource"] \ Null ELSE {})
Used(d, s) == IF d["preTranslate"] = True THEN s ELSE {}

LEMMA Effect27 ==
    ASSUME NEW d \in Docs
    PROVE  /\ Migration27(d) \in Docs
           /\ \A f \in Fields : Migration27(d)[f] =
                  IF f = "draftingSources"
                  THEN IF Has(d, f) THEN d[f]
                       ELSE Used(d, Chosen(d, "alternateSourceEnabled", "alternateSource"))
                  ELSE IF f = "trainingSources"
                  THEN IF Has(d, f) THEN d[f] ELSE Used(d, TrainingChoice(d))
                  ELSE IF f \in SourceFields \cup EnabledFields THEN Null ELSE d[f]
<1> DEFINE drafting == Used(d, Chosen(d, "alternateSourceEnabled", "alternateSource"))
           training == Used(d, TrainingChoice(d))
           d1 == Default(d, {"draftingSources"}, drafting)
           d2 == Default(d1, {"trainingSources"}, training)
<1>1. \A f \in NamedFields : f \in Fields /\ d[f] \in SUBSET Members
    BY FieldNames DEF Docs
<1>2. drafting \in SUBSET Members /\ training \in SUBSET Members
    BY <1>1 DEF Chosen, TrainingChoice, Used, NamedFields
<1>3. Migration27(d) = Without(d2, SourceFields \cup EnabledFields)
    BY DEF Migration27, TrainingChoice, Used
<1> HIDE DEF drafting, training
<1>4. /\ d1 \in Docs
      /\ \A f \in Fields : d1[f] = IF f \in {"draftingSources"} /\ d[f] = Null THEN drafting ELSE d[f]
    BY <1>2, DefaultDoc
<1> HIDE DEF d1
<1>5. /\ d2 \in Docs
      /\ \A f \in Fields : d2[f] = IF f \in {"trainingSources"} /\ d1[f] = Null THEN training ELSE d1[f]
    BY <1>2, <1>4, DefaultDoc
<1> HIDE DEF d2
<1>6. /\ Without(d2, SourceFields \cup EnabledFields) \in Docs
      /\ \A f \in Fields : Without(d2, SourceFields \cup EnabledFields)[f] =
             IF f \in SourceFields \cup EnabledFields THEN Null ELSE d2[f]
    BY <1>5, WithoutDoc
<1>7. \A f \in {"draftingSources", "trainingSources"} : f \notin SourceFields \cup EnabledFields
    BY DEF SourceFields, EnabledFields
<1>. QED  BY <1>3, <1>4, <1>5, <1>6, <1>7 DEF drafting, training, Has

LEMMA Effect28 ==
    ASSUME NEW d \in Docs
    PROVE  /\ Migration28(d) \in Docs
           /\ \A f \in Fields : Migration28(d)[f] =
                  IF DraftKnown(d) THEN d[f]
                  ELSE IF f = "currentScriptureRange" THEN {"range"}
                  ELSE IF f = "draftedScriptureRange" /\ d[f] = Null THEN {"range"} ELSE d[f]
<1> DEFINE d1 == Default(d, {"draftedScriptureRange"}, {"range"})
<1>1. /\ d1 \in Docs
      /\ \A f \in Fields : d1[f] = IF f \in {"draftedScriptureRange"} /\ d[f] = Null THEN {"range"} ELSE d[f]
    BY ValueNames, DefaultDoc
<1>2. Migration28(d) = IF DraftKnown(d) THEN d ELSE Set(d1, "currentScriptureRange", {"range"})
    BY DEF Migration28, DraftKnown
<1> HIDE DEF d1
<1>3. /\ Set(d1, "currentScriptureRange", {"range"}) \in Docs
      /\ \A f \in Fields : Set(d1, "currentScriptureRange", {"range"})[f] =
             IF f = "currentScriptureRange" THEN {"range"} ELSE d1[f]
    BY <1>1, FieldNames, ValueNames, SetDoc DEF NamedFields
<1>. QED  BY <1>1, <1>2, <1>3

\* A migration makes a document of a document, and changes none but the fields it touches.
LEMMA MigrateTouches ==
    ASSUME NEW v \in 1 .. Latest, NEW d \in Docs
    PROVE  /\ MigrateDoc(v, d) \in Docs
           /\ \A f \in Fields \ Touched(v) : MigrateDoc(v, d)[f] = d[f]
<1>1. CASE v = 1
    <2>1. MigrateDoc(v, d) = Migration1(d)
        BY <1>1 DEF MigrateDoc
    <2>2. Adds(Migration1(d), d, {"isValid"}, True)
        BY AddingMigrations
    <2>. QED  BY <1>1, <2>1, <2>2 DEF Adds, Touched
<1>2. CASE v = 2
    <2>1. MigrateDoc(v, d) = Migration2(d)
        BY <1>2 DEF MigrateDoc
    <2>2. Adds(Migration2(d), d, {"bookPermissions"}, {"byRole"})
        BY AddingMigrations
    <2>. QED  BY <1>2, <2>1, <2>2 DEF Adds, Touched
<1>3. CASE v = 3
    <2>1. MigrateDoc(v, d) = Migration3(d)
        BY <1>3 DEF MigrateDoc
    <2>2. Adds(Migration3(d), d, {"chapterPermissions"}, {"byRole"})
        BY AddingMigrations
    <2>. QED  BY <1>3, <2>1, <2>2 DEF Adds, Touched
<1>4. CASE v = 4
    <2>1. MigrateDoc(v, d) = Migration4(d)
        BY <1>4 DEF MigrateDoc
    <2>. QED  BY <1>4, <2>1, Effect4 DEF Touched
<1>5. CASE v = 5
    <2>1. MigrateDoc(v, d) = Migration5(d)
        BY <1>5 DEF MigrateDoc
    <2>. QED  BY <1>5, <2>1, Effect5 DEF Touched
<1>6. CASE v = 6
    <2>1. MigrateDoc(v, d) = Migration6(d)
        BY <1>6 DEF MigrateDoc
    <2>2. Adds(Migration6(d), d, {"editable"}, True)
        BY AddingMigrations
    <2>. QED  BY <1>6, <2>1, <2>2 DEF Adds, Touched
<1>7. CASE v = 7
    <2>1. MigrateDoc(v, d) = Migration7(d)
        BY <1>7 DEF MigrateDoc
    <2>2. Removes(Migration7(d), d, {"tagIcon"})
        BY AddingMigrations
    <2>. QED  BY <1>7, <2>1, <2>2 DEF Removes, Touched
<1>8. CASE v = 8
    <2>1. MigrateDoc(v, d) = Migration8(d)
        BY <1>8 DEF MigrateDoc
    <2>2. Removes(Migration8(d), d, {"percentCompleted"})
        BY AddingMigrations
    <2>. QED  BY <1>8, <2>1, <2>2 DEF Removes, Touched
<1>9. CASE v = 9
    <2>1. MigrateDoc(v, d) = Migration9(d)
        BY <1>9 DEF MigrateDoc
    <2>2. Removes(Migration9(d), d, ShareLevels)
        BY AddingMigrations
    <2>. QED  BY <1>9, <2>1, <2>2 DEF Removes, Touched, ShareLevels
<1>10. CASE v = 10
    <2>1. MigrateDoc(v, d) = Migration10(d)
        BY <1>10 DEF MigrateDoc
    <2>. QED  BY <1>10, <2>1, Effect10 DEF Touched
<1>11. CASE v = 11
    <2>1. MigrateDoc(v, d) = Migration11(d)
        BY <1>11 DEF MigrateDoc
    <2>2. Adds(Migration11(d), d, TermsFields, False)
        BY AddingMigrations
    <2>. QED  BY <1>11, <2>1, <2>2 DEF Adds, Touched, TermsFields
<1>12. CASE v = 12
    <2>1. MigrateDoc(v, d) = Migration12(d)
        BY <1>12 DEF MigrateDoc
    <2>2. Adds(Migration12(d), d, {"draftConfig"}, {"object"})
        BY AddingMigrations
    <2>. QED  BY <1>12, <2>1, <2>2 DEF Adds, Touched
<1>13. CASE v = 13
    <2>1. MigrateDoc(v, d) = Migration13(d)
        BY <1>13 DEF MigrateDoc
    <2>2. Adds(Migration13(d), d, {"lastSelectedBooks"}, EmptyList)
        BY AddingMigrations
    <2>. QED  BY <1>13, <2>1, <2>2 DEF Adds, Touched
<1>14. CASE v = 14
    <2>1. MigrateDoc(v, d) = Migration14(d)
        BY <1>14 DEF MigrateDoc
    <2>. QED  BY <1>14, <2>1, Effect14 DEF Touched
<1>15. CASE v = 15
    <2>1. MigrateDoc(v, d) = Migration15(d)
        BY <1>15 DEF MigrateDoc
    <2>. QED  BY <1>15, <2>1, Effect15 DEF Touched
<1>16. CASE v = 16
    <2>1. MigrateDoc(v, d) = Migration16(d)
        BY <1>16 DEF MigrateDoc
    <2>2. Adds(Migration16(d), d, {"sendAllSegments"}, False)
        BY AddingMigrations
    <2>. QED  BY <1>16, <2>1, <2>2 DEF Adds, Touched
<1>17. CASE v = 17
    <2>1. MigrateDoc(v, d) = Migration17(d)
        BY <1>17 DEF MigrateDoc
    <2>. QED  BY <1>17, <2>1, Effect17 DEF Touched
<1>18. CASE v = 18
    <2>1. MigrateDoc(v, d) = Migration18(d)
        BY <1>18 DEF MigrateDoc
    <2>. QED  BY <1>18, <2>1, Effect18 DEF Touched
<1>19. CASE v = 19
    <2>1. MigrateDoc(v, d) = Migration19(d)
        BY <1>19 DEF MigrateDoc
    <2>2. Removes(Migration19(d), d, {"sendAllSegments"})
        BY AddingMigrations
    <2>. QED  BY <1>19, <2>1, <2>2 DEF Removes, Touched
<1>20. CASE v = 20
    <2>1. MigrateDoc(v, d) = Migration20(d)
        BY <1>20 DEF MigrateDoc
    <2>2. Adds(Migration20(d), d, {"additionalTrainingSourceEnabled"}, False)
        BY AddingMigrations
    <2>. QED  BY <1>20, <2>1, <2>2 DEF Adds, Touched
<1>21. CASE v = 21
    <2>1. MigrateDoc(v, d) = Migration21(d)
        BY <1>21 DEF MigrateDoc
    <2>2. "rolePermissions" \in Touched(v) /\ ShareFields \subseteq Touched(v)
        BY <1>21 DEF Touched, ShareFields
    <2>. QED  BY <2>1, <2>2, Effect21
<1>22. CASE v = 22
    <2>1. MigrateDoc(v, d) = Migration22(d)
        BY <1>22 DEF MigrateDoc
    <2>. QED  BY <1>22, <2>1, Effect22 DEF Touched
<1>23. CASE v = 23
    <2>1. MigrateDoc(v, d) = Migration23(d)
        BY <1>23 DEF MigrateDoc
    <2>2. Removes(Migration23(d), d, {"usfmConfig"})
        BY AddingMigrations
    <2>. QED  BY <1>23, <2>1, <2>2 DEF Removes, Touched
<1>24. CASE v = 24
    <2>1. MigrateDoc(v, d) = Migration24(d)
        BY <1>24 DEF MigrateDoc
    <2>2. Removes(Migration24(d), d, {"additionalTrainingData"})
        BY AddingMigrations
    <2>. QED  BY <1>24, <2>1, <2>2 DEF Removes, Touched
<1>25. CASE v = 25
    <2>1. MigrateDoc(v, d) = Migration25(d)
        BY <1>25 DEF MigrateDoc
    <2>2. Adds(Migration25(d), d, LynxFields, False)
        BY AddingMigrations
    <2>. QED  BY <1>25, <2>1, <2>2 DEF Adds, Touched, LynxFields
<1>26. CASE v = 26
    <2>1. MigrateDoc(v, d) = Migration26(d)
        BY <1>26 DEF MigrateDoc
    <2>. QED  BY <1>26, <2>1, Effect26 DEF Touched, BookFields, RangeFields
<1>27. CASE v = 27
    <2>1. MigrateDoc(v, d) = Migration27(d)
        BY <1>27 DEF MigrateDoc
    <2>2. /\ "draftingSources" \in Touched(v) /\ "trainingSources" \in Touched(v)
          /\ SourceFields \cup EnabledFields \subseteq Touched(v)
        BY <1>27 DEF Touched, SourceFields, EnabledFields
    <2>. QED  BY <2>1, <2>2, Effect27
<1>28. CASE v = 28
    <2>1. MigrateDoc(v, d) = Migration28(d)
        BY <1>28 DEF MigrateDoc
    <2>. QED  BY <1>28, <2>1, Effect28 DEF Touched
<1>29. CASE v = 29
    <2>1. MigrateDoc(v, d) = Migration29(d)
        BY <1>29 DEF MigrateDoc
    <2>2. Removes(Migration29(d), d, {"qualityEstimationConfig"})
        BY AddingMigrations
    <2>. QED  BY <1>29, <2>1, <2>2 DEF Removes, Touched
<1>. QED  BY <1>1, <1>2, <1>3, <1>4, <1>5, <1>6, <1>7, <1>8, <1>9, <1>10, <1>11, <1>12, <1>13, <1>14,
             <1>15, <1>16, <1>17, <1>18, <1>19, <1>20, <1>21, <1>22, <1>23, <1>24, <1>25,
             <1>26, <1>27, <1>28, <1>29 DEF Latest

\* Which migrations touch a field.
LEMMA TouchedBy ==
    ASSUME NEW v \in 1 .. Latest
    PROVE  /\ \A f \in AddedFields : f \in Touched(v) => v = AddedBy(f)
           /\ "userPermissions" \in Touched(v) => v = 4
           /\ "preTranslate" \in Touched(v) => v = 10
           /\ "creatorResolve" \in Touched(v) => v = 15
           /\ "rolePermissions" \in Touched(v) => v = 21
           /\ "translateShareEnabled" \in Touched(v) => v \in {5, 21}
           /\ "checkingShareEnabled" \in Touched(v) => v = 21
           /\ "source" \notin Touched(v)
           /\ "hasDraft" \notin Touched(v)
           /\ "currentScriptureRange" \in Touched(v) => v = 28
           /\ "draftedScriptureRange" \in Touched(v) => v = 28
           /\ "lastSelectedBooks" \in Touched(v) => v \in {13, 14}
           /\ "lastSelectedTrainingBooks" \in Touched(v) => v \in {14, 26}
           /\ "lastSelectedTranslationBooks" \in Touched(v) => v \in {14, 26}
           /\ "trainingRange" \in Touched(v) => v \in {22, 26}
           /\ "translationRange" \in Touched(v) => v \in {22, 26}
           /\ "trainingRanges" \in Touched(v) => v = 26
           /\ "translationRanges" \in Touched(v) => v = 26
           /\ "draftingSources" \in Touched(v) => v = 27
           /\ "trainingSources" \in Touched(v) => v = 27
           /\ "alternateSource" \in Touched(v) => v = 27
           /\ "alternateTrainingSource" \in Touched(v) => v = 27
           /\ "additionalTrainingSource" \in Touched(v) => v = 27
           /\ "alternateSourceEnabled" \in Touched(v) => v \in {18, 27}
           /\ "alternateTrainingSourceEnabled" \in Touched(v) => v \in {14, 27}
           /\ "additionalTrainingSourceEnabled" \in Touched(v) => v \in {20, 27}
<1>1. CASE v = 1
    BY <1>1 DEF Touched, AddedFields, AddedBy
<1>2. CASE v = 2
    BY <1>2 DEF Touched, AddedFields, AddedBy
<1>3. CASE v = 3
    BY <1>3 DEF Touched, AddedFields, AddedBy
<1>4. CASE v = 4
    BY <1>4 DEF Touched, AddedFields, AddedBy
<1>5. CASE v = 5
    BY <1>5 DEF Touched, AddedFields, AddedBy
<1>6. CASE v = 6
    BY <1>6 DEF Touched, AddedFields, AddedBy
<1>7. CASE v = 7
    BY <1>7 DEF Touched, AddedFields, AddedBy
<1>8. CASE v = 8
    BY <1>8 DEF Touched, AddedFields, AddedBy
<1>9. CASE v = 9
    BY <1>9 DEF Touched, AddedFields, AddedBy
<1>10. CASE v = 10
    BY <1>10 DEF Touched, AddedFields, AddedBy
<1>11. CASE v = 11
    BY <1>11 DEF Touched, AddedFields, AddedBy
<1>12. CASE v = 12
    BY <1>12 DEF Touched, AddedFields, AddedBy
<1>13. CASE v = 13
    BY <1>13 DEF Touched, AddedFields, AddedBy
<1>14. CASE v = 14
    BY <1>14 DEF Touched, AddedFields, AddedBy
<1>15. CASE v = 15
    BY <1>15 DEF Touched, AddedFields, AddedBy
<1>16. CASE v = 16
    BY <1>16 DEF Touched, AddedFields, AddedBy
<1>17. CASE v = 17
    BY <1>17 DEF Touched, AddedFields, AddedBy
<1>18. CASE v = 18
    BY <1>18 DEF Touched, AddedFields, AddedBy
<1>19. CASE v = 19
    BY <1>19 DEF Touched, AddedFields, AddedBy
<1>20. CASE v = 20
    BY <1>20 DEF Touched, AddedFields, AddedBy
<1>21. CASE v = 21
    BY <1>21 DEF Touched, AddedFields, AddedBy
<1>22. CASE v = 22
    BY <1>22 DEF Touched, AddedFields, AddedBy
<1>23. CASE v = 23
    BY <1>23 DEF Touched, AddedFields, AddedBy
<1>24. CASE v = 24
    BY <1>24 DEF Touched, AddedFields, AddedBy
<1>25. CASE v = 25
    BY <1>25 DEF Touched, AddedFields, AddedBy
<1>26. CASE v = 26
    BY <1>26 DEF Touched, AddedFields, AddedBy
<1>27. CASE v = 27
    BY <1>27 DEF Touched, AddedFields, AddedBy
<1>28. CASE v = 28
    BY <1>28 DEF Touched, AddedFields, AddedBy
<1>29. CASE v = 29
    BY <1>29 DEF Touched, AddedFields, AddedBy
<1>. QED  BY <1>1, <1>2, <1>3, <1>4, <1>5, <1>6, <1>7, <1>8, <1>9, <1>10, <1>11, <1>12, <1>13, <1>14,
             <1>15, <1>16, <1>17, <1>18, <1>19, <1>20, <1>21, <1>22, <1>23, <1>24, <1>25,
             <1>26, <1>27, <1>28, <1>29 DEF Latest

-----------------------------------------------------------------------------
(* A migration keeps a document sound, and what it promises                  *)

\* Every added field is added by one of the migrations, and is given a value.
LEMMA AddedFacts ==
    /\ AddedFields \subseteq Fields
    /\ \A f \in AddedFields : AddedBy(f) \in 1 .. Latest /\ AddedAs(f) # Null
<1>1. AddedFields \subseteq Fields
    BY FieldNames DEF AddedFields, NamedFields
<1>2. ASSUME NEW f \in AddedFields
      PROVE  AddedBy(f) \in 1 .. Latest
    BY DEF AddedFields, AddedBy, Latest
<1>3. ASSUME NEW f \in AddedFields
      PROVE  AddedAs(f) # Null
    BY ValueNames DEF AddedFields, AddedAs
<1>. QED  BY <1>1, <1>2, <1>3

\* A field that a migration adds, and that none changes.
LEMMA AddedEffect ==
    ASSUME NEW v \in 1 .. Latest, NEW d \in Docs, NEW f \in AddedFields
    PROVE  MigrateDoc(v, d)[f] = IF v = AddedBy(f) /\ d[f] = Null THEN AddedAs(f) ELSE d[f]
<1>1. f \in Fields
    BY AddedFacts
<1>2. CASE v # AddedBy(f)
    <2>1. f \notin Touched(v)
        BY <1>2, TouchedBy
    <2>. QED  BY <1>1, <1>2, <2>1, MigrateTouches
<1>3. CASE v = AddedBy(f)
    <2>1. CASE f = "isValid"
        <3>1. MigrateDoc(v, d) = Migration1(d) /\ v = 1
            BY <1>3, <2>1 DEF MigrateDoc, AddedBy
        <3>. QED  BY <1>1, <1>3, <2>1, <3>1, AddingMigrations DEF Adds, AddedAs
    <2>2. CASE f = "bookPermissions"
        <3>1. MigrateDoc(v, d) = Migration2(d) /\ v = 2
            BY <1>3, <2>2 DEF MigrateDoc, AddedBy
        <3>. QED  BY <1>1, <1>3, <2>2, <3>1, AddingMigrations DEF Adds, AddedAs
    <2>3. CASE f = "chapterPermissions"
        <3>1. MigrateDoc(v, d) = Migration3(d) /\ v = 3
            BY <1>3, <2>3 DEF MigrateDoc, AddedBy
        <3>. QED  BY <1>1, <1>3, <2>3, <3>1, AddingMigrations DEF Adds, AddedAs
    <2>4. CASE f = "translateConfig"
        <3>1. MigrateDoc(v, d) = Migration5(d) /\ v = 5
            BY <1>3, <2>4 DEF MigrateDoc, AddedBy
        <3>. QED  BY <1>1, <1>3, <2>4, <3>1, Effect5 DEF AddedAs
    <2>5. CASE f = "editable"
        <3>1. MigrateDoc(v, d) = Migration6(d) /\ v = 6
            BY <1>3, <2>5 DEF MigrateDoc, AddedBy
        <3>. QED  BY <1>1, <1>3, <2>5, <3>1, AddingMigrations DEF Adds, AddedAs
    <2>6. CASE f = "biblicalTermsEnabled"
        <3>1. MigrateDoc(v, d) = Migration11(d) /\ v = 11
            BY <1>3, <2>6 DEF MigrateDoc, AddedBy
        <3>. QED  BY <1>1, <1>3, <2>6, <3>1, AddingMigrations DEF Adds, TermsFields, AddedAs
    <2>7. CASE f = "hasRenderings"
        <3>1. MigrateDoc(v, d) = Migration11(d) /\ v = 11
            BY <1>3, <2>7 DEF MigrateDoc, AddedBy
        <3>. QED  BY <1>1, <1>3, <2>7, <3>1, AddingMigrations DEF Adds, TermsFields, AddedAs
    <2>8. CASE f = "draftConfig"
        <3>1. MigrateDoc(v, d) = Migration12(d) /\ v = 12
            BY <1>3, <2>8 DEF MigrateDoc, AddedBy
        <3>. QED  BY <1>1, <1>3, <2>8, <3>1, AddingMigrations DEF Adds, AddedAs
    <2>9. CASE f = "trainingDataFiles"
        <3>1. MigrateDoc(v, d) = Migration17(d) /\ v = 17
            BY <1>3, <2>9 DEF MigrateDoc, AddedBy
        <3>. QED  BY <1>1, <1>3, <2>9, <3>1, Effect17 DEF AddedAs
    <2>10. CASE f = "autoCorrections"
        <3>1. MigrateDoc(v, d) = Migration25(d) /\ v = 25
            BY <1>3, <2>10 DEF MigrateDoc, AddedBy
        <3>. QED  BY <1>1, <1>3, <2>10, <3>1, AddingMigrations DEF Adds, LynxFields, AddedAs
    <2>11. CASE f = "assessments"
        <3>1. MigrateDoc(v, d) = Migration25(d) /\ v = 25
            BY <1>3, <2>11 DEF MigrateDoc, AddedBy
        <3>. QED  BY <1>1, <1>3, <2>11, <3>1, AddingMigrations DEF Adds, LynxFields, AddedAs
    <2>12. CASE f = "punctuationChecker"
        <3>1. MigrateDoc(v, d) = Migration25(d) /\ v = 25
            BY <1>3, <2>12 DEF MigrateDoc, AddedBy
        <3>. QED  BY <1>1, <1>3, <2>12, <3>1, AddingMigrations DEF Adds, LynxFields, AddedAs
    <2>13. CASE f = "allowedCharacterChecker"
        <3>1. MigrateDoc(v, d) = Migration25(d) /\ v = 25
            BY <1>3, <2>13 DEF MigrateDoc, AddedBy
        <3>. QED  BY <1>1, <1>3, <2>13, <3>1, AddingMigrations DEF Adds, LynxFields, AddedAs
    <2>. QED  BY <2>1, <2>2, <2>3, <2>4, <2>5, <2>6, <2>7, <2>8, <2>9, <2>10, <2>11, <2>12, <2>13 DEF AddedFields
<1>. QED  BY <1>2, <1>3

\* Migrating keeps the added fields sound, and what is promised of them.
LEMMA MigrateAdded ==
    ASSUME NEW at \in 0 .. Latest, NEW v \in 1 .. Latest, at < v, NEW d \in Docs,
           AddedSound(v - 1, d)
    PROVE  /\ AddedSound(v, MigrateDoc(v, d))
           /\ \A f \in AddedFields : AddedPromise(at, MigrateDoc(v, d), f) = AddedPromise(at, d, f)
<1> DEFINE e == MigrateDoc(v, d)
<1>1. \A f \in AddedFields :
          /\ e[f] = IF v = AddedBy(f) /\ d[f] = Null THEN AddedAs(f) ELSE d[f]
          /\ AddedAs(f) # Null /\ AddedBy(f) \in 1 .. Latest
    BY AddedFacts, AddedEffect
<1> HIDE DEF e
<1>2. ASSUME NEW f \in AddedFields, AddedBy(f) <= v
      PROVE  Has(e, f)
    <2>1. AddedBy(f) = v \/ AddedBy(f) <= v - 1
        BY <1>1, <1>2
    <2>. QED  BY <1>1, <2>1 DEF AddedSound, Has
<1>3. ASSUME NEW f \in AddedFields
      PROVE  AddedPromise(at, e, f) = AddedPromise(at, d, f)
    <2>1. at >= AddedBy(f) => v # AddedBy(f)
        BY <1>1
    <2>. QED  BY <1>1, <2>1 DEF AddedPromise, Has
<1>. QED  BY <1>2, <1>3 DEF AddedSound, e

\* So for the permissions, preTranslate and creatorResolve: the migrations that set them
\* whatever was there set what is promised of a document that had not come to them.
LEMMA MigrateSettings ==
    ASSUME NEW at \in 0 .. Latest, NEW v \in 1 .. Latest, at < v, NEW d \in Docs,
           AddedSound(v - 1, d), SettingsSound(at, v - 1, d)
    PROVE  LET e == MigrateDoc(v, d)
           IN  /\ SettingsSound(at, v, e)
               /\ UserPermissionsPromise(at, e) = UserPermissionsPromise(at, d)
               /\ PreTranslatePromise(at, e) = PreTranslatePromise(at, d)
               /\ ResolvePromise(at, e) = ResolvePromise(at, d)
<1> DEFINE e == MigrateDoc(v, d)
<1>1. at \in Int /\ v \in Int /\ at <= v - 1
    OBVIOUS
<1>2. /\ e["userPermissions"] = IF v = 4 THEN {"object"} ELSE d["userPermissions"]
      /\ e["preTranslate"] = IF v = 10 /\ Has(d, "translateConfig") THEN False ELSE d["preTranslate"]
      /\ e["creatorResolve"] = IF v = 15 /\ Has(d, "creatorResolve") THEN True ELSE d["creatorResolve"]
    <2>1. {"userPermissions", "preTranslate", "creatorResolve"} \subseteq Fields
        BY FieldNames DEF NamedFields
    <2>2. CASE v = 4
        <3>1. e = Migration4(d)
            BY <2>2 DEF MigrateDoc
        <3>. QED  BY <2>1, <2>2, <3>1, Effect4
    <2>3. CASE v = 10
        <3>1. e = Migration10(d)
            BY <2>3 DEF MigrateDoc
        <3>. QED  BY <2>1, <2>3, <3>1, Effect10
    <2>4. CASE v = 15
        <3>1. e = Migration15(d)
            BY <2>4 DEF MigrateDoc
        <3>. QED  BY <2>1, <2>4, <3>1, Effect15
    <2>5. CASE v \notin {4, 10, 15}
        <3>1. \A f \in {"userPermissions", "preTranslate", "creatorResolve"} : f \notin Touched(v)
            BY <2>5, TouchedBy
        <3>. QED  BY <2>1, <2>5, <3>1, MigrateTouches
    <2>. QED  BY <2>2, <2>3, <2>4, <2>5
<1>3. v = 10 => Has(d, "translateConfig")
    <2>1. "translateConfig" \in AddedFields /\ AddedBy("translateConfig") = 5
        BY DEF AddedFields, AddedBy
    <2>. QED  BY <2>1 DEF AddedSound
<1> HIDE DEF e
<1>4. SettingsSound(at, v, e)
    BY <1>1, <1>2, <1>3, ValueNames DEF SettingsSound, Has
<1>5. UserPermissionsPromise(at, e) = UserPermissionsPromise(at, d)
    BY <1>1, <1>2 DEF UserPermissionsPromise
<1>6. PreTranslatePromise(at, e) = PreTranslatePromise(at, d)
    BY <1>1, <1>2 DEF PreTranslatePromise
<1>7. ResolvePromise(at, e) = ResolvePromise(at, d)
    BY <1>1, <1>2, ValueNames DEF ResolvePromise, Has
<1>. QED  BY <1>4, <1>5, <1>6, <1>7, Zenon DEF e

\* So for the roles: the switches to share are read before they are taken away.
LEMMA MigrateRoles ==
    ASSUME NEW at \in 0 .. Latest, NEW v \in 1 .. Latest, at < v, NEW d \in Docs,
           RolesSound(at, v - 1, d)
    PROVE  /\ RolesSound(at, v, MigrateDoc(v, d))
           /\ RolePromise(at, MigrateDoc(v, d)) = RolePromise(at, d)
<1> DEFINE e == MigrateDoc(v, d)
           roles == (IF d["checkingShareEnabled"] = True THEN {"checker"} ELSE {}) \cup
                    (IF d["translateShareEnabled"] = True THEN {"commenter", "viewer"} ELSE {})
           Names == {"rolePermissions", "checkingShareEnabled", "translateShareEnabled"}
<1>1. at \in Int /\ v \in Int /\ at <= v - 1 /\ Names \subseteq Fields
    BY FieldNames DEF NamedFields
<1>2. CASE v \notin {5, 21}
    <2>1. \A f \in Names : f \notin Touched(v)
        BY <1>2, TouchedBy
    <2>2. \A f \in Names : e[f] = d[f]
        BY <1>1, <2>1, MigrateTouches
    <2> HIDE DEF e
    <2>3. 21 <= v => 21 <= v - 1
        BY <1>1, <1>2
    <2>4. /\ e["rolePermissions"] = d["rolePermissions"]
          /\ e["checkingShareEnabled"] = d["checkingShareEnabled"]
          /\ e["translateShareEnabled"] = d["translateShareEnabled"]
        BY <2>2
    <2>5. RolesSound(at, v, e)
        BY <2>3, <2>4 DEF RolesSound, Has
    <2>6. RolePromise(at, e) = RolePromise(at, d)
        BY <2>4, Zenon DEF RolePromise, Has
    <2>. QED  BY <2>5, <2>6 DEF e
<1>3. CASE v = 5
    <2>1. e = Migration5(d)
        BY <1>3 DEF MigrateDoc
    <2>2. /\ e["rolePermissions"] = d["rolePermissions"]
          /\ e["checkingShareEnabled"] = d["checkingShareEnabled"]
          /\ e["translateShareEnabled"] = False
        BY <1>1, <2>1, Effect5
    <2> HIDE DEF e
    <2>3. d["translateShareEnabled"] # True /\ e["translateShareEnabled"] # True
        BY <1>1, <1>3, <2>2, ValueNames DEF RolesSound
    <2>4. RolesSound(at, v, e)
        BY <1>3, <2>3 DEF RolesSound
    <2>5. RolePromise(at, e) = RolePromise(at, d)
        BY <2>2, <2>3, Zenon DEF RolePromise, Has
    <2>. QED  BY <2>4, <2>5 DEF e
<1>4. CASE v = 21
    <2>1. e = Migration21(d)
        BY <1>4 DEF MigrateDoc
    <2>2. ShareFields = {"translateShareEnabled", "checkingShareEnabled"}
        BY DEF ShareFields
    <2>3. /\ e["rolePermissions"] = IF Has(d, "rolePermissions") THEN d["rolePermissions"] ELSE roles
          /\ e["translateShareEnabled"] = IF Has(d, "rolePermissions") THEN d["translateShareEnabled"] ELSE Null
        BY <1>1, <2>1, <2>2, Effect21
    <2>4. roles # Null
        BY DEF Null
    <2>5. ~(at >= 21)
        BY <1>1, <1>4
    <2>6. RolePromise(at, d) = IF Has(d, "rolePermissions") THEN d["rolePermissions"] ELSE roles
        BY <2>5 DEF RolePromise
    <2> HIDE DEF e, roles
    <2>7. Has(e, "rolePermissions")
        BY <2>3, <2>4 DEF Has
    <2>8. RolesSound(at, v, e)
        BY <2>3, <2>7, ValueNames DEF RolesSound
    <2>9. RolePromise(at, e) = RolePromise(at, d)
        BY <2>3, <2>6, <2>7 DEF RolePromise
    <2>. QED  BY <2>8, <2>9 DEF e
<1>. QED  BY <1>2, <1>3, <1>4

\* What the choice of the sources reads of a document is the same in another.
SameSources(at, d, e) ==
    /\ \A f \in SourceLists \cup SourceFields \cup {"source"} : e[f] = d[f]
    /\ \A f \in {"preTranslate", "alternateTrainingSourceEnabled", "additionalTrainingSourceEnabled"} :
           e[f] = True <=> d[f] = True
    /\ Alternate(at, e, "alternateSourceEnabled", "alternateSource") <=>
       Alternate(at, d, "alternateSourceEnabled", "alternateSource")

\* What is promised of the sources reads no more than that.
LEMMA SamePromises ==
    ASSUME NEW at, NEW d, NEW e, SameSources(at, d, e)
    PROVE  /\ DraftingPromise(at, e) = DraftingPromise(at, d)
           /\ TrainingPromise(at, e) = TrainingPromise(at, d)
<1>1. /\ e["draftingSources"] = d["draftingSources"] /\ e["trainingSources"] = d["trainingSources"]
      /\ e["alternateSource"] = d["alternateSource"] /\ e["source"] = d["source"]
      /\ e["alternateTrainingSource"] = d["alternateTrainingSource"]
      /\ e["additionalTrainingSource"] = d["additionalTrainingSource"]
      /\ e["preTranslate"] = True <=> d["preTranslate"] = True
      /\ e["alternateTrainingSourceEnabled"] = True <=> d["alternateTrainingSourceEnabled"] = True
      /\ e["additionalTrainingSourceEnabled"] = True <=> d["additionalTrainingSourceEnabled"] = True
      /\ Alternate(at, e, "alternateSourceEnabled", "alternateSource") <=>
         Alternate(at, d, "alternateSourceEnabled", "alternateSource")
    BY DEF SameSources, SourceLists, SourceFields
<1>2. Alternate(at, e, "alternateTrainingSourceEnabled", "alternateTrainingSource") <=>
      Alternate(at, d, "alternateTrainingSourceEnabled", "alternateTrainingSource")
    BY <1>1 DEF Alternate, Has
<1>3. DraftingPromise(at, e) = DraftingPromise(at, d)
    BY <1>1 DEF DraftingPromise, UsedPromise, ChosenPromise, Has
<1>4. TrainingPromise(at, e) = TrainingPromise(at, d)
    BY <1>1, <1>2 DEF TrainingPromise, UsedPromise, ChosenPromise, Has
<1>. QED  BY <1>3, <1>4

\* Every list of sources that is chosen is one, not the want of one.
LEMMA SourcesThere ==
    ASSUME NEW at, NEW d
    PROVE  /\ UsedPromise(d, ChosenPromise(at, d, "alternateSourceEnabled", "alternateSource")) # Null
           /\ UsedPromise(d,
                 ChosenPromise(at, d, "alternateTrainingSourceEnabled", "alternateTrainingSource") \cup
                 (IF d["additionalTrainingSourceEnabled"] = True
                  THEN d["additionalTrainingSource"] \ Null ELSE {})) # Null
<1>1. \A enabled, source : ChosenPromise(at, d, enabled, source) # Null
    BY DEF ChosenPromise, Alternate, Has, Null
<1>2. \A S, T : S # Null => S \cup (T \ Null) # Null /\ S \cup {} # Null
    BY DEF Null
<1>3. {} # Null
    BY DEF Null
<1>. QED  BY <1>1, <1>2, <1>3 DEF UsedPromise

\* So for the lists of sources: made once, of sources that are taken away after.
LEMMA MigrateSources ==
    ASSUME NEW at \in 0 .. Latest, NEW v \in 1 .. Latest, at < v, NEW d \in Docs,
           SettingsSound(at, v - 1, d), SourcesSound(at, v - 1, d)
    PROVE  /\ SourcesSound(at, v, MigrateDoc(v, d))
           /\ DraftingPromise(at, MigrateDoc(v, d)) = DraftingPromise(at, d)
           /\ TrainingPromise(at, MigrateDoc(v, d)) = TrainingPromise(at, d)
<1> DEFINE e == MigrateDoc(v, d)
           Names == {"draftingSources", "trainingSources", "alternateSource", "alternateTrainingSource",
                     "additionalTrainingSource", "alternateSourceEnabled",
                     "alternateTrainingSourceEnabled", "additionalTrainingSourceEnabled",
                     "source", "preTranslate"}
<1>1. at \in Int /\ v \in Int /\ at <= v - 1 /\ Names \subseteq Fields
    BY FieldNames DEF NamedFields
<1>2. /\ SourceLists = {"draftingSources", "trainingSources"}
      /\ SourceFields = {"alternateSource", "alternateTrainingSource", "additionalTrainingSource"}
      /\ EnabledFields = {"alternateSourceEnabled", "alternateTrainingSourceEnabled",
                          "additionalTrainingSourceEnabled"}
    BY DEF SourceLists, SourceFields, EnabledFields
<1>3. ASSUME v # 27
      PROVE  /\ \A f \in SourceLists \cup SourceFields \cup {"source"} : e[f] = d[f]
             /\ v # 10 => e["preTranslate"] = d["preTranslate"]
             /\ v # 14 => e["alternateTrainingSourceEnabled"] = d["alternateTrainingSourceEnabled"]
             /\ v # 18 => e["alternateSourceEnabled"] = d["alternateSourceEnabled"]
             /\ v # 20 => e["additionalTrainingSourceEnabled"] = d["additionalTrainingSourceEnabled"]
    <2>1. /\ \A f \in SourceLists \cup SourceFields \cup {"source"} : f \notin Touched(v)
          /\ v # 10 => "preTranslate" \notin Touched(v)
          /\ v # 14 => "alternateTrainingSourceEnabled" \notin Touched(v)
          /\ v # 18 => "alternateSourceEnabled" \notin Touched(v)
          /\ v # 20 => "additionalTrainingSourceEnabled" \notin Touched(v)
        BY <1>2, <1>3, TouchedBy
    <2>2. \A f \in Fields \ Touched(v) : e[f] = d[f]
        BY MigrateTouches
    <2> HIDE DEF e
    <2>. QED  BY <1>1, <1>2, <2>1, <2>2
<1>4. CASE v # 27
    <2>1. v = 10 => d["preTranslate"] # True /\ e["preTranslate"] # True
        <3>1. SUFFICES ASSUME v = 10
                       PROVE  d["preTranslate"] # True /\ e["preTranslate"] # True
            OBVIOUS
        <3>2. d["preTranslate"] # True
            BY <1>1, <3>1 DEF SettingsSound
        <3>3. e = Migration10(d)
            BY <3>1 DEF MigrateDoc
        <3>4. e["preTranslate"] = False \/ e["preTranslate"] = d["preTranslate"]
            BY <1>1, <3>3, Effect10
        <3>. QED  BY <3>2, <3>4, ValueNames
    <2>2. v = 14 => e["alternateTrainingSourceEnabled"] =
                        IF Has(d, "alternateTrainingSourceEnabled")
                        THEN d["alternateTrainingSourceEnabled"] ELSE False
        <3>1. v = 14 => e = Migration14(d)
            BY DEF MigrateDoc
        <3>. QED  BY <1>1, <3>1, Effect14
    <2>3. v = 18 => e["alternateSourceEnabled"] =
                        IF d["alternateSourceEnabled"] = Null
                        THEN IF Has(d, "alternateSource") THEN True ELSE False
                        ELSE d["alternateSourceEnabled"]
        <3>1. v = 18 => e = Migration18(d)
            BY DEF MigrateDoc
        <3>. QED  BY <1>1, <3>1, Effect18
    <2>4. v = 20 => e["additionalTrainingSourceEnabled"] =
                        IF d["additionalTrainingSourceEnabled"] = Null THEN False
                        ELSE d["additionalTrainingSourceEnabled"]
        <3>1. v = 20 => e = Migration20(d)
            BY DEF MigrateDoc
        <3>2. Adds(Migration20(d), d, {"additionalTrainingSourceEnabled"}, False)
            BY AddingMigrations
        <3>. QED  BY <1>1, <3>1, <3>2 DEF Adds
    <2> HIDE DEF e
    <2>5. \A f \in {"preTranslate", "alternateTrainingSourceEnabled", "additionalTrainingSourceEnabled"} :
              e[f] = True <=> d[f] = True
        BY <1>3, <1>4, <2>1, <2>2, <2>4, ValueNames DEF Has
    <2>6. e["alternateSource"] = d["alternateSource"]
        BY <1>2, <1>3, <1>4
    <2>7. Alternate(at, e, "alternateSourceEnabled", "alternateSource") <=>
          Alternate(at, d, "alternateSourceEnabled", "alternateSource")
        <3>1. CASE v = 18
            BY <1>1, <2>3, <2>6, <3>1, ValueNames DEF Alternate, Has
        <3>2. CASE v # 18
            BY <1>3, <1>4, <2>6, <3>2 DEF Alternate, Has
        <3>. QED  BY <3>1, <3>2
    <2>8. SameSources(at, d, e)
        BY <1>3, <1>4, <2>5, <2>7 DEF SameSources
    <2>9. SourcesSound(at, v, e)
        <3>1. 27 <= v => 27 <= v - 1
            BY <1>1, <1>4
        <3>2. 27 <= v => /\ v \notin {14, 18, 20}
                         /\ \A f \in SourceLists \cup SourceFields \cup EnabledFields : e[f] = d[f]
            BY <1>1, <1>2, <1>3, <1>4
        <3>3. 27 <= v => \A f \in SourceLists : Has(e, f)
            BY <3>1, <3>2 DEF SourcesSound, Has
        <3>4. 27 <= v => \A f \in SourceFields \cup EnabledFields : ~Has(e, f)
            BY <3>1, <3>2 DEF SourcesSound, Has
        <3>5. at < 18 /\ 18 <= v /\ v < 27 => Has(e, "alternateSourceEnabled")
            <4>1. CASE v = 18
                BY <2>3, <4>1, ValueNames DEF Has
            <4>2. CASE v # 18
                BY <1>1, <1>3, <1>4, <4>2 DEF SourcesSound, Has
            <4>. QED  BY <4>1, <4>2
        <3>. QED  BY <3>3, <3>4, <3>5 DEF SourcesSound
    <2>. QED  BY <2>8, <2>9, SamePromises DEF e
<1>5. CASE v = 27
    <2>1. e = Migration27(d)
        BY <1>5 DEF MigrateDoc
    <2>2. /\ e["draftingSources"] = IF Has(d, "draftingSources") THEN d["draftingSources"]
                 ELSE Used(d, Chosen(d, "alternateSourceEnabled", "alternateSource"))
          /\ e["trainingSources"] = IF Has(d, "trainingSources") THEN d["trainingSources"]
                 ELSE Used(d, TrainingChoice(d))
          /\ \A f \in SourceFields \cup EnabledFields : e[f] = Null
        <3>1. \A f \in SourceFields \cup EnabledFields : f \in Fields /\ f \notin SourceLists
            BY <1>1, <1>2
        <3>. QED  BY <1>1, <1>2, <2>1, <3>1, Effect27
    <2>3. at < 18 => Has(d, "alternateSourceEnabled")
        BY <1>1, <1>5 DEF SourcesSound
    <2>4. /\ Chosen(d, "alternateSourceEnabled", "alternateSource") =
                 ChosenPromise(at, d, "alternateSourceEnabled", "alternateSource")
          /\ Chosen(d, "alternateTrainingSourceEnabled", "alternateTrainingSource") =
                 ChosenPromise(at, d, "alternateTrainingSourceEnabled", "alternateTrainingSource")
        BY <1>1, <1>5, <2>3 DEF Chosen, ChosenPromise, Alternate
    <2>5. ~(at >= 27)
        BY <1>1, <1>5
    <2> HIDE DEF e
    <2>6. e["draftingSources"] = DraftingPromise(at, d)
        BY <2>2, <2>4, <2>5 DEF DraftingPromise, Used, UsedPromise
    <2>7. e["trainingSources"] = TrainingPromise(at, d)
        BY <2>2, <2>4, <2>5 DEF TrainingPromise, Used, UsedPromise, TrainingChoice
    <2>8. Has(e, "draftingSources") /\ Has(e, "trainingSources")
        BY <2>5, <2>6, <2>7, SourcesThere DEF DraftingPromise, TrainingPromise, Has
    <2>9. DraftingPromise(at, e) = DraftingPromise(at, d) /\ TrainingPromise(at, e) = TrainingPromise(at, d)
        <3>1. DraftingPromise(at, e) = e["draftingSources"] /\ TrainingPromise(at, e) = e["trainingSources"]
            BY <2>8 DEF DraftingPromise, TrainingPromise
        <3>. QED  BY <2>6, <2>7, <3>1
    <2>10. SourcesSound(at, v, e)
        BY <1>2, <1>5, <2>2, <2>8 DEF SourcesSound, Has
    <2>. QED  BY <2>9, <2>10 DEF e
<1>. QED  BY <1>4, <1>5

\* A promise of ranges reads what it reads.
LEMMA SameRanges ==
    ASSUME NEW at, NEW d, NEW e, NEW ranges, NEW chosenD, NEW chosenE, NEW enabled, NEW source,
           e[ranges] = d[ranges], chosenE <=> chosenD, e["source"] = d["source"],
           e[source] = d[source], Alternate(at, e, enabled, source) <=> Alternate(at, d, enabled, source)
    PROVE  RangesPromise(at, e, ranges, chosenE, enabled, source) =
           RangesPromise(at, d, ranges, chosenD, enabled, source)
<1>1. NoBooks(e, ranges) <=> NoBooks(d, ranges)
    BY DEF NoBooks
<1>2. CASE at >= 26 \/ ~NoBooks(d, ranges) \/ ~chosenD
    BY <1>1, <1>2, Zenon DEF RangesPromise
<1>3. CASE ~(at >= 26 \/ ~NoBooks(d, ranges) \/ ~chosenD)
    BY <1>1, <1>3, Zenon DEF RangesPromise
<1>. QED  BY <1>2, <1>3

\* Migration26 keeps the promise of the ranges, if it was sound and nothing is left to be moved.
LEMMA RangesMoved ==
    ASSUME NEW at, NEW d, NEW e, NEW range, NEW ranges, NEW chosenD, NEW chosenE, NEW enabled, NEW source,
           ~(at >= 26), d[range] \in {Null, {"range"}}, chosenD <=> Has(d, range), ~chosenE,
           Alternate(at, d, enabled, source) <=> d[enabled] = True /\ Has(d, source),
           e[ranges] = RangesOf(d, range, ranges, enabled, source)
    PROVE  RangesPromise(at, e, ranges, chosenE, enabled, source) =
           RangesPromise(at, d, ranges, chosenD, enabled, source)
<1>1. RangesPromise(at, e, ranges, chosenE, enabled, source) = e[ranges]
    BY Zenon DEF RangesPromise
<1>2. NoBooks(d, ranges) <=> ~Has(d, ranges) \/ d[ranges] = EmptyList
    BY DEF NoBooks, Has
<1>3. CASE chosenD /\ NoBooks(d, ranges)
    <2>1. d[range] = {"range"}
        BY <1>3 DEF Has
    <2>2. e[ranges] = {"range"} \cup (IF Alternate(at, d, enabled, source) THEN d[source] ELSE d["source"])
        BY <1>2, <1>3, <2>1 DEF RangesOf
    <2>. QED  BY <1>1, <1>3, <2>2, Zenon DEF RangesPromise
<1>4. CASE ~(chosenD /\ NoBooks(d, ranges))
    <2>1. e[ranges] = d[ranges]
        BY <1>2, <1>4 DEF RangesOf
    <2>. QED  BY <1>1, <1>4, <2>1, Zenon DEF RangesPromise
<1>. QED  BY <1>3, <1>4

\* Migration22 leaves books only where it leaves their range.
LEMMA RangeMade ==
    ASSUME NEW d, NEW e, NEW range, NEW books, d[range] \in {Null, {"range"}},
           Has(d, range) \/ Has(d, books), e[books] = d[books],
           e[range] = IF Has(d, range) \/ d[books] = EmptyList THEN d[range] ELSE {"range"}
    PROVE  /\ e[range] \in {Null, {"range"}}
           /\ Has(e, range) \/ NoBooks(e, books)
<1>1. {"range"} # Null
    BY ValueNames
<1>. QED  BY <1>1 DEF Has, NoBooks

\* So for the ranges for training: books become a range, and the range a list of ranges.
LEMMA MigrateTraining ==
    ASSUME NEW at \in 0 .. Latest, NEW v \in 1 .. Latest, at < v, NEW d \in Docs,
           TrainingSound(v - 1, d), ~Throws(v, d)
    PROVE  /\ TrainingSound(v, MigrateDoc(v, d))
           /\ TrainingRangesPromise(at, MigrateDoc(v, d)) = TrainingRangesPromise(at, d)
<1> DEFINE e == MigrateDoc(v, d)
           last == "lastSelectedBooks"
           books == "lastSelectedTrainingBooks"
           range == "trainingRange"
           ranges == "trainingRanges"
           enabled == "alternateTrainingSourceEnabled"
           source == "alternateTrainingSource"
           Names == {last, books, range, ranges, enabled, source, "source"}
<1>1. at \in Int /\ v \in Int /\ at <= v - 1 /\ Names \subseteq Fields
    BY FieldNames DEF NamedFields
<1>2. /\ v \notin {13, 14} => e[last] = d[last]
      /\ v \notin {14, 26} => e[books] = d[books]
      /\ v \notin {22, 26} => e[range] = d[range]
      /\ v # 26 => e[ranges] = d[ranges]
      /\ v \notin {14, 27} => e[enabled] = d[enabled]
      /\ v # 27 => e[source] = d[source]
      /\ e["source"] = d["source"]
    <2>1. /\ v \notin {13, 14} => last \notin Touched(v)
          /\ v \notin {14, 26} => books \notin Touched(v)
          /\ v \notin {22, 26} => range \notin Touched(v)
          /\ v # 26 => ranges \notin Touched(v)
          /\ v \notin {14, 27} => enabled \notin Touched(v)
          /\ v # 27 => source \notin Touched(v)
          /\ "source" \notin Touched(v)
        BY TouchedBy
    <2>2. \A f \in Fields \ Touched(v) : e[f] = d[f]
        BY MigrateTouches
    <2> HIDE DEF e
    <2>. QED  BY <1>1, <2>1, <2>2
<1>3. \A doc : Alternate(at, doc, enabled, source) <=> doc[enabled] = True /\ Has(doc, source)
    BY DEF Alternate
<1>4. ASSUME v # 26, v # 27, TrainingChosen(e) <=> TrainingChosen(d), e[enabled] = True <=> d[enabled] = True
      PROVE  TrainingRangesPromise(at, e) = TrainingRangesPromise(at, d)
    <2>1. /\ e[ranges] = d[ranges] /\ e["source"] = d["source"] /\ e[source] = d[source]
          /\ Alternate(at, e, enabled, source) <=> Alternate(at, d, enabled, source)
        BY <1>2, <1>3, <1>4 DEF Has
    <2> HIDE DEF e
    <2>. QED  BY <1>4, <2>1, SameRanges DEF TrainingRangesPromise
<1>5. CASE v \notin {13, 14, 22, 26, 27}
    <2>1. /\ e[last] = d[last] /\ e[books] = d[books] /\ e[range] = d[range] /\ e[enabled] = d[enabled]
        BY <1>2, <1>5
    <2> HIDE DEF e
    <2>2. TrainingChosen(e) <=> TrainingChosen(d)
        BY <2>1 DEF TrainingChosen, Has, NoBooks
    <2>3. TrainingSound(v, e)
        <3>1. (14 <= v => 14 <= v - 1) /\ (22 <= v => 22 <= v - 1) /\ (26 <= v => 26 <= v - 1)
            BY <1>1, <1>5
        <3>. QED  BY <2>1, <3>1 DEF TrainingSound, Has, NoBooks
    <2>. QED  BY <1>4, <1>5, <2>1, <2>2, <2>3 DEF e
<1>6. CASE v = 13
    <2>1. e = Migration13(d)
        BY <1>6 DEF MigrateDoc
    <2>2. Adds(Migration13(d), d, {last}, EmptyList)
        BY AddingMigrations
    <2>3. e[last] = IF d[last] = Null THEN EmptyList ELSE d[last]
        BY <1>1, <2>1, <2>2 DEF Adds
    <2>4. /\ e[books] = d[books] /\ e[range] = d[range] /\ e[enabled] = d[enabled]
        BY <1>2, <1>6
    <2> HIDE DEF e
    <2>5. NoBooks(e, last) <=> NoBooks(d, last)
        BY <2>3 DEF NoBooks
    <2>6. TrainingChosen(e) <=> TrainingChosen(d)
        BY <2>4, <2>5 DEF TrainingChosen, Has, NoBooks
    <2>7. TrainingSound(v, e)
        BY <1>6, <2>4, <2>5 DEF TrainingSound, Has, NoBooks
    <2>. QED  BY <1>4, <1>6, <2>4, <2>6, <2>7 DEF e
<1>7. CASE v = 14
    <2>1. e = Migration14(d)
        BY <1>7 DEF MigrateDoc
    <2>2. /\ e[last] = IF Has(d, books) THEN d[last] ELSE Null
          /\ e[books] = IF Has(d, books) THEN d[books] ELSE IF Has(d, last) THEN d[last] ELSE EmptyList
          /\ e[enabled] = IF Has(d, enabled) THEN d[enabled] ELSE False
        BY <1>1, <2>1, Effect14
    <2>3. e[range] = d[range]
        BY <1>2, <1>7
    <2> HIDE DEF e
    <2>4. e[enabled] = True <=> d[enabled] = True
        BY <2>2, ValueNames DEF Has
    <2>5. TrainingChosen(e) <=> TrainingChosen(d)
        BY <2>2, <2>3, ValueNames DEF TrainingChosen, Has, NoBooks
    <2>6. TrainingSound(v, e)
        BY <1>7, <2>2, <2>3 DEF TrainingSound, Has, NoBooks
    <2>. QED  BY <1>4, <1>7, <2>4, <2>5, <2>6 DEF e
<1>8. CASE v = 22
    <2>1. e = Migration22(d)
        BY <1>8 DEF MigrateDoc
    <2>2. e[range] = IF Has(d, range) \/ d[books] = EmptyList THEN d[range] ELSE {"range"}
        BY <1>1, <2>1, Effect22 DEF RangeOf
    <2>3. e[last] = d[last] /\ e[books] = d[books] /\ e[enabled] = d[enabled]
        BY <1>2, <1>8
    <2>4. Has(d, range) \/ Has(d, books)
        BY <1>8 DEF Throws
    <2> HIDE DEF e
    <2>5. NoBooks(d, last)
        BY <1>8 DEF TrainingSound
    <2>6. TrainingChosen(e) <=> TrainingChosen(d)
        BY <2>2, <2>3, <2>4, <2>5, ValueNames DEF TrainingChosen, Has, NoBooks
    <2>7. TrainingSound(v, e)
        <3>1. d[range] \in {Null, {"range"}}
            BY DEF TrainingSound
        <3>2. e[range] \in {Null, {"range"}} /\ (Has(e, range) \/ NoBooks(e, books))
            BY <2>2, <2>3, <2>4, <3>1, RangeMade
        <3>3. NoBooks(e, last)
            BY <2>3, <2>5 DEF NoBooks
        <3>4. ~(26 <= v)
            BY <1>8
        <3>. QED  BY <3>2, <3>3, <3>4 DEF TrainingSound
    <2>. QED  BY <1>4, <1>8, <2>3, <2>6, <2>7 DEF e
<1>9. CASE v = 26
    <2>1. e = Migration26(d)
        BY <1>9 DEF MigrateDoc
    <2>2. /\ e[ranges] = RangesOf(d, range, ranges, enabled, source)
          /\ e[range] = Null /\ e[books] = Null
        BY <1>1, <2>1, Effect26 DEF BookFields, RangeFields
    <2>3. e[last] = d[last]
        BY <1>2, <1>9
    <2>4. NoBooks(d, last) /\ (Has(d, range) \/ NoBooks(d, books)) /\ d[range] \in {Null, {"range"}}
        BY <1>9 DEF TrainingSound
    <2> HIDE DEF e
    <2>5. TrainingChosen(d) <=> Has(d, range)
        BY <2>4 DEF TrainingChosen
    <2>6. ~TrainingChosen(e)
        BY <2>2, <2>3, <2>4 DEF TrainingChosen, Has, NoBooks
    <2>7. ~(at >= 26)
        BY <1>1, <1>9
    <2>8. TrainingSound(v, e)
        BY <1>9, <2>2, <2>3, <2>4 DEF TrainingSound, Has, NoBooks
    <2>9. Alternate(at, d, enabled, source) <=> d[enabled] = True /\ Has(d, source)
        BY <1>3
    <2>10. TrainingRangesPromise(at, e) = TrainingRangesPromise(at, d)
        BY <2>2, <2>4, <2>5, <2>6, <2>7, <2>9, RangesMoved DEF TrainingRangesPromise
    <2>. QED  BY <2>8, <2>10 DEF e
<1>10. CASE v = 27
    <2>1. /\ e[last] = d[last] /\ e[books] = d[books] /\ e[range] = d[range] /\ e[ranges] = d[ranges]
        BY <1>2, <1>10
    <2> HIDE DEF e
    <2>2. NoBooks(d, last) /\ ~Has(d, range) /\ ~Has(d, books)
        BY <1>10 DEF TrainingSound
    <2>3. ~TrainingChosen(d) /\ ~TrainingChosen(e)
        BY <2>1, <2>2 DEF TrainingChosen, Has, NoBooks
    <2>4. TrainingSound(v, e)
        BY <1>10, <2>1, <2>2 DEF TrainingSound, Has, NoBooks
    <2>5. TrainingRangesPromise(at, e) = TrainingRangesPromise(at, d)
        BY <2>1, <2>3 DEF TrainingRangesPromise, RangesPromise
    <2>. QED  BY <2>4, <2>5 DEF e
<1>. QED  BY <1>5, <1>6, <1>7, <1>8, <1>9, <1>10

\* So for the ranges for drafting.
LEMMA MigrateTranslation ==
    ASSUME NEW at \in 0 .. Latest, NEW v \in 1 .. Latest, at < v, NEW d \in Docs,
           SourcesSound(at, v - 1, d), TranslationSound(v - 1, d), ~Throws(v, d)
    PROVE  /\ TranslationSound(v, MigrateDoc(v, d))
           /\ TranslationRangesPromise(at, MigrateDoc(v, d)) = TranslationRangesPromise(at, d)
<1> DEFINE e == MigrateDoc(v, d)
           books == "lastSelectedTranslationBooks"
           range == "translationRange"
           ranges == "translationRanges"
           enabled == "alternateSourceEnabled"
           source == "alternateSource"
           Names == {books, range, ranges, enabled, source, "source"}
<1>1. at \in Int /\ v \in Int /\ at <= v - 1 /\ Names \subseteq Fields
    BY FieldNames DEF NamedFields
<1>2. /\ v \notin {14, 26} => e[books] = d[books]
      /\ v \notin {22, 26} => e[range] = d[range]
      /\ v # 26 => e[ranges] = d[ranges]
      /\ v \notin {18, 27} => e[enabled] = d[enabled]
      /\ v # 27 => e[source] = d[source]
      /\ e["source"] = d["source"]
    <2>1. /\ v \notin {14, 26} => books \notin Touched(v)
          /\ v \notin {22, 26} => range \notin Touched(v)
          /\ v # 26 => ranges \notin Touched(v)
          /\ v \notin {18, 27} => enabled \notin Touched(v)
          /\ v # 27 => source \notin Touched(v)
          /\ "source" \notin Touched(v)
        BY TouchedBy
    <2>2. \A f \in Fields \ Touched(v) : e[f] = d[f]
        BY MigrateTouches
    <2> HIDE DEF e
    <2>. QED  BY <1>1, <2>1, <2>2
<1>3. ASSUME v # 26, v # 27, TranslationChosen(e) <=> TranslationChosen(d),
             Alternate(at, e, enabled, source) <=> Alternate(at, d, enabled, source)
      PROVE  TranslationRangesPromise(at, e) = TranslationRangesPromise(at, d)
    <2>1. /\ e[ranges] = d[ranges] /\ e["source"] = d["source"] /\ e[source] = d[source]
        BY <1>2, <1>3
    <2> HIDE DEF e
    <2>. QED  BY <1>3, <2>1, SameRanges DEF TranslationRangesPromise
<1>4. CASE v \notin {14, 18, 22, 26, 27}
    <2>1. /\ e[books] = d[books] /\ e[range] = d[range] /\ e[enabled] = d[enabled] /\ e[source] = d[source]
        BY <1>2, <1>4
    <2> HIDE DEF e
    <2>2. TranslationChosen(e) <=> TranslationChosen(d)
        BY <2>1 DEF TranslationChosen, Has, NoBooks
    <2>3. TranslationSound(v, e)
        <3>1. (22 <= v => 22 <= v - 1) /\ (26 <= v => 26 <= v - 1)
            BY <1>1, <1>4
        <3>. QED  BY <2>1, <3>1 DEF TranslationSound, Has, NoBooks
    <2>4. Alternate(at, e, enabled, source) <=> Alternate(at, d, enabled, source)
        BY <2>1 DEF Alternate, Has
    <2>. QED  BY <1>3, <1>4, <2>2, <2>3, <2>4 DEF e
<1>5. CASE v = 14
    <2>1. e = Migration14(d)
        BY <1>5 DEF MigrateDoc
    <2>2. e[books] = IF Has(d, books) THEN d[books] ELSE EmptyList
        BY <1>1, <2>1, Effect14
    <2>3. e[range] = d[range] /\ e[enabled] = d[enabled] /\ e[source] = d[source]
        BY <1>2, <1>5
    <2> HIDE DEF e
    <2>4. NoBooks(e, books) <=> NoBooks(d, books)
        BY <2>2 DEF NoBooks, Has
    <2>5. TranslationChosen(e) <=> TranslationChosen(d)
        BY <2>3, <2>4 DEF TranslationChosen, Has
    <2>6. TranslationSound(v, e)
        BY <1>5, <2>3 DEF TranslationSound
    <2>7. Alternate(at, e, enabled, source) <=> Alternate(at, d, enabled, source)
        BY <2>3 DEF Alternate, Has
    <2>. QED  BY <1>3, <1>5, <2>5, <2>6, <2>7 DEF e
<1>6. CASE v = 18
    <2>1. e = Migration18(d)
        BY <1>6 DEF MigrateDoc
    <2>2. e[enabled] = IF d[enabled] = Null THEN IF Has(d, source) THEN True ELSE False ELSE d[enabled]
        BY <1>1, <2>1, Effect18
    <2>3. e[books] = d[books] /\ e[range] = d[range] /\ e[source] = d[source]
        BY <1>2, <1>6
    <2> HIDE DEF e
    <2>4. TranslationChosen(e) <=> TranslationChosen(d)
        BY <2>3 DEF TranslationChosen, Has, NoBooks
    <2>5. TranslationSound(v, e)
        BY <1>6, <2>3 DEF TranslationSound
    <2>6. Alternate(at, e, enabled, source) <=> Alternate(at, d, enabled, source)
        BY <1>1, <1>6, <2>2, <2>3, ValueNames DEF Alternate, Has
    <2>. QED  BY <1>3, <1>6, <2>4, <2>5, <2>6 DEF e
<1>7. CASE v = 22
    <2>1. e = Migration22(d)
        BY <1>7 DEF MigrateDoc
    <2>2. e[range] = IF Has(d, range) \/ d[books] = EmptyList THEN d[range] ELSE {"range"}
        BY <1>1, <2>1, Effect22 DEF RangeOf
    <2>3. e[books] = d[books] /\ e[enabled] = d[enabled] /\ e[source] = d[source]
        BY <1>2, <1>7
    <2>4. Has(d, range) \/ Has(d, books)
        BY <1>7 DEF Throws
    <2> HIDE DEF e
    <2>5. TranslationChosen(e) <=> TranslationChosen(d)
        BY <2>2, <2>3, <2>4, ValueNames DEF TranslationChosen, Has, NoBooks
    <2>6. TranslationSound(v, e)
        <3>1. d[range] \in {Null, {"range"}}
            BY DEF TranslationSound
        <3>2. e[range] \in {Null, {"range"}} /\ (Has(e, range) \/ NoBooks(e, books))
            BY <2>2, <2>3, <2>4, <3>1, RangeMade
        <3>3. ~(26 <= v)
            BY <1>7
        <3>. QED  BY <3>2, <3>3 DEF TranslationSound
    <2>7. Alternate(at, e, enabled, source) <=> Alternate(at, d, enabled, source)
        BY <2>3 DEF Alternate, Has
    <2>. QED  BY <1>3, <1>7, <2>5, <2>6, <2>7 DEF e
<1>8. CASE v = 26
    <2>1. e = Migration26(d)
        BY <1>8 DEF MigrateDoc
    <2>2. /\ e[ranges] = RangesOf(d, range, ranges, enabled, source)
          /\ e[range] = Null /\ e[books] = Null
        BY <1>1, <2>1, Effect26 DEF BookFields, RangeFields
    <2>3. (Has(d, range) \/ NoBooks(d, books)) /\ d[range] \in {Null, {"range"}}
        BY <1>8 DEF TranslationSound
    <2> HIDE DEF e
    <2>4. TranslationChosen(d) <=> Has(d, range)
        BY <2>3 DEF TranslationChosen
    <2>5. ~TranslationChosen(e)
        BY <2>2 DEF TranslationChosen, Has, NoBooks
    <2>6. ~(at >= 26)
        BY <1>1, <1>8
    <2>7. TranslationSound(v, e)
        BY <1>8, <2>2 DEF TranslationSound, Has, NoBooks
    <2>8. Alternate(at, d, enabled, source) <=> d[enabled] = True /\ Has(d, source)
        <3>1. at < 18 => Has(d, enabled)
            BY <1>1, <1>8 DEF SourcesSound
        <3>. QED  BY <3>1 DEF Alternate
    <2>9. TranslationRangesPromise(at, e) = TranslationRangesPromise(at, d)
        BY <2>2, <2>3, <2>4, <2>5, <2>6, <2>8, RangesMoved DEF TranslationRangesPromise
    <2>. QED  BY <2>7, <2>9 DEF e
<1>9. CASE v = 27
    <2>1. /\ e[books] = d[books] /\ e[range] = d[range] /\ e[ranges] = d[ranges]
        BY <1>2, <1>9
    <2> HIDE DEF e
    <2>2. ~Has(d, range) /\ ~Has(d, books)
        BY <1>9 DEF TranslationSound
    <2>3. ~TranslationChosen(d) /\ ~TranslationChosen(e)
        BY <2>1, <2>2 DEF TranslationChosen, Has, NoBooks
    <2>4. TranslationSound(v, e)
        BY <1>9, <2>1, <2>2 DEF TranslationSound, Has, NoBooks
    <2>5. TranslationRangesPromise(at, e) = TranslationRangesPromise(at, d)
        BY <2>1, <2>3 DEF TranslationRangesPromise, RangesPromise
    <2>. QED  BY <2>4, <2>5 DEF e
<1>. QED  BY <1>4, <1>5, <1>6, <1>7, <1>8, <1>9

\* So for the draft's ranges.
LEMMA MigrateDraft ==
    ASSUME NEW at \in 0 .. Latest, NEW v \in 1 .. Latest, at < v, NEW d \in Docs,
           DraftSound(at, v - 1, d)
    PROVE  /\ DraftSound(at, v, MigrateDoc(v, d))
           /\ CurrentPromise(at, MigrateDoc(v, d)) = CurrentPromise(at, d)
           /\ DraftedPromise(at, MigrateDoc(v, d)) = DraftedPromise(at, d)
<1> DEFINE e == MigrateDoc(v, d)
           Names == {"currentScriptureRange", "draftedScriptureRange", "hasDraft"}
<1>1. at \in Int /\ v \in Int /\ at <= v - 1 /\ Names \subseteq Fields
    BY FieldNames DEF NamedFields
<1>2. CASE v # 28
    <2>1. \A f \in Names : f \notin Touched(v)
        BY <1>2, TouchedBy
    <2>2. /\ e["currentScriptureRange"] = d["currentScriptureRange"]
          /\ e["draftedScriptureRange"] = d["draftedScriptureRange"] /\ e["hasDraft"] = d["hasDraft"]
        BY <1>1, <2>1, MigrateTouches
    <2> HIDE DEF e
    <2>3. DraftKnown(e) <=> DraftKnown(d)
        BY <2>2 DEF DraftKnown, Has
    <2>4. DraftSound(at, v, e)
        BY <1>1, <1>2, <2>3 DEF DraftSound
    <2>5. CurrentPromise(at, e) = CurrentPromise(at, d) /\ DraftedPromise(at, e) = DraftedPromise(at, d)
        BY <2>2, <2>3 DEF CurrentPromise, DraftedPromise, Has
    <2>. QED  BY <2>4, <2>5 DEF e
<1>3. CASE v = 28
    <2>1. e = Migration28(d)
        BY <1>3 DEF MigrateDoc
    <2>2. /\ e["currentScriptureRange"] = IF DraftKnown(d) THEN d["currentScriptureRange"] ELSE {"range"}
          /\ e["draftedScriptureRange"] = IF DraftKnown(d) \/ Has(d, "draftedScriptureRange")
                                          THEN d["draftedScriptureRange"] ELSE {"range"}
          /\ e["hasDraft"] = d["hasDraft"]
        BY <1>1, <2>1, Effect28 DEF Has
    <2>3. ~(at >= 28)
        BY <1>1, <1>3
    <2> HIDE DEF e
    <2>4. DraftKnown(e)
        BY <2>2, ValueNames DEF DraftKnown, Has
    <2>5. CurrentPromise(at, e) = CurrentPromise(at, d) /\ DraftedPromise(at, e) = DraftedPromise(at, d)
        BY <2>2, <2>3, <2>4 DEF CurrentPromise, DraftedPromise
    <2>. QED  BY <2>4, <2>5 DEF DraftSound, e
<1>. QED  BY <1>2, <1>3

\* A migration that does not throw keeps a document sound and alike.
LEMMA MigrateKeeps ==
    ASSUME NEW at \in 0 .. Latest, NEW v \in 1 .. Latest, at < v, NEW d \in Docs,
           Sound(at, v - 1, d), ~Throws(v, d)
    PROVE  /\ MigrateDoc(v, d) \in Docs
           /\ Sound(at, v, MigrateDoc(v, d))
           /\ Alike(at, d, MigrateDoc(v, d))
<1> DEFINE e == MigrateDoc(v, d)
<1>1. /\ AddedSound(v - 1, d) /\ SettingsSound(at, v - 1, d) /\ RolesSound(at, v - 1, d)
      /\ SourcesSound(at, v - 1, d) /\ TrainingSound(v - 1, d) /\ TranslationSound(v - 1, d)
      /\ DraftSound(at, v - 1, d)
    BY DEF Sound
<1>2. e["source"] = d["source"]
    <2>1. "source" \in Fields /\ "source" \notin Touched(v)
        BY FieldNames, TouchedBy DEF NamedFields
    <2>. QED  BY <2>1, MigrateTouches
<1>3. /\ SettingsSound(at, v, e)
      /\ UserPermissionsPromise(at, e) = UserPermissionsPromise(at, d)
      /\ PreTranslatePromise(at, e) = PreTranslatePromise(at, d)
      /\ ResolvePromise(at, e) = ResolvePromise(at, d)
    BY <1>1, MigrateSettings
<1>4. Sound(at, v, e)
    BY <1>1, <1>3, MigrateAdded, MigrateRoles, MigrateSources, MigrateTraining, MigrateTranslation,
       MigrateDraft DEF Sound
<1>5. Alike(at, d, e)
    BY <1>1, <1>2, <1>3, MigrateAdded, MigrateRoles, MigrateSources, MigrateTraining,
       MigrateTranslation, MigrateDraft DEF Alike
<1>. QED  BY <1>4, <1>5, MigrateTouches

-----------------------------------------------------------------------------
(* A run that is not stopped                                                  *)

\* The lists of books that Migration22 dereferences: both there from Migration14, which makes them,
\* until Migration26 takes them away ...
ListsThere(n, d) ==
    14 <= n /\ n < 26 => Has(d, "lastSelectedTrainingBooks") /\ Has(d, "lastSelectedTranslationBooks")

\* ... and none before.
Booked(n, d) == ListsThere(n, d) /\ (n < 14 => ~Has(d, "lastSelectedTrainingBooks"))

\* A document that has its lists makes no migration throw, and keeps them.
LEMMA MigrateLists ==
    ASSUME NEW v \in 1 .. Latest, NEW d \in Docs, ListsThere(v - 1, d)
    PROVE  ListsThere(v, MigrateDoc(v, d)) /\ ~Throws(v, d)
<1> DEFINE e == MigrateDoc(v, d)
           Names == {"lastSelectedTrainingBooks", "lastSelectedTranslationBooks"}
<1>1. v \in Int /\ Names \subseteq Fields
    BY FieldNames DEF NamedFields
<1>2. ~Throws(v, d)
    BY DEF Throws, ListsThere
<1>3. CASE v \notin {14, 26}
    <2>1. e["lastSelectedTrainingBooks"] = d["lastSelectedTrainingBooks"]
          /\ e["lastSelectedTranslationBooks"] = d["lastSelectedTranslationBooks"]
        <3>1. \A f \in Names : f \notin Touched(v)
            BY <1>3, TouchedBy
        <3>. QED  BY <1>1, <3>1, MigrateTouches
    <2> HIDE DEF e
    <2>2. 14 <= v /\ v < 26 => 14 <= v - 1 /\ v - 1 < 26
        BY <1>1, <1>3
    <2>3. ListsThere(v, e)
        BY <2>1, <2>2 DEF ListsThere, Has
    <2>. QED  BY <1>2, <2>3 DEF e
<1>4. CASE v = 14
    <2>1. e = Migration14(d)
        BY <1>4 DEF MigrateDoc
    <2>2. Has(e, "lastSelectedTrainingBooks") /\ Has(e, "lastSelectedTranslationBooks")
        BY <1>1, <2>1, Effect14, ValueNames DEF Has
    <2> HIDE DEF e
    <2>. QED  BY <1>2, <1>4, <2>2 DEF ListsThere, e
<1>5. CASE v = 26
    BY <1>2, <1>5 DEF ListsThere
<1>. QED  BY <1>3, <1>4, <1>5

LEMMA MigrateBooked ==
    ASSUME NEW v \in 1 .. Latest, NEW d \in Docs, Booked(v - 1, d)
    PROVE  Booked(v, MigrateDoc(v, d)) /\ ~Throws(v, d)
<1>1. ListsThere(v, MigrateDoc(v, d)) /\ ~Throws(v, d)
    BY MigrateLists DEF Booked
<1>2. ASSUME v < 14
      PROVE  ~Has(MigrateDoc(v, d), "lastSelectedTrainingBooks")
    <2>1. v \in Int /\ "lastSelectedTrainingBooks" \in Fields
        BY FieldNames DEF NamedFields
    <2>2. "lastSelectedTrainingBooks" \notin Touched(v)
        BY <1>2, <2>1, TouchedBy
    <2>3. MigrateDoc(v, d)["lastSelectedTrainingBooks"] = d["lastSelectedTrainingBooks"]
        BY <2>1, <2>2, MigrateTouches
    <2>4. v - 1 < 14
        BY <1>2, <2>1
    <2>. QED  BY <2>3, <2>4 DEF Booked, Has
<1>. QED  BY <1>1, <1>2 DEF Booked

NextDoc(doc, d, from, v) == IF v = from THEN d ELSE MigrateDoc(v, doc[v - 1])

\* The function by which Straight is defined.
IsStraight(doc, d, from, to) == doc = [v \in from .. to |-> NextDoc(doc, d, from, v)]

\* There is a function of that kind.
LEMMA StraightExists ==
    ASSUME NEW from \in Nat, NEW to \in Nat, from <= to, NEW d
    PROVE  \E doc : IsStraight(doc, d, from, to)
<1> DEFINE Good(n) == \E doc : IsStraight(doc, d, from, n)
           T == {n \in from .. to : ~Good(n)}
<1>1. SUFFICES ASSUME T # {}
               PROVE  FALSE
    <2>1. to \in from .. to
        OBVIOUS
    <2> HIDE DEF Good
    <2>2. Good(to)
        BY <1>1, <2>1
    <2>. QED  BY <2>2 DEF Good
<1>2. PICK n \in T : \A m \in T : n <= m
    <2>1. T \in SUBSET Nat
        <3> HIDE DEF Good
        <3>. QED  OBVIOUS
    <2> HIDE DEF T
    <2>. QED  BY <1>1, <2>1, LeastVersion
<1>3. n \in from .. to /\ ~Good(n)
    OBVIOUS
<1>4. CASE n = from
    <2> DEFINE f == [v \in from .. from |-> d]
    <2>1. \A v \in from .. from : v = from
        OBVIOUS
    <2>2. \A v \in from .. from : NextDoc(f, d, from, v) = d
        BY <2>1, Zenon DEF NextDoc
    <2>3. f = [v \in from .. from |-> NextDoc(f, d, from, v)]
        BY <2>2
    <2>. QED  BY <1>3, <1>4, <2>3, Zenon DEF IsStraight
<1>5. CASE n # from
    <2>1. n - 1 \in from .. to /\ n - 1 < n /\ n \in Int
        BY <1>3, <1>5
    <2>2. Good(n - 1)
        <3>1. n - 1 \notin T
            <4> HIDE DEF T
            <4>. QED  BY <1>2, <2>1
        <3>. QED  BY <2>1, <3>1
    <2>3. PICK f : f = [v \in from .. (n - 1) |-> NextDoc(f, d, from, v)]
        BY <2>2 DEF IsStraight
    <2> DEFINE g == [v \in from .. n |-> IF v = n THEN MigrateDoc(n, f[n - 1]) ELSE f[v]]
    <2>4. \A v \in from .. n : g[v] = NextDoc(g, d, from, v)
        <3>1. TAKE v \in from .. n
        <3>2. g[n - 1] = f[n - 1] /\ g[n] = MigrateDoc(n, f[n - 1])
            BY <1>3, <1>5, <2>1
        <3>3. CASE v = n
            <4> HIDE DEF g
            <4>. QED  BY <1>5, <3>2, <3>3, Zenon DEF NextDoc
        <3>4. CASE v # n
            <4>1. v \in from .. (n - 1) /\ g[v] = f[v]
                BY <2>1, <3>4
            <4>2. f[v] = NextDoc(f, d, from, v)
                BY <2>3, <4>1, Zenon
            <4>3. v # from => g[v - 1] = f[v - 1]
                BY <2>1, <3>4
            <4> HIDE DEF g
            <4>. QED  BY <4>1, <4>2, <4>3, Zenon DEF NextDoc
        <3>. QED  BY <3>3, <3>4
    <2>5. g = [v \in from .. n |-> g[v]]
        OBVIOUS
    <2> HIDE DEF g
    <2>6. g = [v \in from .. n |-> NextDoc(g, d, from, v)]
        BY <2>4, <2>5
    <2>. QED  BY <1>3, <2>6, Zenon DEF IsStraight
<1>. QED  BY <1>4, <1>5

\* Straight brings a document to its version, sound, with its books, and alike.
LEMMA StraightKeeps ==
    ASSUME NEW at \in 0 .. Latest, NEW to \in at .. Latest, NEW d \in Docs,
           Sound(at, at, d), Booked(at, d)
    PROVE  /\ Straight(d, at, to) \in Docs
           /\ Sound(at, to, Straight(d, at, to))
           /\ Booked(to, Straight(d, at, to))
           /\ Alike(at, d, Straight(d, at, to))
<1> DEFINE f == CHOOSE doc : IsStraight(doc, d, at, to)
           Kept(n) == f[n] \in Docs /\ Sound(at, n, f[n]) /\ Booked(n, f[n]) /\ Alike(at, d, f[n])
           T == {n \in at .. to : ~Kept(n)}
<1>1. at \in Nat /\ to \in Nat /\ at <= to
    BY DEF Latest
<1>2. IsStraight(f, d, at, to)
    <2>1. \E doc : IsStraight(doc, d, at, to)
        BY <1>1, StraightExists
    <2>. QED  BY <2>1
<1>3. Straight(d, at, to) = f[to]
    BY Zenon DEF Straight, NextDoc, IsStraight
<1>4. \A n \in at .. to : f[n] = NextDoc(f, d, at, n)
    <2> HIDE DEF f
    <2>. QED  BY <1>2, Zenon DEF IsStraight
<1> HIDE DEF f
<1>5. SUFFICES ASSUME T # {}
               PROVE  FALSE
    <2>1. to \in at .. to
        BY <1>1
    <2> HIDE DEF Kept
    <2>2. Kept(to)
        BY <1>5, <2>1
    <2>. QED  BY <1>3, <2>2 DEF Kept
<1>6. PICK n \in T : \A m \in T : n <= m
    <2>1. T \in SUBSET Nat
        <3> HIDE DEF Kept
        <3>. QED  BY <1>1
    <2> HIDE DEF T
    <2>. QED  BY <1>5, <2>1, LeastVersion
<1>7. n \in at .. to /\ ~Kept(n)
    OBVIOUS
<1>8. CASE n = at
    <2>1. f[n] = d
        BY <1>4, <1>7, <1>8, Zenon DEF NextDoc
    <2>2. Alike(at, d, d)
        BY DEF Alike
    <2>. QED  BY <1>7, <1>8, <2>1, <2>2
<1>9. CASE n # at
    <2>1. n - 1 \in at .. to /\ n - 1 < n /\ n \in 1 .. Latest /\ at < n
        BY <1>1, <1>7, <1>9 DEF Latest
    <2>2. Kept(n - 1)
        <3>1. n - 1 \notin T
            <4> HIDE DEF T
            <4>. QED  BY <1>6, <2>1
        <3>. QED  BY <2>1, <3>1
    <2>3. f[n] = MigrateDoc(n, f[n - 1])
        BY <1>4, <1>7, <1>9, Zenon DEF NextDoc
    <2>4. Booked(n, f[n]) /\ ~Throws(n, f[n - 1])
        BY <2>1, <2>2, <2>3, MigrateBooked
    <2>5. f[n] \in Docs /\ Sound(at, n, f[n]) /\ Alike(at, f[n - 1], f[n])
        BY <2>1, <2>2, <2>3, <2>4, MigrateKeeps
    <2>6. Alike(at, d, f[n])
        BY <2>2, <2>5 DEF Alike
    <2>. QED  BY <1>7, <2>4, <2>5, <2>6
<1>. QED  BY <1>8, <1>9

-----------------------------------------------------------------------------
(* The documents from which the migrator may begin                            *)

\* The first document is sound for version 0, and has no lists of books.
LEMMA FirstSound == First \in Docs /\ Sound(0, 0, First) /\ Booked(0, First)
<1>1. First \in Docs
    <2>1. /\ False \in SUBSET Members /\ Null \in SUBSET Members /\ {"source"} \in SUBSET Members
          /\ {"old"} \in SUBSET Members
        BY ValueNames DEF Members
    <2>. QED  BY <2>1 DEF First, Docs
<1>2. \A f \in {"preTranslate", "translateShareEnabled", "trainingRange", "translationRange",
                "lastSelectedTrainingBooks"} : First[f] = Null
    BY FieldNames DEF First, NamedFields
<1>3. AddedSound(0, First)
    BY AddedFacts DEF AddedSound
<1>4. SettingsSound(0, 0, First) /\ RolesSound(0, 0, First) /\ SourcesSound(0, 0, First)
    BY <1>2, ValueNames DEF SettingsSound, RolesSound, SourcesSound
<1>5. TrainingSound(0, First) /\ TranslationSound(0, First) /\ Booked(0, First)
    BY <1>2 DEF TrainingSound, TranslationSound, Booked, ListsThere, Has
<1>6. DraftSound(0, 0, First)
    BY DEF DraftSound
<1>. QED  BY <1>1, <1>3, <1>4, <1>5, <1>6 DEF Sound

\* The setting of a field, and the group of the users who make it.
DraftingFields == {"preTranslate", "hasDraft", "lastSelectedBooks", "lastSelectedTrainingBooks",
                   "lastSelectedTranslationBooks", "trainingRange", "translationRange",
                   "usfmConfig", "qualityEstimationConfig"}
SharingFields == {"checkingShareEnabled", "translateShareEnabled"}
SetFields == DraftingFields \cup SharingFields \cup SourceFields \cup EnabledFields
GroupOf(f) ==
    IF f \in DraftingFields THEN "drafting" ELSE IF f \in SharingFields THEN "sharing" ELSE "sources"
Setting(f) ==
    CASE f = "preTranslate" -> <<"preTranslate", 10, 29, True>>
      [] f = "hasDraft" -> <<"hasDraft", 12, 29, True>>
      [] f = "lastSelectedBooks" -> <<"lastSelectedBooks", 13, 13, {"book"}>>
      [] f = "lastSelectedTrainingBooks" -> <<"lastSelectedTrainingBooks", 14, 25, {"book"}>>
      [] f = "lastSelectedTranslationBooks" -> <<"lastSelectedTranslationBooks", 14, 25, {"book"}>>
      [] f = "trainingRange" -> <<"trainingRange", 22, 25, {"range"}>>
      [] f = "translationRange" -> <<"translationRange", 22, 25, {"range"}>>
      [] f = "usfmConfig" -> <<"usfmConfig", 20, 22, {"old"}>>
      [] f = "qualityEstimationConfig" -> <<"qualityEstimationConfig", 26, 28, {"old"}>>
      [] f = "alternateSource" -> <<"alternateSource", 12, 26, {"alternate"}>>
      [] f = "alternateSourceEnabled" -> <<"alternateSourceEnabled", 18, 26, True>>
      [] f = "alternateTrainingSource" ->
             <<"alternateTrainingSource", 14, 26, {"alternateTraining"}>>
      [] f = "alternateTrainingSourceEnabled" -> <<"alternateTrainingSourceEnabled", 14, 26, True>>
      [] f = "additionalTrainingSource" -> <<"additionalTrainingSource", 20, 26, {"additional"}>>
      [] f = "additionalTrainingSourceEnabled" ->
             <<"additionalTrainingSourceEnabled", 20, 26, True>>
      [] f = "checkingShareEnabled" -> <<"checkingShareEnabled", 1, 20, True>>
      [] f = "translateShareEnabled" -> <<"translateShareEnabled", 5, 20, True>>

\* Every setting is one of its group, of a value.
LEMMA SettingNames ==
    ASSUME NEW f \in SetFields
    PROVE  /\ f \in Fields /\ Setting(f)[1] = f /\ GroupOf(f) \in DOMAIN Settings
           /\ Setting(f) \in Settings[GroupOf(f)]
           /\ Setting(f)[4] \in SUBSET Members /\ Setting(f)[4] # Null
<1>1. f \in Fields
    BY FieldNames DEF NamedFields, SetFields, DraftingFields, SharingFields, SourceFields, EnabledFields
<1>2. Setting(f)[1] = f
    BY DEF Setting, SetFields, DraftingFields, SharingFields, SourceFields, EnabledFields
<1>3. GroupOf(f) \in DOMAIN Settings
    BY DEF GroupOf, Settings
<1>4. Setting(f) \in Settings[GroupOf(f)]
    <2>1. CASE f \in DraftingFields
        BY <2>1 DEF Setting, Settings, GroupOf, DraftingFields
    <2>2. CASE f \in SharingFields
        BY <2>2 DEF Setting, Settings, GroupOf, DraftingFields, SharingFields
    <2>3. CASE f \in SourceFields \cup EnabledFields
        BY <2>3 DEF Setting, Settings, GroupOf, DraftingFields, SharingFields, SourceFields, EnabledFields
    <2>. QED  BY <2>1, <2>2, <2>3 DEF SetFields
<1>5. Setting(f)[4] \in {True, {"book"}, {"range"}, {"old"}, {"alternate"}, {"alternateTraining"},
                         {"additional"}}
    BY DEF Setting, SetFields, DraftingFields, SharingFields, SourceFields, EnabledFields
<1>6. \A s \in {True, {"book"}, {"range"}, {"old"}, {"alternate"}, {"alternateTraining"}, {"additional"}} :
          s \in SUBSET Members /\ s # Null
    BY DEF Members, True, Null
<1>. QED  BY <1>1, <1>2, <1>3, <1>4, <1>5, <1>6

\* Every setting of a group is that of its field.
LEMMA SettingIs ==
    ASSUME NEW g \in DOMAIN Settings, NEW s \in Settings[g]
    PROVE  s[1] \in SetFields /\ s = Setting(s[1]) /\ g = GroupOf(s[1])
<1>1. g \in {"drafting", "sources", "sharing"}
    BY DEF Settings
<1>2. CASE g = "drafting"
    BY <1>2 DEF Settings, Setting, GroupOf, SetFields, DraftingFields
<1>3. CASE g = "sources"
    BY <1>3 DEF Settings, Setting, GroupOf, SetFields, DraftingFields, SharingFields, SourceFields,
                EnabledFields
<1>4. CASE g = "sharing"
    BY <1>4 DEF Settings, Setting, GroupOf, SetFields, DraftingFields, SharingFields
<1>. QED  BY <1>1, <1>2, <1>3, <1>4

\* The users of these groups have set the field at version v.
IsSet(v, groups, f) ==
    f \in SetFields /\ GroupOf(f) \in groups /\ Setting(f)[2] <= v /\ v <= Setting(f)[3]

\* A document at a version, field by field.
LEMMA DocsAtFields ==
    ASSUME NEW v, NEW d \in DocsAt(v)
    PROVE  \E groups \in SUBSET DOMAIN Settings :
               d = [f \in Fields |-> IF IsSet(v, groups, f) THEN Setting(f)[4]
                                     ELSE Straight(First, 0, v)[f]]
<1> DEFINE came == Straight(First, 0, v)
           set(groups) == {s \in UNION {Settings[g] : g \in groups} : s[2] <= v /\ v <= s[3]}
<1>1. PICK groups \in SUBSET DOMAIN Settings :
          d = [f \in Fields |-> IF \E s \in set(groups) : s[1] = f
                                THEN (CHOOSE s \in set(groups) : s[1] = f)[4] ELSE came[f]]
    BY Zenon DEF DocsAt
<1> HIDE DEF came
<1>2. \A f : IsSet(v, groups, f) => Setting(f) \in set(groups) /\ Setting(f)[1] = f
    BY SettingNames DEF IsSet
<1>3. \A s \in set(groups) : s = Setting(s[1]) /\ IsSet(v, groups, s[1])
    <2>1. TAKE s \in set(groups)
    <2>2. PICK g \in groups : s \in Settings[g]
        OBVIOUS
    <2>3. g \in DOMAIN Settings /\ s[2] <= v /\ v <= s[3]
        OBVIOUS
    <2> HIDE DEF set
    <2>4. s[1] \in SetFields /\ s = Setting(s[1]) /\ g = GroupOf(s[1])
        BY <2>2, <2>3, SettingIs
    <2>5. Setting(s[1])[2] <= v /\ v <= Setting(s[1])[3]
        <3>1. \A t : t = s => t[2] <= v /\ v <= t[3]
            BY <2>3
        <3>. QED  BY <2>4, <3>1
    <2>. QED  BY <2>2, <2>4, <2>5 DEF IsSet
<1> HIDE DEF set
<1>4. \A f \in Fields : d[f] = IF IsSet(v, groups, f) THEN Setting(f)[4] ELSE came[f]
    <2>1. TAKE f \in Fields
    <2>2. d[f] = IF \E s \in set(groups) : s[1] = f
                 THEN (CHOOSE s \in set(groups) : s[1] = f)[4] ELSE came[f]
        BY <1>1
    <2>3. CASE IsSet(v, groups, f)
        <3> DEFINE t == CHOOSE s \in set(groups) : s[1] = f
        <3>1. \E s \in set(groups) : s[1] = f
            BY <1>2, <2>3
        <3>2. t \in set(groups) /\ t[1] = f
            BY <3>1, Zenon
        <3>3. d[f] = t[4]
            BY <2>2, <3>1
        <3> HIDE DEF t
        <3>4. t = Setting(f)
            BY <1>3, <3>2
        <3>. QED  BY <2>3, <3>3, <3>4
    <2>4. CASE ~IsSet(v, groups, f)
        <3>1. ~ \E s \in set(groups) : s[1] = f
            BY <1>3, <2>4
        <3>. QED  BY <2>2, <2>4, <3>1
    <2>. QED  BY <2>3, <2>4
<1>5. d = [f \in Fields |-> d[f]]
    BY <1>1
<1>. QED  BY <1>4, <1>5 DEF came

\* Every document the migrator may find is sound, and has its books.
LEMMA DocsAtSound ==
    ASSUME NEW v \in 0 .. Latest, NEW d \in DocsAt(v)
    PROVE  d \in Docs /\ Sound(v, v, d) /\ Booked(v, d)
<1> DEFINE came == Straight(First, 0, v)
           Names == {"userPermissions", "preTranslate", "creatorResolve", "rolePermissions",
                     "translateShareEnabled", "trainingRange", "translationRange",
                     "lastSelectedBooks", "lastSelectedTrainingBooks",
                     "lastSelectedTranslationBooks"} \cup
                    AddedFields \cup SourceLists \cup SourceFields \cup EnabledFields
<1>1. came \in Docs /\ Sound(0, v, came) /\ Booked(v, came)
    <2>1. 0 \in 0 .. Latest
        BY DEF Latest
    <2>. QED  BY <2>1, FirstSound, StraightKeeps
<1>2. v \in Int /\ 0 <= v /\ v <= 29
    BY DEF Latest
<1> HIDE DEF came
<1>3. PICK groups \in SUBSET DOMAIN Settings :
          d = [f \in Fields |-> IF IsSet(v, groups, f) THEN Setting(f)[4] ELSE came[f]]
    BY DocsAtFields DEF came
<1>4. \A f \in Fields : d[f] = IF IsSet(v, groups, f) THEN Setting(f)[4] ELSE came[f]
    BY <1>3
<1>5. d \in Docs
    <2>1. \A f \in Fields : IsSet(v, groups, f) => Setting(f)[4] \in SUBSET Members
        BY SettingNames DEF IsSet
    <2>2. \A f \in Fields : came[f] \in SUBSET Members
        BY <1>1 DEF Docs
    <2>. QED  BY <1>3, <2>1, <2>2 DEF Docs
<1>6. \A f \in Fields : Has(came, f) => Has(d, f)
    BY <1>4, SettingNames DEF Has, IsSet
<1>7. Names \subseteq Fields
    BY AddedFacts, FieldNames DEF NamedFields, SourceLists, SourceFields, EnabledFields
<1>8. \A f \in Fields \ SetFields : d[f] = came[f]
    BY <1>4 DEF IsSet
<1> DEFINE drafts == "drafting" \in groups
<1>9. /\ IsSet(v, groups, "preTranslate") => 10 <= v
      /\ IsSet(v, groups, "translateShareEnabled") => 5 <= v
      /\ IsSet(v, groups, "lastSelectedBooks") => v = 13
      /\ IsSet(v, groups, "lastSelectedTrainingBooks") <=> drafts /\ 14 <= v /\ v <= 25
      /\ IsSet(v, groups, "lastSelectedTranslationBooks") <=> drafts /\ 14 <= v /\ v <= 25
      /\ IsSet(v, groups, "trainingRange") <=> drafts /\ 22 <= v /\ v <= 25
      /\ IsSet(v, groups, "translationRange") <=> drafts /\ 22 <= v /\ v <= 25
    BY <1>2 DEF IsSet, Setting, SetFields, DraftingFields, SharingFields, GroupOf
<1>10. \A f \in SourceFields \cup EnabledFields : IsSet(v, groups, f) => v <= 26
    BY <1>2 DEF IsSet, Setting, SourceFields, EnabledFields
<1>11. /\ Setting("trainingRange")[4] = {"range"} /\ Setting("translationRange")[4] = {"range"}
    BY DEF Setting
<1>12. \A f \in {"userPermissions", "creatorResolve", "rolePermissions"} \cup SourceLists : f \notin SetFields
    BY DEF SetFields, DraftingFields, SharingFields, SourceFields, EnabledFields, SourceLists
<1>13. /\ AddedSound(v, came) /\ SettingsSound(0, v, came) /\ RolesSound(0, v, came)
       /\ SourcesSound(0, v, came) /\ TrainingSound(v, came) /\ TranslationSound(v, came)
    BY <1>1 DEF Sound
<1>14. AddedSound(v, d)
    BY <1>6, <1>7, <1>13 DEF AddedSound
<1>15. SettingsSound(v, v, d)
    <2>1. 4 <= v => Has(d, "userPermissions")
        BY <1>6, <1>7, <1>13 DEF SettingsSound
    <2>2. v < 10 => d["preTranslate"] # True
        BY <1>2, <1>4, <1>7, <1>9, <1>13 DEF SettingsSound
    <2>3. 10 <= v => Has(d, "preTranslate")
        BY <1>6, <1>7, <1>13 DEF SettingsSound
    <2>. QED  BY <1>2, <2>1, <2>2, <2>3 DEF SettingsSound
<1>16. RolesSound(v, v, d)
    <2>1. v < 5 => d["translateShareEnabled"] # True
        BY <1>2, <1>4, <1>7, <1>9, <1>13 DEF RolesSound
    <2>2. 21 <= v => Has(d, "rolePermissions")
        BY <1>6, <1>7, <1>13 DEF RolesSound
    <2>. QED  BY <2>1, <2>2 DEF RolesSound
<1>17. SourcesSound(v, v, d)
    <2>1. 27 <= v => \A f \in SourceLists : Has(d, f)
        BY <1>6, <1>7, <1>13 DEF SourcesSound
    <2>2. 27 <= v => \A f \in SourceFields \cup EnabledFields : ~Has(d, f)
        <3>1. SUFFICES ASSUME 27 <= v, NEW f \in SourceFields \cup EnabledFields
                       PROVE  ~Has(d, f)
            OBVIOUS
        <3>2. ~IsSet(v, groups, f) /\ ~Has(came, f) /\ f \in Fields
            BY <1>2, <1>7, <1>10, <1>13, <3>1 DEF SourcesSound
        <3>. QED  BY <1>4, <3>2 DEF Has
    <2>. QED  BY <1>2, <2>1, <2>2 DEF SourcesSound
<1>18. Booked(v, d)
    <2>1. v < 14 => ~Has(d, "lastSelectedTrainingBooks")
        BY <1>1, <1>2, <1>4, <1>7, <1>9 DEF Booked, Has
    <2>2. 14 <= v /\ v < 26 => Has(d, "lastSelectedTrainingBooks") /\ Has(d, "lastSelectedTranslationBooks")
        BY <1>1, <1>6, <1>7 DEF Booked, ListsThere
    <2>. QED  BY <2>1, <2>2 DEF Booked, ListsThere
<1>19. TrainingSound(v, d)
    <2>1. d["trainingRange"] \in {Null, {"range"}}
        BY <1>4, <1>7, <1>11, <1>13 DEF TrainingSound
    <2>2. Has(d, "lastSelectedTrainingBooks") \/ 14 <= v => NoBooks(d, "lastSelectedBooks")
        <3>1. Has(d, "lastSelectedTrainingBooks") => 14 <= v
            BY <1>2, <1>18 DEF Booked
        <3>2. 14 <= v => d["lastSelectedBooks"] = came["lastSelectedBooks"]
            BY <1>2, <1>4, <1>7, <1>9
        <3>. QED  BY <1>13, <3>1, <3>2 DEF TrainingSound, NoBooks
    <2>3. 22 <= v => Has(d, "trainingRange") \/ NoBooks(d, "lastSelectedTrainingBooks")
        <3>1. CASE drafts /\ 22 <= v /\ v <= 25
            BY <1>4, <1>7, <1>9, <1>11, <3>1, ValueNames DEF Has
        <3>2. CASE ~(drafts /\ 22 <= v /\ v <= 25)
            <4>1. 22 <= v => /\ d["trainingRange"] = came["trainingRange"]
                             /\ d["lastSelectedTrainingBooks"] = came["lastSelectedTrainingBooks"]
                BY <1>2, <1>4, <1>7, <1>9, <3>2
            <4>. QED  BY <1>13, <4>1 DEF TrainingSound, Has, NoBooks
        <3>. QED  BY <3>1, <3>2
    <2>4. 26 <= v => ~Has(d, "trainingRange") /\ ~Has(d, "lastSelectedTrainingBooks")
        BY <1>2, <1>4, <1>7, <1>9, <1>13 DEF TrainingSound, Has
    <2>. QED  BY <2>1, <2>2, <2>3, <2>4 DEF TrainingSound
<1>20. TranslationSound(v, d)
    <2>1. d["translationRange"] \in {Null, {"range"}}
        BY <1>4, <1>7, <1>11, <1>13 DEF TranslationSound
    <2>2. 22 <= v => Has(d, "translationRange") \/ NoBooks(d, "lastSelectedTranslationBooks")
        <3>1. CASE drafts /\ 22 <= v /\ v <= 25
            BY <1>4, <1>7, <1>9, <1>11, <3>1, ValueNames DEF Has
        <3>2. CASE ~(drafts /\ 22 <= v /\ v <= 25)
            <4>1. 22 <= v => /\ d["translationRange"] = came["translationRange"]
                             /\ d["lastSelectedTranslationBooks"] = came["lastSelectedTranslationBooks"]
                BY <1>2, <1>4, <1>7, <1>9, <3>2
            <4>. QED  BY <1>13, <4>1 DEF TranslationSound, Has, NoBooks
        <3>. QED  BY <3>1, <3>2
    <2>3. 26 <= v => ~Has(d, "translationRange") /\ ~Has(d, "lastSelectedTranslationBooks")
        BY <1>2, <1>4, <1>7, <1>9, <1>13 DEF TranslationSound, Has
    <2>. QED  BY <2>1, <2>2, <2>3 DEF TranslationSound
<1>21. DraftSound(v, v, d)
    BY <1>2 DEF DraftSound
<1>. QED  BY <1>5, <1>14, <1>15, <1>16, <1>17, <1>18, <1>19, <1>20, <1>21 DEF Sound

-----------------------------------------------------------------------------
(* Beginning again, and the end                                               *)

\* What a document has had of the migrations, it may have again: what is sound for a version
\* is sound for the one from which the run began.
LEMMA SoundAgain ==
    ASSUME NEW at \in 0 .. Latest, NEW n \in at .. Latest, NEW d, Sound(at, n, d)
    PROVE  Sound(at, at, d)
<1>1. at \in Int /\ n \in Int /\ at <= n
    OBVIOUS
<1>2. AddedSound(at, d)
    <2>1. \A f \in AddedFields : AddedBy(f) <= at => AddedBy(f) <= n
        BY <1>1, AddedFacts
    <2>. QED  BY <2>1 DEF Sound, AddedSound
<1>3. SettingsSound(at, at, d) /\ RolesSound(at, at, d) /\ DraftSound(at, at, d)
    BY <1>1 DEF Sound, SettingsSound, RolesSound, DraftSound
<1>4. SourcesSound(at, at, d)
    BY <1>1 DEF Sound, SourcesSound
<1>5. TrainingSound(at, d) /\ TranslationSound(at, d)
    BY <1>1 DEF Sound, TrainingSound, TranslationSound
<1>. QED  BY <1>2, <1>3, <1>4, <1>5 DEF Sound

\* The promises of a document at the last version are what it has.
LEMMA Ended ==
    ASSUME NEW at \in 0 .. Latest, NEW d, Sound(at, Latest, d)
    PROVE  /\ \A f \in AddedFields : AddedPromise(at, d, f) = d[f]
           /\ UserPermissionsPromise(at, d) = d["userPermissions"]
           /\ PreTranslatePromise(at, d) = d["preTranslate"]
           /\ ResolvePromise(at, d) = d["creatorResolve"]
           /\ RolePromise(at, d) = d["rolePermissions"]
           /\ DraftingPromise(at, d) = d["draftingSources"]
           /\ TrainingPromise(at, d) = d["trainingSources"]
           /\ TrainingRangesPromise(at, d) = d["trainingRanges"]
           /\ TranslationRangesPromise(at, d) = d["translationRanges"]
           /\ CurrentPromise(at, d) = d["currentScriptureRange"]
           /\ DraftedPromise(at, d) = d["draftedScriptureRange"]
<1>1. at \in Int /\ at <= 29 /\ Latest = 29
    BY DEF Latest
<1>2. /\ AddedSound(29, d) /\ SettingsSound(at, 29, d) /\ RolesSound(at, 29, d)
      /\ SourcesSound(at, 29, d) /\ TrainingSound(29, d) /\ TranslationSound(29, d)
      /\ DraftSound(at, 29, d)
    BY <1>1 DEF Sound
<1>3. \A f \in AddedFields : AddedPromise(at, d, f) = d[f]
    <2>1. \A f \in AddedFields : AddedBy(f) <= 29
        BY <1>1, AddedFacts
    <2>. QED  BY <1>2, <2>1 DEF AddedPromise, AddedSound
<1>4. /\ UserPermissionsPromise(at, d) = d["userPermissions"]
      /\ PreTranslatePromise(at, d) = d["preTranslate"]
      /\ ResolvePromise(at, d) = d["creatorResolve"]
    BY <1>1, <1>2 DEF SettingsSound, UserPermissionsPromise, PreTranslatePromise, ResolvePromise, Has
<1>5. RolePromise(at, d) = d["rolePermissions"]
    BY <1>2 DEF RolesSound, RolePromise
<1>6. DraftingPromise(at, d) = d["draftingSources"] /\ TrainingPromise(at, d) = d["trainingSources"]
    BY <1>2 DEF SourcesSound, SourceLists, DraftingPromise, TrainingPromise
<1>7. TrainingRangesPromise(at, d) = d["trainingRanges"]
    <2>1. ~TrainingChosen(d)
        BY <1>2 DEF TrainingSound, TrainingChosen, Has, NoBooks
    <2>. QED  BY <2>1, Zenon DEF TrainingRangesPromise, RangesPromise
<1>8. TranslationRangesPromise(at, d) = d["translationRanges"]
    <2>1. ~TranslationChosen(d)
        BY <1>2 DEF TranslationSound, TranslationChosen, Has, NoBooks
    <2>. QED  BY <2>1, Zenon DEF TranslationRangesPromise, RangesPromise
<1>9. /\ CurrentPromise(at, d) = d["currentScriptureRange"]
      /\ DraftedPromise(at, d) = d["draftedScriptureRange"]
    BY <1>1, <1>2 DEF DraftSound, CurrentPromise, DraftedPromise
<1>. QED  BY <1>3, <1>4, <1>5, <1>6, <1>7, <1>8, <1>9

\* Two documents that come to the same have come to it at the last version.
LEMMA EndedSame ==
    ASSUME NEW at \in 0 .. Latest, NEW d, NEW e, Sound(at, Latest, d), Sound(at, Latest, e),
           Alike(at, d, e)
    PROVE  \A f \in CurrentFields : d[f] = e[f]
<1>1. \A f \in AddedFields : d[f] = e[f]
    <2>1. \A f \in AddedFields : AddedPromise(at, d, f) = d[f] /\ AddedPromise(at, e, f) = e[f]
        BY Ended
    <2>2. \A f \in AddedFields : AddedPromise(at, d, f) = AddedPromise(at, e, f)
        BY DEF Alike
    <2>. QED  BY <2>1, <2>2
<1>2. /\ d["userPermissions"] = e["userPermissions"] /\ d["preTranslate"] = e["preTranslate"]
      /\ d["creatorResolve"] = e["creatorResolve"] /\ d["rolePermissions"] = e["rolePermissions"]
      /\ d["draftingSources"] = e["draftingSources"] /\ d["trainingSources"] = e["trainingSources"]
      /\ d["trainingRanges"] = e["trainingRanges"] /\ d["translationRanges"] = e["translationRanges"]
      /\ d["currentScriptureRange"] = e["currentScriptureRange"]
      /\ d["draftedScriptureRange"] = e["draftedScriptureRange"] /\ d["source"] = e["source"]
    BY Ended DEF Alike
<1>3. CurrentFields = AddedFields \cup
          {"userPermissions", "preTranslate", "creatorResolve", "rolePermissions",
           "draftingSources", "trainingSources", "trainingRanges", "translationRanges",
           "currentScriptureRange", "draftedScriptureRange", "source"}
    BY DEF CurrentFields, RequiredFields, AddedFields, TextFields, TermsFields, LynxFields,
           SourceLists, RangesFields
<1>. QED  BY <1>1, <1>2, <1>3

\* A document at the last version has what the current code requires, and nothing of what was
\* turned into something else.
LEMMA EndedComplete ==
    ASSUME NEW at \in 0 .. Latest, NEW d, Sound(at, Latest, d)
    PROVE  /\ \A f \in RequiredFields : Has(d, f)
           /\ \A f \in BookFields \cup RangeFields \cup SourceFields \cup EnabledFields : ~Has(d, f)
<1>1. Latest = 29
    BY DEF Latest
<1>2. /\ AddedSound(29, d) /\ SettingsSound(at, 29, d) /\ RolesSound(at, 29, d)
      /\ SourcesSound(at, 29, d) /\ TrainingSound(29, d) /\ TranslationSound(29, d)
    BY <1>1 DEF Sound
<1>3. \A f \in AddedFields : Has(d, f)
    BY <1>1, <1>2, AddedFacts DEF AddedSound
<1>4. /\ Has(d, "userPermissions") /\ Has(d, "preTranslate") /\ Has(d, "rolePermissions")
      /\ \A f \in SourceLists : Has(d, f)
    BY <1>2 DEF SettingsSound, RolesSound, SourcesSound
<1>5. RequiredFields = AddedFields \cup SourceLists \cup
          {"userPermissions", "preTranslate", "rolePermissions"}
    BY DEF RequiredFields, AddedFields, TextFields, TermsFields, LynxFields
<1>6. \A f \in SourceFields \cup EnabledFields : ~Has(d, f)
    BY <1>2 DEF SourcesSound
<1>7. \A f \in BookFields \cup RangeFields : ~Has(d, f)
    BY <1>2 DEF TrainingSound, TranslationSound, BookFields, RangeFields
<1>. QED  BY <1>3, <1>4, <1>5, <1>6, <1>7

-----------------------------------------------------------------------------
(* The invariant is inductive                                                 *)

\* Every document is in one batch.
LEMMA BatchFacts ==
    /\ Latest \in Nat /\ 0 < Latest
    /\ DOMAIN Batches = 1 .. Len(Batches) /\ Len(Batches) \in Nat /\ 1 <= Len(Batches)
    /\ \A b \in 1 .. Len(Batches) : Batches[b] \in SUBSET Projects
    /\ \A d \in Projects : \E b \in 1 .. Len(Batches) : d \in Batches[b]
    /\ \A b, c \in 1 .. Len(Batches), d \in Projects : d \in Batches[b] /\ d \in Batches[c] => b = c
<1>1. Latest \in Nat /\ 0 < Latest
    BY DEF Latest
<1>2. Batches \in Seq(SUBSET Projects) /\ Len(Batches) > 0
    BY MigrationsAssumption
<1>3. DOMAIN Batches = 1 .. Len(Batches) /\ Len(Batches) \in Nat /\ 1 <= Len(Batches)
    BY <1>2
<1>4. \A b \in 1 .. Len(Batches) : Batches[b] \in SUBSET Projects
    BY <1>2
<1>5. \A d \in Projects : \E b \in 1 .. Len(Batches) : d \in Batches[b]
    BY <1>3 DEF Projects
<1>6. \A b, c \in 1 .. Len(Batches), d \in Projects : d \in Batches[b] /\ d \in Batches[c] => b = c
    <2>1. \A b, c \in DOMAIN Batches : b # c => Batches[b] \cap Batches[c] = {}
        BY MigrationsAssumption
    <2>. QED  BY <1>3, <2>1
<1>. QED  BY <1>1, <1>3, <1>4, <1>5, <1>6

\* What the types say of the migrator and of the versions.
LEMMA MigratorFacts ==
    ASSUME MigrationsTypeOK, Sweep
    PROVE  /\ migrating.batch \in 0 .. Len(Batches) /\ migrating.version \in 0 .. Latest
           /\ migrating.left \in SUBSET Projects
           /\ migrating = [batch |-> migrating.batch, version |-> migrating.version,
                           left |-> migrating.left]
           /\ original.at \in 0 .. Latest /\ recorded \in 0 .. Latest
           /\ migrating.batch # 0 => recorded = original.at /\ recorded # Latest
<1>1. /\ migrating.batch \in 0 .. Len(Batches) /\ migrating.version \in 0 .. Latest
      /\ migrating.left \in SUBSET Projects
      /\ migrating = [batch |-> migrating.batch, version |-> migrating.version,
                      left |-> migrating.left]
    BY DEF MigrationsTypeOK
<1>2. original.at \in 0 .. Latest /\ recorded \in 0 .. Latest
    BY MigrationsAssumption DEF MigrationsTypeOK
<1>3. migrating.batch # 0 => recorded = original.at /\ recorded # Latest
    BY DEF Sweep, NotRunning
<1>. QED  BY <1>1, <1>2, <1>3

\* A document is brought to no version before that from which the run began.
LEMMA PlaceBounds ==
    ASSUME MigrationsTypeOK, Sweep, NEW d \in Projects
    PROVE  Place(d) \in original.at .. Latest
<1>1. CASE migrating.batch # 0
    BY <1>1, BatchFacts, MigratorFacts DEF Place, Sweep
<1>2. CASE migrating.batch = 0
    <2>1. ~ \E b \in 1 .. (migrating.batch - 1) : d \in Batches[b]
        BY <1>2
    <2>. QED  BY <1>2, <2>1, BatchFacts, MigratorFacts DEF Place, Sweep
<1>. QED  BY <1>1, <1>2

\* No migrator runs: every document is where the version recorded says.
LEMMA PlaceIdle ==
    ASSUME migrating = NotRunning, NEW d
    PROVE  Place(d) = recorded
<1>1. migrating.batch = 0
    BY DEF NotRunning
<1>2. ~ \E b \in 1 .. (migrating.batch - 1) : d \in Batches[b]
    BY <1>1
<1>. QED  BY <1>1, <1>2 DEF Place

\* A document not migrated yet is a version behind the migrator.
LEMMA LeftPlace ==
    ASSUME MigrationsTypeOK, Sweep, NEW d \in migrating.left
    PROVE  Place(d) = migrating.version - 1
<1>1. migrating.batch # 0
    BY DEF Sweep, NotRunning
<1>2. /\ d \in Projects /\ d \in Batches[migrating.batch] /\ recorded # Latest
      /\ migrating.batch \in 1 .. Len(Batches)
    BY <1>1, MigratorFacts, BatchFacts DEF Sweep
<1>3. ~ \E b \in 1 .. (migrating.batch - 1) : d \in Batches[b]
    BY <1>2, BatchFacts
<1>. QED  BY <1>1, <1>2, <1>3 DEF Place

\* The places of the documents change only when they are migrated, or a migrator stops.
LEMMA StartPlaces ==
    ASSUME MigrationsTypeOK, StartMigrator
    PROVE  \A d \in Projects : Place(d)' = Place(d)
<1>1. /\ migrating = NotRunning /\ recorded' = recorded
      /\ migrating' = [batch |-> 1, version |-> recorded, left |-> {}]
    BY DEF StartMigrator
<1>2. \A d \in Projects : Place(d)' = recorded
    <2>1. ~ \E b \in 1 .. (1 - 1) : TRUE
        OBVIOUS
    <2>2. migrating'.batch = 1 /\ migrating'.version = recorded /\ migrating'.left = {}
        BY <1>1
    <2>. QED  BY <1>1, <2>1, <2>2 DEF Place
<1>3. \A d \in Projects : Place(d) = recorded
    BY <1>1, PlaceIdle
<1>. QED  BY <1>2, <1>3

LEMMA NextPlaces ==
    ASSUME MigrationsTypeOK, Sweep, NextVersion
    PROVE  \A d \in Projects : Place(d)' = Place(d)
<1>1. /\ migrating.batch # 0 /\ migrating.left = {} /\ recorded' = recorded
    BY DEF NextVersion
<1>2. /\ recorded # Latest /\ migrating.batch \in 1 .. Len(Batches)
    BY <1>1, BatchFacts, MigratorFacts
<1>3. ASSUME NEW d \in Projects, migrating.version < Latest
      PROVE  Place(d)' = Place(d)
    <2>1. /\ migrating'.batch = migrating.batch /\ migrating'.version = migrating.version + 1
          /\ migrating'.left = Batches[migrating.batch]
        BY <1>3, MigratorFacts DEF NextVersion
    <2>2. (migrating.version + 1) - 1 = migrating.version
        BY MigratorFacts
    <2>3. d \notin migrating.left
        BY <1>1
    <2>. QED  BY <1>1, <2>1, <2>2, <2>3, Zenon DEF Place
<1>4. ASSUME NEW d \in Projects, ~(migrating.version < Latest)
      PROVE  Place(d)' = Place(d)
    <2>1. migrating' = [batch |-> migrating.batch + 1, version |-> recorded, left |-> {}]
        BY <1>4 DEF NextVersion
    <2>2. migrating.version = Latest
        BY <1>4, BatchFacts, MigratorFacts
    <2>3. /\ migrating'.batch = migrating.batch + 1 /\ migrating'.version = recorded
          /\ migrating'.left = {}
        BY <2>1
    <2>4. (migrating.batch + 1) - 1 = migrating.batch /\ migrating.batch + 1 # 0
        BY <1>2, BatchFacts
    <2>5. (\E b \in 1 .. migrating.batch : d \in Batches[b]) <=>
          (\E b \in 1 .. (migrating.batch - 1) : d \in Batches[b]) \/ d \in Batches[migrating.batch]
        BY <1>2, BatchFacts
    <2>. QED  BY <1>1, <1>2, <2>2, <2>3, <2>4, <2>5, Zenon DEF Place
<1>. QED  BY <1>3, <1>4

LEMMA RecordPlaces ==
    ASSUME MigrationsTypeOK, Sweep, RecordVersion
    PROVE  \A d \in Projects : Place(d)' = Place(d)
<1>1. /\ migrating.batch = Len(Batches) /\ migrating.version = Latest /\ migrating.left = {}
      /\ recorded' = Latest
    BY DEF RecordVersion
<1>2. ASSUME NEW d \in Projects
      PROVE  Place(d)' = Place(d)
    <2>1. Place(d)' = Latest
        BY <1>1 DEF Place
    <2>2. PICK b \in 1 .. Len(Batches) : d \in Batches[b]
        BY BatchFacts
    <2>3. b = Len(Batches) \/ b \in 1 .. (Len(Batches) - 1)
        <3>1. Len(Batches) \in Nat
            BY BatchFacts
        <3>. QED  BY <2>2, <3>1, SMT
    <2>4. migrating.batch # 0
        BY <1>1, BatchFacts
    <2>. QED  BY <1>1, <2>1, <2>2, <2>3, <2>4 DEF Place
<1>. QED  BY <1>2

LEMMA MigratePlaces ==
    ASSUME MigrationsInv, NEW d \in Projects, Migrate(d)
    PROVE  /\ Place(d) = migrating.version - 1 /\ Place(d)' = migrating.version
           /\ migrating.version \in 1 .. Latest /\ project[d] \in Docs
           /\ project'[d] = MigrateDoc(migrating.version, project[d])
           /\ \A c \in Projects \ {d} : Place(c)' = Place(c) /\ project'[c] = project[c]
<1>1. MigrationsTypeOK /\ Sweep
    BY DEF MigrationsInv
<1>2. /\ d \in migrating.left /\ recorded' = recorded
      /\ project' = [project EXCEPT ![d] = MigrateDoc(migrating.version, @)]
      /\ migrating' = [migrating EXCEPT !.left = @ \ {d}]
    BY DEF Migrate
<1>3. migrating.batch # 0
    BY <1>1, <1>2 DEF Sweep, NotRunning
<1>4. /\ recorded # Latest /\ recorded < migrating.version /\ d \in Batches[migrating.batch]
      /\ migrating.batch \in 1 .. Len(Batches) /\ migrating.version \in 1 .. Latest
    BY <1>1, <1>2, <1>3, BatchFacts, MigratorFacts DEF Sweep
<1>5. project \in [Projects -> Docs]
    BY <1>1 DEF MigrationsTypeOK
<1>6. ~ \E b \in 1 .. (migrating.batch - 1) : d \in Batches[b]
    BY <1>4, BatchFacts
<1>7. /\ migrating'.batch = migrating.batch /\ migrating'.version = migrating.version
      /\ migrating'.left = migrating.left \ {d}
    BY <1>1, <1>2, MigratorFacts
<1>8. Place(d)' = migrating.version /\ \A c \in Projects \ {d} : Place(c)' = Place(c)
    BY <1>2, <1>3, <1>4, <1>6, <1>7 DEF Place
<1>9. /\ project'[d] = MigrateDoc(migrating.version, project[d])
      /\ \A c \in Projects \ {d} : project'[c] = project[c]
    BY <1>2, <1>5
<1>. QED  BY <1>1, <1>2, <1>4, <1>5, <1>8, <1>9, LeftPlace

\* Nothing is disturbed by a step that changes no document and moves none.
LEMMA SamePlaces ==
    ASSUME MigrationsInv, UNCHANGED <<project, original>>,
           \A d \in Projects : Place(d)' = Place(d)
    PROVE  \A d \in Projects : Brought(d)'
BY Zenon DEF MigrationsInv, Brought

\* The invariant holds at the start, and every action keeps it.
LEMMA MigrationsBegin ==
    ASSUME MigrationsInit
    PROVE  MigrationsInv
<1>1. recorded \in Starts /\ recorded \in 0 .. Latest /\ Latest \in Nat
    BY MigrationsAssumption DEF MigrationsInit, Latest
<1>2. /\ migrating = NotRunning /\ crashes = 0 /\ original.at = recorded /\ original.docs = project
      /\ project \in [Projects -> DocsAt(recorded)]
    BY DEF MigrationsInit
<1>3. \A d \in Projects : project[d] \in DocsAt(recorded)
    BY <1>2
<1>4. \A d \in Projects : project[d] \in Docs /\ Sound(recorded, recorded, project[d])
    BY <1>1, <1>3, DocsAtSound
<1>5. project \in [Projects -> Docs]
    BY <1>2, <1>4
<1>6. MigrationsTypeOK
    <2>1. crashes \in 0 .. MaxCrashes
        BY <1>2, MigrationsAssumption
    <2>2. migrating \in [batch: 0 .. Len(Batches), version: 0 .. Latest, left: SUBSET Projects]
        BY <1>1, <1>2, BatchFacts DEF NotRunning
    <2>. QED  BY <1>1, <1>2, <1>5, <2>1, <2>2 DEF MigrationsTypeOK
<1>7. Sweep
    BY <1>2 DEF Sweep, NotRunning
<1>8. \A d \in Projects : Brought(d)
    <2>1. \A d \in Projects : Place(d) = recorded
        BY <1>2, PlaceIdle
    <2>2. \A doc : Alike(recorded, doc, doc)
        BY DEF Alike
    <2>. QED  BY <1>2, <1>3, <1>4, <2>1, <2>2 DEF Brought
<1>. QED  BY <1>6, <1>7, <1>8 DEF MigrationsInv

LEMMA StartKeeps ==
    ASSUME MigrationsInv, StartMigrator
    PROVE  MigrationsInv'
<1>1. MigrationsTypeOK /\ Sweep
    BY DEF MigrationsInv
<1>2. /\ migrating = NotRunning /\ recorded # Latest
      /\ migrating' = [batch |-> 1, version |-> recorded, left |-> {}]
      /\ UNCHANGED <<project, recorded, crashes, original>>
    BY DEF StartMigrator
<1>3. MigrationsTypeOK'
    <2>1. migrating' \in [batch: 0 .. Len(Batches), version: 0 .. Latest, left: SUBSET Projects]
        BY <1>1, <1>2, BatchFacts, MigratorFacts
    <2>. QED  BY <1>1, <1>2, <2>1 DEF MigrationsTypeOK
<1>4. Sweep'
    BY <1>1, <1>2, MigratorFacts DEF Sweep
<1>5. \A d \in Projects : Brought(d)'
    BY <1>1, <1>2, StartPlaces, SamePlaces
<1>. QED  BY <1>3, <1>4, <1>5 DEF MigrationsInv

LEMMA NextVersionKeeps ==
    ASSUME MigrationsInv, NextVersion
    PROVE  MigrationsInv'
<1>1. MigrationsTypeOK /\ Sweep
    BY DEF MigrationsInv
<1>2. /\ migrating.batch # 0 /\ migrating.left = {}
      /\ UNCHANGED <<project, recorded, crashes, original>>
    BY DEF NextVersion
<1>3. /\ recorded = original.at /\ recorded # Latest /\ recorded <= migrating.version
      /\ migrating.batch \in 1 .. Len(Batches)
    BY <1>1, <1>2, BatchFacts, MigratorFacts DEF Sweep
<1>4. CASE migrating.version < Latest
    <2>1. /\ migrating'.batch = migrating.batch /\ migrating'.version = migrating.version + 1
          /\ migrating'.left = Batches[migrating.batch]
          /\ migrating' = [batch |-> migrating.batch, version |-> migrating.version + 1,
                           left |-> Batches[migrating.batch]]
        BY <1>1, <1>4, MigratorFacts DEF NextVersion
    <2>2. MigrationsTypeOK'
        <3>1. migrating.version + 1 \in 0 .. Latest
            BY <1>1, <1>4, BatchFacts, MigratorFacts
        <3>2. migrating' \in [batch: 0 .. Len(Batches), version: 0 .. Latest, left: SUBSET Projects]
            BY <1>1, <1>3, <2>1, <3>1, BatchFacts, MigratorFacts
        <3>. QED  BY <1>1, <1>2, <3>2 DEF MigrationsTypeOK
    <2>3. Sweep'
        BY <1>1, <1>2, <1>3, <2>1, MigratorFacts DEF Sweep
    <2>. QED  BY <1>1, <1>2, <2>2, <2>3, NextPlaces, SamePlaces DEF MigrationsInv
<1>5. CASE ~(migrating.version < Latest)
    <2>1. /\ migrating.batch < Len(Batches)
          /\ migrating' = [batch |-> migrating.batch + 1, version |-> recorded, left |-> {}]
        BY <1>5 DEF NextVersion
    <2>2. migrating.version = Latest
        BY <1>1, <1>5, BatchFacts, MigratorFacts
    <2>3. MigrationsTypeOK'
        <3>1. migrating' \in [batch: 0 .. Len(Batches), version: 0 .. Latest, left: SUBSET Projects]
            BY <1>1, <1>3, <2>1, BatchFacts, MigratorFacts
        <3>. QED  BY <1>1, <1>2, <3>1 DEF MigrationsTypeOK
    <2>4. Sweep'
        BY <1>1, <1>2, <1>3, <2>1, MigratorFacts DEF Sweep
    <2>. QED  BY <1>1, <1>2, <2>3, <2>4, NextPlaces, SamePlaces DEF MigrationsInv
<1>. QED  BY <1>4, <1>5

\* The document migrated has come to the next version; the others are where they were.
LEMMA MigrateStepKeeps ==
    ASSUME MigrationsInv, NEW d \in Projects, Migrate(d)
    PROVE  MigrationsInv'
<1> DEFINE v == migrating.version
           e == MigrateDoc(v, project[d])
<1>1. MigrationsTypeOK /\ Sweep /\ Brought(d)
    BY DEF MigrationsInv
<1>2. /\ d \in migrating.left /\ ~Throws(v, project[d])
      /\ project' = [project EXCEPT ![d] = e]
      /\ migrating' = [migrating EXCEPT !.left = @ \ {d}]
      /\ UNCHANGED <<recorded, crashes, original>>
    BY DEF Migrate
<1>3. /\ Place(d) = v - 1 /\ Place(d)' = v /\ v \in 1 .. Latest /\ project[d] \in Docs
      /\ project'[d] = e /\ \A c \in Projects \ {d} : Place(c)' = Place(c) /\ project'[c] = project[c]
    BY MigratePlaces
<1>4. migrating.batch # 0
    BY <1>1, <1>2 DEF Sweep, NotRunning
<1>5. recorded = original.at /\ recorded < v /\ original.at \in 0 .. Latest
    BY <1>1, <1>2, <1>4, MigratorFacts DEF Sweep
<1>6. e \in Docs /\ Sound(original.at, v, e) /\ Alike(original.at, project[d], e)
    <2> HIDE DEF v
    <2>. QED  BY <1>1, <1>2, <1>3, <1>5, MigrateKeeps DEF Brought
<1> HIDE DEF e
<1>7. /\ migrating'.batch = migrating.batch /\ migrating'.version = v
      /\ migrating'.left = migrating.left \ {d}
      /\ migrating' = [batch |-> migrating.batch, version |-> v, left |-> migrating.left \ {d}]
    BY <1>1, <1>2, MigratorFacts
<1>8. MigrationsTypeOK'
    <2>1. migrating' \in [batch: 0 .. Len(Batches), version: 0 .. Latest, left: SUBSET Projects]
        BY <1>1, <1>7, MigratorFacts
    <2>. QED  BY <1>1, <1>2, <1>6, <2>1 DEF MigrationsTypeOK
<1>9. Sweep'
    BY <1>1, <1>2, <1>4, <1>5, <1>7, MigratorFacts DEF Sweep
<1>10. Brought(d)'
    <2>1. Alike(original.at, original.docs[d], e)
        BY <1>1, <1>6 DEF Brought, Alike
    <2>. QED  BY <1>1, <1>2, <1>3, <1>6, <2>1 DEF Brought
<1>11. ASSUME NEW c \in Projects \ {d}
       PROVE  Brought(c)'
    <2>1. Brought(c)
        BY DEF MigrationsInv
    <2>. QED  BY <1>2, <1>3, <2>1 DEF Brought
<1>. QED  BY <1>8, <1>9, <1>10, <1>11 DEF MigrationsInv

\* At the end of the last batch, every document is at the last version.
LEMMA RecordKeeps ==
    ASSUME MigrationsInv, RecordVersion
    PROVE  MigrationsInv'
<1>1. MigrationsTypeOK /\ Sweep
    BY DEF MigrationsInv
<1>2. /\ migrating.batch = Len(Batches) /\ migrating.version = Latest /\ migrating.left = {}
      /\ recorded' = Latest /\ migrating' = NotRunning /\ UNCHANGED <<project, crashes, original>>
    BY DEF RecordVersion
<1>3. MigrationsTypeOK'
    <2>1. migrating' \in [batch: 0 .. Len(Batches), version: 0 .. Latest, left: SUBSET Projects]
        BY <1>2, BatchFacts DEF NotRunning
    <2>2. recorded' \in 0 .. Latest
        BY <1>2, BatchFacts
    <2>. QED  BY <1>1, <1>2, <2>1, <2>2 DEF MigrationsTypeOK
<1>4. Sweep'
    BY <1>2 DEF Sweep, NotRunning
<1>. QED  BY <1>1, <1>2, <1>3, <1>4, RecordPlaces, SamePlaces DEF MigrationsInv

\* A migrator that stops has left documents that are sound to begin again with.
LEMMA StopKeeps ==
    ASSUME MigrationsInv, StopMigrator
    PROVE  MigrationsInv'
<1>1. MigrationsTypeOK /\ Sweep
    BY DEF MigrationsInv
<1>2. /\ migrating # NotRunning /\ crashes < MaxCrashes /\ crashes' = crashes + 1
      /\ migrating' = NotRunning /\ UNCHANGED <<project, recorded, original>>
    BY DEF StopMigrator
<1>3. recorded = original.at /\ original.at \in 0 .. Latest
    BY <1>1, <1>2, MigratorFacts DEF Sweep
<1>4. MigrationsTypeOK'
    <2>1. migrating' \in [batch: 0 .. Len(Batches), version: 0 .. Latest, left: SUBSET Projects]
        BY <1>2, BatchFacts DEF NotRunning
    <2>2. crashes' \in 0 .. MaxCrashes
        BY <1>1, <1>2, MigrationsAssumption DEF MigrationsTypeOK
    <2>. QED  BY <1>1, <1>2, <2>1, <2>2 DEF MigrationsTypeOK
<1>5. Sweep'
    BY <1>1, <1>2 DEF Sweep, NotRunning
<1>6. ASSUME NEW d \in Projects
      PROVE  Brought(d)'
    <2>1. Brought(d)
        BY DEF MigrationsInv
    <2>2. Place(d) \in original.at .. Latest
        BY <1>1, PlaceBounds
    <2>3. Sound(original.at, original.at, project[d])
        BY <1>3, <2>1, <2>2, SoundAgain DEF Brought
    <2>4. Place(d)' = original.at
        <3>1. migrating'.batch = 0
            BY <1>2 DEF NotRunning
        <3>2. ~ \E b \in 1 .. (migrating'.batch - 1) : d \in Batches[b]
            BY <3>1
        <3>. QED  BY <1>2, <1>3, <3>1, <3>2 DEF Place
    <2>. QED  BY <1>2, <2>1, <2>3, <2>4 DEF Brought
<1>. QED  BY <1>4, <1>5, <1>6 DEF MigrationsInv

\* Every step keeps the invariant.
LEMMA MigrationsKeep ==
    ASSUME MigrationsInv, [MigrationsNext]_migrationVars
    PROVE  MigrationsInv'
<1>1. CASE MigrationsNext
    BY <1>1, StartKeeps, NextVersionKeeps, RecordKeeps, StopKeeps, MigrateStepKeeps
    DEF MigrationsNext
<1>2. CASE UNCHANGED migrationVars
    BY <1>2 DEF migrationVars, MigrationsInv, MigrationsTypeOK, Sweep, Brought, Place
<1>. QED  BY <1>1, <1>2

\* The invariant holds of every behaviour.
LEMMA MigrationsHold == MigrationsSpec => []MigrationsInv
<1>1. MigrationsInit => MigrationsInv
    BY MigrationsBegin
<1>2. MigrationsInv /\ [MigrationsNext]_migrationVars => MigrationsInv'
    BY MigrationsKeep
<1>. QED  BY <1>1, <1>2, PTL DEF MigrationsSpec

\* The variables of the migrator stay in their types: every migration turns a document that the
\* program may have into one.
THEOREM MigrationsTyped == MigrationsSpec => []MigrationsTypeOK
<1>1. MigrationsInv => MigrationsTypeOK
    BY DEF MigrationsInv
<1>. QED  BY <1>1, MigrationsHold, PTL

\* Once the last version is recorded, every document of every batch has what the current code
\* requires, and nothing that was turned into something else is left.
THEOREM SchemaIsComplete == MigrationsSpec => []SchemaComplete
<1>1. MigrationsInv => SchemaComplete
    <2>1. SUFFICES ASSUME MigrationsInv, recorded = Latest, NEW d \in Projects
                   PROVE  /\ \A f \in RequiredFields : Has(project[d], f)
                          /\ \A f \in BookFields \cup RangeFields \cup SourceFields \cup EnabledFields :
                                 ~Has(project[d], f)
        BY DEF SchemaComplete
    <2>2. Sound(original.at, Latest, project[d]) /\ original.at \in 0 .. Latest
        BY <2>1, MigratorFacts DEF MigrationsInv, Brought, Place
    <2>. QED  BY <2>2, EndedComplete
<1>. QED  BY <1>1, MigrationsHold, PTL

\* Once the last version is recorded, every document is, in all the current code reads, what a
\* migrator that was never stopped would have made of it, however often and wherever this one was.
THEOREM ResumedRunIsOneRun == MigrationsSpec => []ResumedAsOneRun
<1>1. MigrationsInv => ResumedAsOneRun
    <2>1. SUFFICES ASSUME MigrationsInv, recorded = Latest, NEW d \in Projects
                   PROVE  \A f \in CurrentFields :
                              project[d][f] = Straight(original.docs[d], original.at, Latest)[f]
        BY DEF ResumedAsOneRun
    <2> DEFINE at == original.at
               doc == original.docs[d]
               one == Straight(doc, at, Latest)
    <2>2. /\ doc \in DocsAt(at) /\ Sound(at, Latest, project[d]) /\ Alike(at, doc, project[d])
          /\ at \in 0 .. Latest /\ Latest \in at .. Latest
        BY <2>1, MigratorFacts, BatchFacts DEF MigrationsInv, Brought, Place
    <2> HIDE DEF at, doc
    <2>3. doc \in Docs /\ Sound(at, at, doc) /\ Booked(at, doc)
        BY <2>2, DocsAtSound
    <2>4. Sound(at, Latest, one) /\ Alike(at, doc, one)
        BY <2>2, <2>3, StraightKeeps
    <2> HIDE DEF one
    <2>5. Alike(at, project[d], one)
        BY <2>2, <2>4 DEF Alike
    <2>6. \A f \in CurrentFields : project[d][f] = one[f]
        BY <2>2, <2>4, <2>5, EndedSame
    <2>. QED  BY <2>6 DEF at, doc, one
<1>. QED  BY <1>1, MigrationsHold, PTL

-----------------------------------------------------------------------------
(* What a run that is begun again can meet                                    *)

\* The lists Migration22 dereferences are there in every run begun before Migration14 makes them,
\* and in one that was never stopped.
ListsInv ==
    \A d \in Projects : original.at < 14 \/ crashes = 0 => ListsThere(Place(d), project[d])

\* A migration throws only in a run begun again from a version at which the lists had been made and
\* not yet been taken away, as Migration26 may have done the first time.
ThrowsOnlyRepeated ==
    \A d \in migrating.left :
        Throws(migrating.version, project[d]) => original.at \in 14 .. 21 /\ crashes > 0

LEMMA ListsBegin ==
    ASSUME MigrationsInit
    PROVE  ListsInv
<1>1. recorded \in 0 .. Latest /\ project \in [Projects -> DocsAt(recorded)] /\ migrating = NotRunning
    BY MigrationsAssumption DEF MigrationsInit
<1>2. ASSUME NEW d \in Projects
      PROVE  ListsThere(Place(d), project[d])
    <2>1. Place(d) = recorded /\ project[d] \in DocsAt(recorded)
        BY <1>1, PlaceIdle
    <2>2. Booked(recorded, project[d])
        BY <1>1, <2>1, DocsAtSound
    <2>. QED  BY <2>1, <2>2 DEF Booked
<1>. QED  BY <1>2 DEF ListsInv

\* A step that moves no document leaves the lists where they are.
LEMMA ListsStay ==
    ASSUME ListsInv, UNCHANGED <<project, original, crashes>>,
           \A d \in Projects : Place(d)' = Place(d)
    PROVE  ListsInv'
BY Zenon DEF ListsInv

LEMMA ListsStep ==
    ASSUME MigrationsInv, ListsInv, [MigrationsNext]_migrationVars
    PROVE  ListsInv'
<1>1. MigrationsTypeOK /\ Sweep
    BY DEF MigrationsInv
<1>2. CASE StartMigrator \/ NextVersion \/ RecordVersion
    <2>1. \A d \in Projects : Place(d)' = Place(d)
        BY <1>1, <1>2, StartPlaces, NextPlaces, RecordPlaces
    <2>2. UNCHANGED <<project, original, crashes>>
        BY <1>2 DEF StartMigrator, NextVersion, RecordVersion
    <2>. QED  BY <2>1, <2>2, ListsStay
<1>3. CASE StopMigrator
    <2>1. /\ crashes' = crashes + 1 /\ crashes \in Nat /\ UNCHANGED <<project, original, recorded>>
          /\ migrating' = NotRunning /\ migrating # NotRunning
        BY <1>1, <1>3, MigrationsAssumption DEF StopMigrator, MigrationsTypeOK
    <2>2. original'.at = recorded
        BY <1>1, <2>1, MigratorFacts DEF Sweep
    <2>3. ASSUME NEW d \in Projects, original'.at < 14
          PROVE  ListsThere(Place(d), project[d])'
        <3>1. Place(d)' = recorded
            <4>1. migrating'.batch = 0
                BY <2>1 DEF NotRunning
            <4>2. ~ \E b \in 1 .. (migrating'.batch - 1) : d \in Batches[b]
                BY <4>1
            <4>. QED  BY <2>1, <4>1, <4>2 DEF Place
        <3>2. ~ (14 <= recorded)
            BY <1>1, <2>2, <2>3, MigratorFacts
        <3>. QED  BY <3>1, <3>2 DEF ListsThere
    <2>. QED  BY <2>1, <2>3 DEF ListsInv
<1>4. ASSUME NEW d \in Projects, Migrate(d)
      PROVE  ListsInv'
    <2>1. /\ Place(d) = migrating.version - 1 /\ Place(d)' = migrating.version
          /\ migrating.version \in 1 .. Latest /\ project[d] \in Docs
          /\ project'[d] = MigrateDoc(migrating.version, project[d])
          /\ \A c \in Projects \ {d} : Place(c)' = Place(c) /\ project'[c] = project[c]
        BY <1>4, MigratePlaces
    <2>2. UNCHANGED <<original, crashes>>
        BY <1>4 DEF Migrate
    <2>3. ASSUME original.at < 14 \/ crashes = 0
          PROVE  ListsThere(Place(d), project[d])'
        <3>1. ListsThere(migrating.version - 1, project[d])
            BY <2>1, <2>3 DEF ListsInv
        <3>2. ListsThere(migrating.version, project'[d])
            BY <2>1, <3>1, MigrateLists
        <3>. QED  BY <2>1, <3>2 DEF ListsThere
    <2>4. ASSUME NEW c \in Projects \ {d}, original.at < 14 \/ crashes = 0
          PROVE  ListsThere(Place(c), project[c])'
        BY <2>1, <2>4 DEF ListsInv, ListsThere
    <2>. QED  BY <2>2, <2>3, <2>4 DEF ListsInv
<1>5. CASE UNCHANGED migrationVars
    BY <1>5 DEF migrationVars, ListsInv, ListsThere, Place
<1>. QED  BY <1>2, <1>3, <1>4, <1>5 DEF MigrationsNext

\* The migrator comes to no document that makes a migration throw (map of a list that is not there),
\* however often it is stopped, unless it was begun at versions 14 to 21 and stopped: of the versions
\* from which it may have to begin again, those alone can leave it unable ever to end.
THEOREM ThrowsOnlyWhenRepeated == MigrationsSpec => []ThrowsOnlyRepeated
<1>1. MigrationsInit => ListsInv
    BY ListsBegin
<1>2. MigrationsInv /\ ListsInv /\ [MigrationsNext]_migrationVars => ListsInv'
    BY ListsStep
<1>3. MigrationsInv /\ ListsInv => ThrowsOnlyRepeated
    <2> SUFFICES ASSUME MigrationsInv, ListsInv, NEW d \in migrating.left,
                        Throws(migrating.version, project[d])
                 PROVE  original.at \in 14 .. 21 /\ crashes > 0
        BY DEF ThrowsOnlyRepeated
    <2>1. MigrationsTypeOK /\ Sweep
        BY DEF MigrationsInv
    <2>2. /\ d \in Projects /\ crashes \in Nat /\ original.at \in 0 .. Latest
          /\ migrating.batch # 0 /\ recorded = original.at /\ recorded < migrating.version
        BY <2>1, MigratorFacts, MigrationsAssumption DEF MigrationsTypeOK, Sweep, NotRunning
    <2>3. migrating.version = 22
        BY DEF Throws
    <2>4. Place(d) = migrating.version - 1
        BY <2>1, <2>2, LeftPlace
    <2>5. ~ListsThere(21, project[d])
        BY DEF Throws, ListsThere
    <2>6. ~(original.at < 14 \/ crashes = 0)
        BY <2>2, <2>3, <2>4, <2>5 DEF ListsInv
    <2>. QED  BY <2>2, <2>3, <2>6
<1>. QED  BY <1>1, <1>2, <1>3, MigrationsHold, PTL DEF MigrationsSpec

=============================================================================
