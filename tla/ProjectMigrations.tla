-------------------------- MODULE ProjectMigrations ---------------------------
(***************************************************************************)
(* The migrations of the project documents, and the migrator that applies    *)
(* them: batch after batch, every document of a batch to one version before   *)
(* any goes to the next, the collection's version recorded at the very end.   *)
(* A migrator that stops begins again from the version recorded, on documents *)
(* that have had some of the migrations: each must bear being repeated after  *)
(* those that followed it.                                                   *)
(*                                                                           *)
(* A document is a function from the fields the migrations touch; a book or a *)
(* chapter stands for all of them.  A value is a set: of the members of a     *)
(* list, or of one value.                                                    *)
(***************************************************************************)
EXTENDS Integers, Sequences, FiniteSets

CONSTANTS
    Batches,    \* the documents' ids, in sets of at most 10000, in their order
    Starts,     \* versions recorded before the migrator is run
    MaxCrashes  \* bound: times the migrator stops before its end

Latest == 29
Projects == UNION {Batches[b] : b \in DOMAIN Batches}

ASSUME MigrationsAssumption ==
    /\ Batches \in Seq(SUBSET Projects) /\ Len(Batches) > 0
    /\ \A b1, b2 \in DOMAIN Batches : b1 # b2 => Batches[b1] \cap Batches[b2] = {}
    /\ Starts \subseteq 0 .. Latest /\ MaxCrashes \in Nat

VARIABLES
    project,     \* the documents
    recorded,    \* the version in schema_versions
    migrating,   \* the migrator's place, or NotRunning
    crashes,     \* times it has stopped
    original     \* ghost: the documents before the first run, and their version

migrationVars == <<project, recorded, migrating, crashes, original>>

Null == {"null"}
False == {"false"}
True == {"true"}
EmptyList == {}

ShareFields == {"translateShareEnabled", "checkingShareEnabled"}
ShareLevels == {"translateShareLevel", "checkingShareLevel"}
BookFields == {"lastSelectedTrainingBooks", "lastSelectedTranslationBooks"}
RangeFields == {"trainingRange", "translationRange"}
RangesFields == {"trainingRanges", "translationRanges"}
SourceFields == {"alternateSource", "alternateTrainingSource", "additionalTrainingSource"}
EnabledFields == {"alternateSourceEnabled", "alternateTrainingSourceEnabled",
                  "additionalTrainingSourceEnabled"}
SourceLists == {"draftingSources", "trainingSources"}
LynxFields == {"autoCorrections", "assessments", "punctuationChecker", "allowedCharacterChecker"}
TermsFields == {"biblicalTermsEnabled", "hasRenderings"}
TextFields == {"isValid", "bookPermissions", "chapterPermissions"}

PlainFields ==
    {"userPermissions", "translateConfig", "draftConfig", "editable", "tagIcon",
     "percentCompleted", "preTranslate", "lastSelectedBooks", "creatorResolve",
     "sendAllSegments", "trainingDataFiles", "additionalTrainingData", "rolePermissions",
     "usfmConfig", "currentScriptureRange", "draftedScriptureRange",
     "qualityEstimationConfig", "source", "hasDraft"}

Fields ==
    UNION {ShareFields, ShareLevels, BookFields, RangeFields, RangesFields, SourceFields,
           EnabledFields, SourceLists, LynxFields, TermsFields, TextFields, PlainFields}

Members == {"null", "true", "false", "object", "byRole", "book", "range", "source", "alternate",
            "alternateTraining", "additional", "checker", "commenter", "viewer", "old"}
Docs == [Fields -> SUBSET Members]

Has(d, f) == d[f] # Null
Set(d, f, v) == [d EXCEPT ![f] = v]
Default(d, fs, v) == [f \in Fields |-> IF f \in fs /\ d[f] = Null THEN v ELSE d[f]]
Without(d, fs) == [f \in Fields |-> IF f \in fs THEN Null ELSE d[f]]

-----------------------------------------------------------------------------
(* migrateDoc of each version                                                *)

Migration1(d) == Default(d, {"isValid"}, True)
Migration2(d) == Default(d, {"bookPermissions"}, {"byRole"})
Migration3(d) == Default(d, {"chapterPermissions"}, {"byRole"})
Migration4(d) == Set(d, "userPermissions", {"object"})
Migration5(d) == Set(Set(Default(d, {"translateConfig"}, {"object"}),
                         "translateShareEnabled", False), "translateShareLevel", {"old"})
Migration6(d) == Default(d, {"editable"}, True)
Migration7(d) == Without(d, {"tagIcon"})
Migration8(d) == Without(d, {"percentCompleted"})
Migration9(d) == Without(d, ShareLevels)
Migration10(d) == IF Has(d, "translateConfig") THEN Set(d, "preTranslate", False) ELSE d
Migration11(d) == Default(d, TermsFields, False)
Migration12(d) == Default(d, {"draftConfig"}, {"object"})
Migration13(d) == Default(d, {"lastSelectedBooks"}, EmptyList)

Migration14MovingOnly(d) ==  \* seeded: no books, no list of books
    Default(Default(IF Has(d, "lastSelectedBooks") /\ ~Has(d, "lastSelectedTrainingBooks")
                    THEN Set(Without(d, {"lastSelectedBooks"}), "lastSelectedTrainingBooks",
                             d["lastSelectedBooks"]) ELSE d,
                    {"alternateTrainingSourceEnabled"}, False),
            {"lastSelectedTranslationBooks"}, EmptyList)
Migration14(d) ==
    LET books == IF Has(d, "lastSelectedTrainingBooks") THEN d
                 ELSE Set(Without(d, {"lastSelectedBooks"}), "lastSelectedTrainingBooks",
                          IF Has(d, "lastSelectedBooks") THEN d["lastSelectedBooks"] ELSE EmptyList)
    IN  Default(Default(books, {"alternateTrainingSourceEnabled"}, False),
                {"lastSelectedTranslationBooks"}, EmptyList)

Migration15(d) == IF Has(d, "creatorResolve") THEN Set(d, "creatorResolve", True) ELSE d
Migration16(d) == Default(d, {"sendAllSegments"}, False)
Migration17(d) ==
    Default(Default(d, {"trainingDataFiles"}, EmptyList), {"additionalTrainingData"}, False)
Migration18(d) ==
    Default(d, {"alternateSourceEnabled"}, IF Has(d, "alternateSource") THEN True ELSE False)
Migration19(d) == Without(d, {"sendAllSegments"})
Migration20(d) == Default(d, {"additionalTrainingSourceEnabled"}, False)

Migration21(d) ==
    IF Has(d, "rolePermissions") THEN d
    ELSE Set(Without(d, ShareFields), "rolePermissions",
             (IF d["checkingShareEnabled"] = True THEN {"checker"} ELSE {}) \cup
             (IF d["translateShareEnabled"] = True THEN {"commenter", "viewer"} ELSE {}))

\* Books to a range of books; no book gives no range.
RangeOf(d, range, books) ==
    IF Has(d, range) \/ d[books] = EmptyList THEN d[range] ELSE {"range"}
Migration22(d) ==
    [d EXCEPT !["trainingRange"] = RangeOf(d, "trainingRange", "lastSelectedTrainingBooks"),
              !["translationRange"] = RangeOf(d, "translationRange", "lastSelectedTranslationBooks")]

Migration23(d) == Without(d, {"usfmConfig"})
Migration24(d) == Without(d, {"additionalTrainingData"})
Migration25(d) == Default(d, LynxFields, False)

\* A range to a list of one range, named by the project it was chosen from.
RangesOf(d, range, ranges, enabled, source) ==
    IF Has(d, range) /\ (~Has(d, ranges) \/ d[ranges] = EmptyList)
    THEN d[range] \cup (IF d[enabled] = True /\ Has(d, source) THEN d[source] ELSE d["source"])
    ELSE d[ranges]
Migration26(d) ==
    Without([d EXCEPT
        !["trainingRanges"] = RangesOf(d, "trainingRange", "trainingRanges",
            "alternateTrainingSourceEnabled", "alternateTrainingSource"),
        !["translationRanges"] = RangesOf(d, "translationRange", "translationRanges",
            "alternateSourceEnabled", "alternateSource")],
        BookFields \cup RangeFields)

\* The alternate source if enabled and there, or else the project's own, if there is one.
Chosen(d, enabled, source) ==
    IF d[enabled] = True /\ Has(d, source) THEN d[source] ELSE d["source"] \ Null
Migration27Always(d) ==  \* seeded: the lists are written whether they are there or not
    LET drafting == Chosen(d, "alternateSourceEnabled", "alternateSource")
        training == Chosen(d, "alternateTrainingSourceEnabled", "alternateTrainingSource")
        used(s) == IF d["preTranslate"] = True THEN s ELSE {}
    IN  Without([d EXCEPT !["draftingSources"] = used(drafting), !["trainingSources"] = used(training)],
                SourceFields \cup EnabledFields)
Migration27(d) ==
    LET drafting == Chosen(d, "alternateSourceEnabled", "alternateSource")
        training == Chosen(d, "alternateTrainingSourceEnabled", "alternateTrainingSource") \cup
                    (IF d["additionalTrainingSourceEnabled"] = True
                     THEN d["additionalTrainingSource"] \ Null ELSE {})
        used(s) == IF d["preTranslate"] = True THEN s ELSE {}
    IN  Without(Default(Default(d, {"draftingSources"}, used(drafting)),
                        {"trainingSources"}, used(training)),
                SourceFields \cup EnabledFields)

Migration28(d) ==
    IF Has(d, "currentScriptureRange") \/ d["hasDraft"] # True THEN d
    ELSE Set(Default(d, {"draftedScriptureRange"}, {"range"}), "currentScriptureRange", {"range"})
Migration29(d) == Without(d, {"qualityEstimationConfig"})

MigrateDoc(v, d) ==
    CASE v = 1 -> Migration1(d) [] v = 2 -> Migration2(d) [] v = 3 -> Migration3(d)
      [] v = 4 -> Migration4(d) [] v = 5 -> Migration5(d) [] v = 6 -> Migration6(d)
      [] v = 7 -> Migration7(d) [] v = 8 -> Migration8(d) [] v = 9 -> Migration9(d)
      [] v = 10 -> Migration10(d) [] v = 11 -> Migration11(d) [] v = 12 -> Migration12(d)
      [] v = 13 -> Migration13(d) [] v = 14 -> Migration14(d) [] v = 15 -> Migration15(d)
      [] v = 16 -> Migration16(d) [] v = 17 -> Migration17(d) [] v = 18 -> Migration18(d)
      [] v = 19 -> Migration19(d) [] v = 20 -> Migration20(d) [] v = 21 -> Migration21(d)
      [] v = 22 -> Migration22(d) [] v = 23 -> Migration23(d) [] v = 24 -> Migration24(d)
      [] v = 25 -> Migration25(d) [] v = 26 -> Migration26(d) [] v = 27 -> Migration27(d)
      [] v = 28 -> Migration28(d) [] v = 29 -> Migration29(d)

\* What the code dereferences and does not find: map of a list that is not there.
Throws(v, d) ==
    v = 22 /\ \/ ~Has(d, "trainingRange") /\ ~Has(d, "lastSelectedTrainingBooks")
              \/ ~Has(d, "translationRange") /\ ~Has(d, "lastSelectedTranslationBooks")

-----------------------------------------------------------------------------
(* Documents at a version: one that came to it from the first, and what its   *)
(* users may have set while it was at that version.                          *)

First == [f \in Fields |->
    CASE f \in {"checkingShareEnabled", "creatorResolve"} -> False
      [] f \in {"source"} -> {"source"}
      [] f \in {"tagIcon", "percentCompleted", "checkingShareLevel"} -> {"old"}
      [] OTHER -> Null]

Straight(d, from, to) ==
    LET doc[v \in from .. to] == IF v = from THEN d ELSE MigrateDoc(v, doc[v - 1])
    IN  doc[to]

\* field, first and last version that has it, value
Settings == [
    drafting |-> {<<"preTranslate", 10, 29, True>>, <<"hasDraft", 12, 29, True>>,
                  <<"lastSelectedBooks", 13, 13, {"book"}>>,
                  <<"lastSelectedTrainingBooks", 14, 25, {"book"}>>,
                  <<"lastSelectedTranslationBooks", 14, 25, {"book"}>>,
                  <<"trainingRange", 22, 25, {"range"}>>, <<"translationRange", 22, 25, {"range"}>>,
                  <<"usfmConfig", 20, 22, {"old"}>>, <<"qualityEstimationConfig", 26, 28, {"old"}>>},
    sources |-> {<<"alternateSource", 12, 26, {"alternate"}>>,
                 <<"alternateSourceEnabled", 18, 26, True>>,
                 <<"alternateTrainingSource", 14, 26, {"alternateTraining"}>>,
                 <<"alternateTrainingSourceEnabled", 14, 26, True>>,
                 <<"additionalTrainingSource", 20, 26, {"additional"}>>,
                 <<"additionalTrainingSourceEnabled", 20, 26, True>>},
    sharing |-> {<<"checkingShareEnabled", 1, 20, True>>, <<"translateShareEnabled", 5, 20, True>>}]

DocsAt(v) ==
    {LET set == {s \in UNION {Settings[g] : g \in groups} : s[2] <= v /\ v <= s[3]}
         came == Straight(First, 0, v)
     IN  [f \in Fields |-> IF \E s \in set : s[1] = f THEN (CHOOSE s \in set : s[1] = f)[4]
                           ELSE came[f]] :
     groups \in SUBSET DOMAIN Settings}

-----------------------------------------------------------------------------
(* migrateIfNecessary                                                        *)

NotRunning == [batch |-> 0, version |-> 0, left |-> {}]

MigrationsTypeOK ==
    /\ project \in [Projects -> Docs]
    /\ recorded \in 0 .. Latest
    /\ migrating \in [batch: 0 .. Len(Batches), version: 0 .. Latest, left: SUBSET Projects]
    /\ crashes \in 0 .. MaxCrashes
    /\ original.at \in Starts /\ original.docs \in [Projects -> Docs]

MigrationsInit ==
    /\ recorded \in Starts
    /\ project \in [Projects -> DocsAt(recorded)]
    /\ original = [at |-> recorded, docs |-> project]
    /\ migrating = NotRunning
    /\ crashes = 0

StartMigrator ==
    /\ migrating = NotRunning /\ recorded # Latest
    /\ migrating' = [batch |-> 1, version |-> recorded, left |-> {}]
    /\ UNCHANGED <<project, recorded, crashes, original>>

\* The next version for the batch, or the next batch from the version recorded.
NextVersionPastLast ==  \* seeded: one version too many
    /\ migrating.batch # 0 /\ migrating.left = {} /\ migrating.version <= Latest
    /\ migrating' = [migrating EXCEPT !.version = @ + 1, !.left = Batches[migrating.batch]]
    /\ UNCHANGED <<project, recorded, crashes, original>>
NextVersion ==
    /\ migrating.batch # 0 /\ migrating.left = {}
    /\ IF migrating.version < Latest
       THEN migrating' = [migrating EXCEPT !.version = @ + 1, !.left = Batches[migrating.batch]]
       ELSE migrating.batch < Len(Batches)
            /\ migrating' = [batch |-> migrating.batch + 1, version |-> recorded, left |-> {}]
    /\ UNCHANGED <<project, recorded, crashes, original>>

\* The operations of one document are submitted at once.
Migrate(d) ==
    /\ d \in migrating.left /\ ~Throws(migrating.version, project[d])
    /\ project' = [project EXCEPT ![d] = MigrateDoc(migrating.version, @)]
    /\ migrating' = [migrating EXCEPT !.left = @ \ {d}]
    /\ UNCHANGED <<recorded, crashes, original>>

RecordVersionOfBatch ==  \* seeded: recorded after the first batch
    /\ migrating.batch # 0 /\ migrating.version = Latest /\ migrating.left = {}
    /\ recorded' = Latest
    /\ migrating' = NotRunning
    /\ UNCHANGED <<project, crashes, original>>
RecordVersion ==
    /\ migrating.batch = Len(Batches) /\ migrating.version = Latest /\ migrating.left = {}
    /\ recorded' = Latest
    /\ migrating' = NotRunning
    /\ UNCHANGED <<project, crashes, original>>

\* The process is stopped, or the database does not answer.
StopMigrator ==
    /\ migrating # NotRunning /\ crashes < MaxCrashes
    /\ crashes' = crashes + 1
    /\ migrating' = NotRunning
    /\ UNCHANGED <<project, recorded, original>>

MigrationsNext ==
    \/ StartMigrator \/ NextVersion \/ RecordVersion \/ StopMigrator
    \/ \E d \in Projects : Migrate(d)

\* The deployment runs the migrator until it has come to its end.
MigrationsFairness == WF_migrationVars(MigrationsNext)

MigrationsSpec == MigrationsInit /\ [][MigrationsNext]_migrationVars /\ MigrationsFairness

-----------------------------------------------------------------------------

\* The fields of the current SFProject, and of those the ones every project has.
RequiredFields == TextFields \cup TermsFields \cup LynxFields \cup SourceLists \cup
    {"userPermissions", "translateConfig", "draftConfig", "editable", "preTranslate",
     "trainingDataFiles", "rolePermissions"}
CurrentFields == RequiredFields \cup RangesFields \cup
    {"creatorResolve", "currentScriptureRange", "draftedScriptureRange", "source"}

\* A migration that was stopped, and begun again on documents that had had later migrations
\* already, leaves every document as one run would have, in all the current code reads.
ResumedAsOneRun ==
    recorded = Latest =>
        \A d \in Projects, f \in CurrentFields :
            project[d][f] = Straight(original.docs[d], original.at, Latest)[f]

\* What the current code requires is there, and nothing a migration has turned into something
\* else is left to be turned into it again, by the next run that starts too early.
SchemaComplete ==
    recorded = Latest =>
        \A d \in Projects :
            /\ \A f \in RequiredFields : Has(project[d], f)
            /\ \A f \in BookFields \cup RangeFields \cup SourceFields \cup EnabledFields :
                    ~Has(project[d], f)

\* However often it is stopped, the migrator once started comes to its end: no document, whatever
\* migrations it has had, makes a migration throw.
MigrationEnds == (migrating # NotRunning) ~> (recorded = Latest)
=============================================================================
