---------------------------- MODULE StoreUpgrade ----------------------------
(***************************************************************************)
(* How a store is opened for writing: an empty one is laid out, an older    *)
(* one is brought to the current schema, in the order of the constructor's  *)
(* statements and with a crash or a failure between any two of them; and    *)
(* what a daemon then does with it until it is opened again.  A row of      *)
(* events is told by what the migrations ask of it; the schema's tables and *)
(* columns are features of the layout.                                      *)
(***************************************************************************)
EXTENDS Naturals, Sequences, FiniteSets

CONSTANTS
    Files,        \* provider files
    MaxStoredRows,      \* bound on the events of the store
    MaxMishaps    \* bound on crashes and failed migrations

ASSUME UpgradeAssumption == IsFiniteSet(Files) /\ {MaxStoredRows, MaxMishaps} \subseteq Nat

VARIABLES
    marked,       \* schema_version of meta, 0 where there is none
    layout,       \* the features the tables have
    eventRows,         \* the events, in order of their sequence numbers
    checkpointRows,  \* the rows the stored checkpoint was made of, <<>> for none
    derived,      \* derived[p]: the row the changes of p were made of, and whether
                  \* they say a reducer's version
    cursors,      \* files with a row in sources
    jobs,         \* files with a re-ingestion job
    usageLedger,  \* the rows counted in it, and whether it is complete
    opening,      \* where the constructor is, "closed" and "open" otherwise
    found,        \* what it found: the version, whether there were tables, and
                  \* (for the properties) the files rows named
    mishaps

upgradeVars == <<marked, layout, eventRows, checkpointRows, derived, cursors, jobs, usageLedger,
                 opening, found, mishaps>>
contentVars == <<eventRows, checkpointRows, derived, cursors, jobs, usageLedger>>

Current == 8    \* SCHEMA_VERSION

NoFile == "none"
\* name, with the suffix of a hook's observation or not; from a Claude Code hook
\* or not; its timestamp; whether it satisfies the event contract; its file.
Row(name, hooked, suffixed, ts, valid, file) ==
    [name |-> name, hooked |-> hooked, suffixed |-> suffixed, ts |-> ts,
     valid |-> valid, file |-> file, warning |-> FALSE]

\* A quarantined row keeps its place and nothing else; its id holds its number.
Warning(row, ts) ==
    [name |-> row.name, hooked |-> FALSE, suffixed |-> row.suffixed, ts |-> ts,
     valid |-> TRUE, file |-> NoFile, warning |-> TRUE]

Id(p) == [name |-> eventRows[p].name, suffixed |-> eventRows[p].suffixed,
          number |-> IF eventRows[p].warning THEN p ELSE 0]

FilesNamed(of) == {of[p].file : p \in {q \in DOMAIN of : of[q].file # NoFile}}

CurrentLayout == {"sessions", "events", "versions", "byEvent", "sync", "samples",
                  "readModels", "backfillState"}

-----------------------------------------------------------------------------
(* The stores there are                                                    *)

LayoutOf(v) ==
    {"sessions", "events"}
      \cup (IF v >= 2 THEN {"versions"} ELSE {})
      \cup (IF v = 2 THEN {"byLocation"} ELSE IF v > 2 THEN {"byEvent"} ELSE {})
      \cup (IF v >= 6 THEN {"sync"} ELSE {}) \cup (IF v >= 7 THEN {"samples"} ELSE {})
      \cup (IF v >= 8 THEN {"readModels", "backfillState"} ELSE {})

\* What the code of schema v could have stored.
RowsOf(v) ==
    LET stamps == IF v < 2 THEN {"canonical", "loose", "none"} ELSE {"canonical"}
        shapes == IF v < 4 THEN BOOLEAN ELSE {TRUE}
    IN  {Row(1, TRUE, suffixed, ts, valid, NoFile) :
           suffixed \in IF v < 2 THEN BOOLEAN ELSE {TRUE}, ts \in stamps, valid \in shapes}
        \cup {Row(2, FALSE, FALSE, ts, valid, f) : ts \in stamps, valid \in shapes, f \in Files}

UpgradeInit ==
    /\ opening = "closed" /\ found = [version |-> 0, tables |-> FALSE, named |-> {}] /\ mishaps = 0
    /\ jobs = {}
    /\ \/ /\ marked = 0 /\ layout = {} /\ eventRows = <<>> /\ cursors = {}
          /\ checkpointRows = <<>> /\ derived = <<>>
          /\ usageLedger = [counted |-> {}, complete |-> FALSE]
       \/ \E v \in {0, 2, 3, 4, 7, Current, Current + 1} :
            /\ marked = v /\ layout = LayoutOf(v)
            /\ eventRows \in UNION {[1 .. n -> RowsOf(v)] : n \in 0 .. 2}
            /\ \A p, q \in DOMAIN eventRows : p # q => Id(p) # Id(q)
            /\ checkpointRows \in {<<>>, eventRows}
            /\ derived = [p \in DOMAIN eventRows |-> [of |-> eventRows[p], versioned |-> v >= 2]]
            /\ cursors \in SUBSET Files
            /\ usageLedger = [counted |-> IF v >= 8 THEN DOMAIN eventRows ELSE {},
                              complete |-> v >= 8]

-----------------------------------------------------------------------------
(* The migrations                                                          *)

\* migrateToSchema2, of one row.  A hook's observation gets its suffix, unless
\* the suffixed one is stored as well.
Renamed(p) ==
    LET row == eventRows[p]
        twin == \E q \in DOMAIN eventRows \ {p} : Id(q) = [Id(p) EXCEPT !.suffixed = TRUE]
        ts == IF row.ts = "none" THEN "migrated" ELSE "canonical"
        legacy == row.hooked /\ ~row.suffixed
    IN  IF legacy /\ twin THEN Warning([row EXCEPT !.suffixed = TRUE], ts)
        ELSE IF row.ts = "none" THEN Warning([row EXCEPT !.suffixed = @ \/ legacy], ts)
        ELSE [row EXCEPT !.suffixed = @ \/ legacy, !.ts = ts]

To2(db) ==
    IF found.version >= 2 THEN db
    ELSE [db EXCEPT !.eventRows = [p \in DOMAIN eventRows |-> Renamed(p)],
                    !.checkpointRows = <<>>,
                    !.derived = [p \in DOMAIN @ |-> [@[p] EXCEPT !.versioned = FALSE]],
                    !.jobs = @ \cup cursors]

\* Fingerprints are keyed by the event, no longer by its place.
To3(db) ==
    IF found.version >= 3 \/ "byLocation" \notin db.layout THEN db
    ELSE [db EXCEPT !.layout = (@ \ {"byLocation"}) \cup {"byEvent"}]

Quarantined(row) ==
    IF row.valid THEN row ELSE Warning(row, IF row.ts = "none" THEN "migrated" ELSE "canonical")

\* Mutant: what was made of the rows that are rewritten is left as it is.
InvalidatesMutant(db, affected) == db

Invalidates(db, affected) ==
    IF affected = {} THEN db
    ELSE [db EXCEPT !.checkpointRows = <<>>,
                    !.derived = [p \in DOMAIN @ |-> [@[p] EXCEPT !.versioned = FALSE]]]

To4(db) ==
    IF found.version >= 4 THEN db
    ELSE Invalidates([db EXCEPT !.eventRows = [p \in DOMAIN @ |-> Quarantined(@[p])]],
                     {p \in DOMAIN db.eventRows : ~db.eventRows[p].valid})

\* eventReferencedSources: the files that rows still name.
To5(db) ==
    IF found.version >= 5 THEN db
    ELSE [db EXCEPT !.jobs = @ \cup FilesNamed(db.eventRows)]

To7(db) ==
    [db EXCEPT !.layout = @ \cup (IF found.version < 6 THEN {"sync"} ELSE {})
                            \cup (IF found.version < 7 THEN {"samples"} ELSE {})]

To8(db) ==
    [db EXCEPT !.layout = @ \cup {"readModels", "backfillState"},
               !.usageLedger = [counted |-> {}, complete |-> db.eventRows = <<>>]]

Store == [layout |-> layout, eventRows |-> eventRows, checkpointRows |-> checkpointRows,
          derived |-> derived, jobs |-> jobs, usageLedger |-> usageLedger]

Upgraded == To8(To7(To5(To4(To3(To2(Store))))))

-----------------------------------------------------------------------------
(* The constructor                                                         *)

NewStore == found.version = 0 /\ ~found.tables
Older == found.version < Current /\ ~NewStore

\* A newer schema is refused before anything is written.
OpenStore ==
    /\ opening = "closed" /\ marked <= Current
    /\ found' = [version |-> marked, tables |-> "events" \in layout,
                 named |-> FilesNamed(eventRows)]
    /\ opening' = "tables"
    /\ UNCHANGED <<marked, layout, contentVars, mishaps>>

Continues(at) ==
    /\ opening' = at /\ UNCHANGED <<marked, found, mishaps>>

\* DDL, one statement at a time: tables that are there stay as they are.
CreateTables ==
    /\ opening = "tables"
    /\ IF "sessions" \notin layout
       THEN /\ layout' = layout \cup {"sessions"} /\ Continues("tables")
       ELSE /\ layout' = layout \cup
                 (IF "events" \in layout THEN {"events"} ELSE {"events", "versions"}) \cup
                 (IF {"byLocation", "byEvent"} \cap layout = {} THEN {"byEvent"} ELSE {})
            /\ Continues(IF NewStore THEN "sync" ELSE "column")
    /\ UNCHANGED contentVars

\* A new store gets the rest statement by statement, outside a transaction.
CreateRest ==
    /\ \/ /\ opening = "sync" /\ layout' = layout \cup {"sync"}
          /\ Continues("samples") /\ UNCHANGED usageLedger
       \/ /\ opening = "samples" /\ layout' = layout \cup {"samples"}
          /\ Continues("models") /\ UNCHANGED usageLedger
       \/ /\ opening = "models" /\ layout' = layout \cup {"readModels"}
          /\ Continues("emptied") /\ UNCHANGED usageLedger
       \/ /\ opening = "emptied" /\ layout' = layout \ {"backfillState"}
          /\ usageLedger' = [counted |-> {}, complete |-> FALSE] /\ Continues("state")
       \/ /\ opening = "state" /\ layout' = layout \cup {"backfillState"}
          /\ usageLedger' = [usageLedger EXCEPT !.complete = eventRows = <<>>]
          /\ Continues("column")
    /\ UNCHANGED <<eventRows, checkpointRows, derived, cursors, jobs>>

AddColumn ==
    /\ opening = "column" /\ layout' = layout \cup {"versions"}
    /\ Continues(IF Older THEN "migrate" ELSE "mark")
    /\ UNCHANGED contentVars

\* All migrations are one transaction.
Migrate ==
    /\ opening = "migrate"
    /\ layout' = Upgraded.layout /\ derived' = Upgraded.derived /\ jobs' = Upgraded.jobs
    /\ eventRows' = Upgraded.eventRows /\ checkpointRows' = Upgraded.checkpointRows
    /\ usageLedger' = Upgraded.usageLedger
    /\ Continues("mark")
    /\ UNCHANGED cursors

MigrationFails ==
    /\ opening = "migrate" /\ mishaps < MaxMishaps
    /\ mishaps' = mishaps + 1 /\ opening' = "closed"
    /\ UNCHANGED <<marked, layout, contentVars, found>>

MarkVersion ==
    /\ opening = "mark" /\ marked' = Current /\ opening' = "open"
    /\ UNCHANGED <<layout, contentVars, found, mishaps>>

CrashWhileOpening ==
    /\ opening \notin {"closed", "open"} /\ mishaps < MaxMishaps
    /\ mishaps' = mishaps + 1 /\ opening' = "closed"
    /\ UNCHANGED <<marked, layout, contentVars, found>>

-----------------------------------------------------------------------------
(* The daemon                                                              *)

\* insertEvents: a row is counted in the ledger as it is stored.
Record ==
    /\ opening = "open" /\ Len(eventRows) < MaxStoredRows
    /\ \E f \in Files :
         /\ eventRows' = Append(eventRows,
                               Row(3 + Len(eventRows), FALSE, FALSE, "canonical", TRUE, f))
         /\ cursors' = cursors \cup {f}
    /\ derived' = Append(derived, [of |-> eventRows'[Len(eventRows')], versioned |-> TRUE])
    /\ usageLedger' = [usageLedger EXCEPT !.counted = @ \cup {Len(eventRows')}]
    /\ UNCHANGED <<marked, layout, checkpointRows, jobs, opening, found, mishaps>>

\* load: changes without a version are written again; a checkpoint is saved.
Replay ==
    /\ opening = "open"
    /\ derived' = [p \in DOMAIN eventRows |-> IF derived[p].versioned THEN derived[p]
                                          ELSE [of |-> eventRows[p], versioned |-> TRUE]]
    /\ checkpointRows' = eventRows
    /\ UNCHANGED <<marked, layout, eventRows, cursors, jobs, usageLedger, opening, found, mishaps>>

\* advanceUsageBackfill, to its end.
Backfill ==
    /\ opening = "open" /\ ~usageLedger.complete
    /\ usageLedger' = [counted |-> DOMAIN eventRows, complete |-> TRUE]
    /\ UNCHANGED <<marked, layout, eventRows, checkpointRows, derived, cursors, jobs, opening, found,
                   mishaps>>

ShutStore ==
    /\ opening = "open" /\ mishaps < MaxMishaps
    /\ opening' = "closed" /\ mishaps' = mishaps + 1
    /\ UNCHANGED <<marked, layout, contentVars, found>>

UpgradeNext ==
    \/ OpenStore \/ CreateTables \/ CreateRest \/ AddColumn \/ Migrate \/ MigrationFails
    \/ MarkVersion \/ CrashWhileOpening
    \/ Record \/ Replay \/ Backfill \/ ShutStore

UpgradeSpec == UpgradeInit /\ [][UpgradeNext]_upgradeVars

-----------------------------------------------------------------------------
(* Properties                                                              *)

\* A store that says it has the current schema has all of it: every table and
\* column, and a ledger that counts every row once it says it is complete.
LaidOut ==
    marked = Current =>
      /\ CurrentLayout \subseteq layout /\ "byLocation" \notin layout
      /\ usageLedger.complete => usageLedger.counted = DOMAIN eventRows

\* Its rows satisfy the event contract, and no two have the same id.
RowsAreSound ==
    marked = Current =>
      /\ \A p \in DOMAIN eventRows : eventRows[p].valid /\ eventRows[p].ts \notin {"none", "loose"}
      /\ \A p, q \in DOMAIN eventRows : p # q => Id(p) # Id(q)

\* Nothing in it was derived from a row as it was before a migration rewrote it,
\* unless it will be derived again; and the files that rows name are read again
\* after the upgrade that rewrote others (migrateToSchema2, 4 and 5).
DerivedAnew ==
    /\ marked = Current =>
         /\ checkpointRows = SubSeq(eventRows, 1, Len(checkpointRows))
         /\ \A p \in DOMAIN eventRows : derived[p].versioned => derived[p].of = eventRows[p]
    /\ opening = "mark" /\ found.version < 5 => FilesNamed(eventRows) \subseteq jobs

UpgradeIsComplete == LaidOut /\ RowsAreSound /\ DerivedAnew

\* A file whose rows are quarantined is read again: not so where schema 3 had
\* read it to its end, for then nothing names it any more.
QuarantinedAreReadAgain ==
    opening = "mark" /\ found.version < 5 => found.named \cap cursors \subseteq jobs
=============================================================================
