------------------------------ MODULE MCDerived ------------------------------
(* What is derived from the log of events, and what the providers' files    *)
(* put into it, for TLC: the state and checkpoints of a live session, the   *)
(* run state folded from two channels, the replay after an upgrade, the     *)
(* accounting of usage, what a report says of its checks, and the events    *)
(* that a rollout, a transcript and the rows of a database are told as.     *)
(* The parts share neither state nor steps here, so a behaviour is one of   *)
(* the part chosen at its start.                                            *)
EXTENDS MCIngest, Reducer, HistoryWarmup, UsageBackfill,
        RolloutParser, RolloutTurns, TranscriptParser, OpencodeMapping,
        SessionReport

CONSTANTS k1, e1, m1, m2, g1

VARIABLE part

\* Both calls are made in the first of two turns.
FirstTurn == [c \in ToolCalls |-> 1]

\* Two old sessions, and between them one that begins after the upgrade.
BeforeUpgrade == << <<m1>>, <<>>, <<m2>> >>

\* The second of three responses is an agent's.
AgentBetween == [r \in 1 .. 3 |-> IF r = 2 THEN "agent" ELSE "main"]

logVars == <<vars, reducerVars, warmupVars, backfillVars, reportVars>>
adapterVars == <<rolloutVars, turnVars, transcriptVars, mappingVars>>
derivedVars == <<part, logVars, adapterVars>>

\* The parts that choose at their start choose once where they take no steps.
Unheard == provider = "codex" /\ \A c \in ToolCalls : verdict[c] = "cut"

DerivedInit ==
    /\ part \in {"ingest", "reducer", "warmup", "backfill", "report",
                 "rollout", "turns", "transcript", "rows"}
    /\ Init /\ ReducerInit /\ WarmupInit /\ BackfillInit /\ ReportInit
    /\ RolloutInit /\ TurnsInit /\ TranscriptInit /\ MappingInit
    /\ part = "reducer" \/ Unheard
    /\ part = "rollout" \/ build = "none"
    /\ part = "turns" \/ turnIds

LogNext ==
    \/ part = "ingest" /\ Next /\ UNCHANGED <<reducerVars, warmupVars, backfillVars, reportVars>>
    \/ part = "reducer" /\ ReducerNext /\ UNCHANGED <<vars, warmupVars, backfillVars, reportVars>>
    \/ part = "warmup" /\ WarmupNext /\ UNCHANGED <<vars, reducerVars, backfillVars, reportVars>>
    \/ part = "backfill" /\ BackfillNext /\ UNCHANGED <<vars, reducerVars, warmupVars, reportVars>>
    \/ part = "report" /\ ReportNext /\ UNCHANGED <<vars, reducerVars, warmupVars, backfillVars>>

AdapterNext ==
    \/ part = "rollout" /\ RolloutNext /\ UNCHANGED <<turnVars, transcriptVars, mappingVars>>
    \/ part = "turns" /\ TurnsNext /\ UNCHANGED <<rolloutVars, transcriptVars, mappingVars>>
    \/ part = "transcript" /\ TranscriptNext /\ UNCHANGED <<rolloutVars, turnVars, mappingVars>>
    \/ part = "rows" /\ MappingNext /\ UNCHANGED <<rolloutVars, turnVars, transcriptVars>>

DerivedNext ==
    /\ UNCHANGED part
    /\ \/ LogNext /\ UNCHANGED adapterVars
       \/ AdapterNext /\ UNCHANGED logVars

DerivedSpec == DerivedInit /\ [][DerivedNext]_derivedVars

\* One part alone.
AloneInit == part = "reducer" /\ DerivedInit
AloneSpec == AloneInit /\ [][DerivedNext]_derivedVars

-----------------------------------------------------------------------------
\* The events that the adapters tell are what the providers recorded: of a
\* command of Codex, of a turn or an agent of Codex, of a transcript of Claude
\* Code, and of a session of OpenCode.
AdaptersTellTheTruth ==
    CompletionIsItsOwn /\ NothingIsMisfiled /\ TranscriptTold /\ RowsAreToldWhole
=============================================================================
