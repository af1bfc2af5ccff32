---------------------------- MODULE HistoryWarmup ----------------------------
(* After an upgrade of the reducer every checkpoint is out of date, and with *)
(* it the log of changes derived from a session's events.  The warm-up       *)
(* replays stored sessions in slices, between which anything else may run;   *)
(* a session someone opens meanwhile is replayed by that open.               *)
EXTENDS Naturals, FiniteSets

CONSTANTS
    Archive,       \* the sessions
    MaxSeq,        \* bound: events of one session
    MaxVersion,    \* bound: reducer versions, each newer than the last
    MaxFailures,   \* bound: writes that fail
    MaxHolds,     \* bound: pauses of the warm-up
    Downgrades     \* may an older reducer be started again?

Versions == 1 .. MaxVersion
Positions == 1 .. MaxSeq

ASSUME WarmupAssumption ==
    /\ IsFiniteSet(Archive)
    /\ MaxSeq \in Nat \ {0} /\ MaxVersion \in Nat \ {0}
    /\ MaxFailures \in Nat /\ MaxHolds \in Nat /\ Downgrades \in BOOLEAN

VARIABLES
    version,       \* the reducer of the running daemon
    length,        \* length[s]: events of s in the store
    changeLog,     \* changeLog[s][n]: the reducer that derived event n's rows, 0: no rows
    kept,          \* kept[s][v]: the newest checkpoint of reducer v, 0: none
    tombstoned,    \* sessions removed for good
    open,          \* open[s]: the coordinator of s
    work,          \* the session being replayed, and how far
    skipped,       \* sessions whose replay failed
    pausedNow,     \* maintenance or a collection pause
    spent          \* failures and pauses so far

warmupVars == <<version, length, changeLog, kept, tombstoned, open, work,
                skipped, pausedNow, spent>>

Closed == [loaded |-> FALSE, at |-> 0, mark |-> 0]
Idle == [session |-> "none", cursor |-> 0, yielded |-> FALSE]
NoRows == [n \in Positions |-> 0]
NoneKept == [v \in Versions |-> 0]

IsLive(s) == open[s].loaded

\* The log of changes as reducer v derives it from the first n events.
Derived(n, v) == [i \in Positions |-> IF i <= n THEN v ELSE 0]

Stale(s) == \E n \in Positions : changeLog[s][n] \notin {0, version}

\* A checkpoint replaces those of every other reducer.
WriteCheckpoint(s, n) == [NoneKept EXCEPT ![version] = n]

NeedsReplay(s) == length[s] > 0 /\ kept[s][version] = 0

WriteFails == spent.failures < MaxFailures /\ spent' = [spent EXCEPT !.failures = @ + 1]

-----------------------------------------------------------------------------
\* The warm-up.

Pick(s) ==
    /\ work = Idle /\ ~pausedNow
    /\ NeedsReplay(s) /\ s \notin skipped /\ ~IsLive(s)
    /\ work' = [session |-> s, cursor |-> 0, yielded |-> FALSE]
    /\ UNCHANGED <<version, length, changeLog, kept, tombstoned, open, skipped,
                   pausedNow, spent>>

\* Looked at again after every yield.
LeavesAlone == work.yielded /\ (pausedNow \/ IsLive(work.session))

GiveUp ==
    /\ work # Idle /\ LeavesAlone
    /\ work' = Idle
    /\ UNCHANGED <<version, length, changeLog, kept, tombstoned, open, skipped,
                   pausedNow, spent>>

Slice ==
    /\ work # Idle /\ ~LeavesAlone
    /\ \E n \in work.cursor + 1 .. length[work.session] :
         work' = [work EXCEPT !.cursor = n, !.yielded = TRUE]
    /\ UNCHANGED <<version, length, changeLog, kept, tombstoned, open, skipped,
                   pausedNow, spent>>

\* How far the replay is when a page comes back empty.
ReplayedTo ==
    IF length[work.session] > work.cursor THEN length[work.session] ELSE work.cursor

\* Mutant: only an empty replay is not stored.
StoresMutant == ~IsLive(work.session) /\ ReplayedTo > 0

\* A removed session's log no longer ends where the replay does.
Stores ==
    /\ ~IsLive(work.session)
    /\ length[work.session] = ReplayedTo
    /\ ReplayedTo > 0

\* The end of the log, and the write, in one turn of the event loop.
Conclude ==
    /\ work # Idle /\ ~LeavesAlone
    /\ work' = Idle
    /\ \/ /\ Stores
          /\ changeLog' = [changeLog EXCEPT ![work.session] = Derived(ReplayedTo, version)]
          /\ kept' = [kept EXCEPT ![work.session] = WriteCheckpoint(work.session, ReplayedTo)]
          /\ UNCHANGED <<skipped, spent>>
       \/ /\ ~Stores
          /\ UNCHANGED <<changeLog, kept, skipped, spent>>
       \/ /\ Stores /\ WriteFails
          /\ skipped' = skipped \cup {work.session}
          /\ UNCHANGED <<changeLog, kept>>
    /\ UNCHANGED <<version, length, tombstoned, open, pausedNow>>

-----------------------------------------------------------------------------
\* The coordinator of a session, where it touches the same rows.

Rewriting(s) == kept[s][version] = 0 /\ Stale(s)

\* A load replays what no checkpoint covers; it rewrites the changes in one
\* transaction and saves the checkpoint in another, either of which may throw.
OpenSession(s) ==
    /\ ~IsLive(s) /\ s \notin tombstoned
    /\ LET cold    == kept[s][version] = 0 /\ length[s] > 0
           written == IF Rewriting(s)
                        THEN [changeLog EXCEPT ![s] = Derived(length[s], version)]
                        ELSE changeLog
           marked  == IF cold
                        THEN [kept EXCEPT ![s] = WriteCheckpoint(s, length[s])] ELSE kept
       IN  \/ /\ changeLog' = written /\ kept' = marked
              /\ open' = [open EXCEPT ![s] = [loaded |-> TRUE, at |-> length[s],
                                              mark |-> marked[s][version]]]
              /\ UNCHANGED spent
           \/ /\ Rewriting(s) /\ WriteFails
              /\ UNCHANGED <<changeLog, kept, open>>
           \/ /\ cold /\ WriteFails
              /\ changeLog' = written
              /\ UNCHANGED <<kept, open>>
    /\ UNCHANGED <<version, length, tombstoned, work, skipped, pausedNow>>

IngestEvent(s) ==
    /\ IsLive(s) /\ open[s].at < MaxSeq
    /\ open' = [open EXCEPT ![s].at = @ + 1]
    /\ UNCHANGED <<version, length, changeLog, kept, tombstoned, work, skipped,
                   pausedNow, spent>>

\* Queued events and their changes, in one transaction; rows already there stay.
WithFlushed(s) == [i \in Positions |->
    IF changeLog[s][i] = 0 /\ i > length[s] /\ i <= open[s].at THEN version
                                                               ELSE changeLog[s][i]]

FlushSession(s) ==
    /\ IsLive(s) /\ open[s].at > length[s]
    /\ length' = [length EXCEPT ![s] = open[s].at]
    /\ changeLog' = [changeLog EXCEPT ![s] = WithFlushed(s)]
    /\ UNCHANGED <<version, kept, tombstoned, open, work, skipped, pausedNow, spent>>

\* After a threshold of events, and when the coordinator closes.
SaveCheckpoint(s, closes) ==
    /\ IsLive(s)
    /\ \/ /\ length' = [length EXCEPT ![s] = open[s].at]
          /\ changeLog' = [changeLog EXCEPT ![s] = WithFlushed(s)]
          /\ kept' = IF open[s].at > open[s].mark
                       THEN [kept EXCEPT ![s] = WriteCheckpoint(s, open[s].at)] ELSE kept
          /\ UNCHANGED spent
       \/ WriteFails /\ UNCHANGED <<length, changeLog, kept>>
    /\ open' = [open EXCEPT ![s] = IF closes THEN Closed
                                   ELSE [@ EXCEPT !.mark = kept'[s][version]]]
    /\ UNCHANGED <<version, tombstoned, work, skipped, pausedNow>>

\* Forgotten, or past the retention period: the coordinator is closed first.
RemoveSession(s) ==
    /\ length[s] > 0
    /\ open' = [open EXCEPT ![s] = Closed]
    /\ length' = [length EXCEPT ![s] = 0]
    /\ changeLog' = [changeLog EXCEPT ![s] = NoRows]
    /\ kept' = [kept EXCEPT ![s] = NoneKept]
    /\ tombstoned' = tombstoned \cup {s}
    /\ UNCHANGED <<version, work, skipped, pausedNow, spent>>

PauseWork ==
    /\ IF pausedNow THEN UNCHANGED spent
       ELSE spent.pauses < MaxHolds /\ spent' = [spent EXCEPT !.pauses = @ + 1]
    /\ pausedNow' = ~pausedNow
    /\ UNCHANGED <<version, length, changeLog, kept, tombstoned, open, work, skipped>>

\* The daemon stops or dies, and one with another reducer starts.
Upgrade ==
    /\ \E v \in Versions : (IF Downgrades THEN v # version ELSE v > version) /\ version' = v
    /\ open' = [s \in Archive |-> Closed]
    /\ work' = Idle /\ skipped' = {} /\ pausedNow' = FALSE
    /\ UNCHANGED <<length, changeLog, kept, tombstoned, spent>>

-----------------------------------------------------------------------------
WarmupInit ==
    /\ version = 1
    /\ length = [s \in Archive |-> 0]
    /\ changeLog = [s \in Archive |-> NoRows]
    /\ kept = [s \in Archive |-> NoneKept]
    /\ tombstoned = {} /\ skipped = {}
    /\ open = [s \in Archive |-> Closed]
    /\ work = Idle /\ pausedNow = FALSE
    /\ spent = [failures |-> 0, pauses |-> 0]

WarmupNext ==
    \/ GiveUp \/ Slice \/ Conclude \/ PauseWork \/ Upgrade
    \/ \E s \in Archive :
         \/ Pick(s) \/ OpenSession(s) \/ IngestEvent(s) \/ FlushSession(s)
         \/ SaveCheckpoint(s, TRUE) \/ SaveCheckpoint(s, FALSE) \/ RemoveSession(s)

WarmupSpec == WarmupInit /\ [][WarmupNext]_warmupVars

-----------------------------------------------------------------------------
\* A session that has a checkpoint of the running reducer is done for good: no
\* load replays it again.  So the checkpoint reaches no further than the log,
\* and the whole log of changes is this reducer's, one set of rows an event
\* (sessionCoordinator.ts 254-265; historyWarmup.ts 51-54 "a session that has
\* a checkpoint at the current version is done").
ReplayIsCurrent ==
    \A s \in Archive : kept[s][version] # 0 =>
        /\ kept[s][version] <= length[s]
        /\ changeLog[s] = Derived(length[s], version)
=============================================================================
