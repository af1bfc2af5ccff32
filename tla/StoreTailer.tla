---------------------------- MODULE StoreTailer ----------------------------
(***************************************************************************)
(* Reading a provider whose record is a database: the store tailer polls   *)
(* it in rounds, and the source it calls reads the rows of one session     *)
(* after a cursor.  Rows change in place until they are final, are taken   *)
(* back by a revert, and the whole database may be replaced.               *)
(*                                                                         *)
(* A round runs without a pause from the read to the cursor; between two   *)
(* rounds everyone else may act.  A position of the code is one less.      *)
(***************************************************************************)
EXTENDS Naturals, FiniteSets

CONSTANTS
    MaxSequence,   \* bound on what the provider commits to one database
    MaxRemovals,   \* bound on its reverts and replaced databases
    RowBudget,     \* rows one round reads
    MaxRounds,     \* MAX_ROUNDS_PER_TICK
    MaxFaults,     \* bound on pauses, crashes and failed writes
    NumbersRepeat  \* whether a new database uses sequence numbers of the old

ASSUME StoreTailerAssumption ==
    /\ {MaxSequence, MaxRemovals, MaxFaults} \subseteq Nat
    /\ {RowBudget, MaxRounds} \subseteq Nat \ {0}
    /\ NumbersRepeat \in BOOLEAN

VARIABLES
    row,        \* row[s]: the message with sequence number s, by its kind
    sequence,   \* the last number of the session (event_sequence)
    identity,   \* the database file
    removals,
    cursor,     \* tracked.cursors: identity, position and count
    saved,      \* the cursor in the sources table
    remembered, \* what the source remembers of its last read
    signature,  \* tracked.signature
    poll,       \* the poll under way, or NoPoll
    job,        \* the re-ingest job of the store
    queue,      \* events accepted and not yet durable
    recorded,   \* events durable
    owed,       \* history: what the job had to read, has not read and could
    faults

providerVars == <<row, sequence, identity, removals>>
readerVars == <<cursor, saved, remembered, signature, poll, job, queue, recorded>>
storeVars == <<providerVars, readerVars, owed, faults>>

None == [position |-> 0]
NoPoll == [rounds |-> 0]
Numbers == 1 .. MaxSequence
Rows == {s \in Numbers : row[s] # "none"}

-----------------------------------------------------------------------------
(* The provider                                                            *)

\* isFinalRow, turnBoundaryAfter: a step not final waits until a later turn
\* begins.
Open(s) ==
    /\ row[s] \in {"running", "left"}
    /\ ~ \E t \in Rows : t > s /\ row[t] = "user"

\* A running step shows its tools; the rest of it when it is final.
Shows(s) ==
    CASE row[s] = "user" -> {"end"}
      [] row[s] = "running" -> {"tool"}
      [] row[s] = "left" -> {}
      [] row[s] = "final" -> {"tool", "end"}

EventsOf(rows) == UNION {{<<identity, s>>} \X Shows(s) : s \in rows}

\* What can be read: rows up to a step that is still running, and its tools.
Readable == EventsOf({s \in Rows : \A t \in Rows : t < s => ~Open(t)})
Settled == Readable \ EventsOf({s \in Rows : row[s] = "running"})

\* A revert may leave rows waiting behind a step that was left open: they are
\* read when that step is passed, and no job owes them.
Commit(next, s, i) ==
    /\ row' = next /\ sequence' = s /\ identity' = i
    /\ owed' = owed \cap Settled'
    /\ UNCHANGED <<readerVars, faults>>

\* A row takes the next number and keeps it.  A step that runs when the next
\* turn begins is left as it is, for good.
Add(kind) ==
    /\ sequence < MaxSequence
    /\ kind = "running" =>
         (\E s \in Rows : row[s] = "user") /\ ~ \E s \in Rows : row[s] = "running"
    /\ Commit([s \in Numbers |-> IF s = sequence + 1 THEN kind
                                 ELSE IF kind = "user" /\ row[s] = "running" THEN "left"
                                 ELSE row[s]],
              sequence + 1, identity)
    /\ UNCHANGED removals

EndStep(s) ==
    /\ sequence < MaxSequence
    /\ row[s] = "running"
    /\ Commit([row EXCEPT ![s] = "final"], sequence + 1, identity)
    /\ UNCHANGED removals

Revert(s) ==
    /\ sequence < MaxSequence /\ removals < MaxRemovals
    /\ row[s] = "user"
    /\ removals' = removals + 1
    /\ Commit([t \in Numbers |-> IF t >= s THEN "none" ELSE row[t]], sequence + 1, identity)

Replace ==
    /\ removals < MaxRemovals
    /\ removals' = removals + 1
    /\ Commit([s \in Numbers |-> "none"], IF NumbersRepeat THEN 0 ELSE sequence, identity + 1)

-----------------------------------------------------------------------------
(* The source: poll of one session                                         *)

Last(rows) == CHOOSE s \in rows \cup {0} : \A t \in rows : t <= s
Through(position) == {s \in Rows : s <= position}

\* Where to read on: a replaced database is read from the start, and what a
\* revert removed is not counted any more.
From(c) ==
    IF c = None \/ c.identity # identity
    THEN [identity |-> identity, position |-> 0, count |-> 0]
    ELSE LET remaining == Cardinality(Through(c.position)) IN
         IF remaining < c.count
         THEN [identity |-> identity, position |-> Last(Through(c.position)),
               count |-> remaining]
         ELSE c

\* Mutant: what was read is not read again, stored or not.
UnchangedMutant == remembered # None /\ remembered.sequence = sequence

\* The session is passed over.
Unchanged ==
    /\ cursor # None /\ remembered # None /\ cursor.identity = identity
    /\ remembered = [sequence |-> sequence, position |-> cursor.position, count |-> cursor.count]

\* The rows within the budget, and those before the first open step.
Ahead(c) == {s \in Rows : /\ s > c.position
                          /\ Cardinality({t \in Rows : t > c.position /\ t <= s}) <= RowBudget}
Taken(c) == {s \in Ahead(c) : \A t \in Ahead(c) : t <= s => ~Open(t)}
Exhausted(c) == Cardinality(Taken(c)) = RowBudget

After(c) == [c EXCEPT !.position = Last(Taken(c) \cup {@}),
                      !.count = @ + Cardinality(Taken(c))]

\* With the tools of the open step that ends what is taken.
Read(c) == EventsOf(Taken(c)) \cup
           EventsOf({s \in Ahead(c) : Open(s) /\ \A t \in Ahead(c) : t < s => ~Open(t)})

-----------------------------------------------------------------------------
(* The tailer                                                              *)

Signature == <<identity, sequence>>
Pending == job \in {"queued", "running", "failed"}

\* forget: in memory only.
Forgotten(c) == IF c = None THEN c ELSE [c EXCEPT !.position = 0, !.count = 0]

StartPoll ==
    /\ poll = NoPoll
    /\ Pending \/ signature # Signature
    /\ poll' = [rounds |-> 1, signature |-> Signature, complete |-> TRUE, job |-> Pending]
    /\ IF Pending
       THEN /\ job' = "running"
            /\ cursor' = Forgotten(cursor)
            /\ signature' = <<>>
            /\ owed' = Settled
       ELSE UNCHANGED <<job, cursor, signature, owed>>
    /\ UNCHANGED <<providerVars, saved, remembered, queue, recorded, faults>>

EndPoll(complete) ==
    /\ poll' = NoPoll
    /\ signature' = IF complete THEN poll.signature ELSE signature
    /\ job' = IF ~poll.job THEN job ELSE IF complete THEN "completed" ELSE "failed"

Continue(complete, more) ==
    IF more
    THEN /\ poll' = [poll EXCEPT !.rounds = @ + 1, !.complete = complete]
         /\ UNCHANGED <<signature, job>>
    ELSE EndPoll(complete)

\* A poll that throws is tried again later; its job stays started.
Abort == poll' = NoPoll /\ UNCHANGED <<signature, job>>

Reading == poll # NoPoll /\ poll.rounds <= MaxRounds

PassOver ==
    /\ Reading /\ Unchanged
    /\ EndPoll(poll.complete)
    /\ UNCHANGED <<providerVars, cursor, saved, remembered, queue, recorded, owed, faults>>

Fault == faults < MaxFaults /\ faults' = faults + 1

\* Mutant: the cursor moves although the flush failed.
MovedMutant(flushed, c) == cursor' = c /\ saved' = c

Moved(flushed, c) ==
    IF flushed THEN cursor' = c /\ saved' = c ELSE UNCHANGED <<cursor, saved>>

\* The source remembers a session that it read to the end.
Remember(from) ==
    remembered' = IF Exhausted(from) THEN remembered
            ELSE [sequence |-> sequence, position |-> After(from).position,
                  count |-> After(from).count]

\* poll, ingest, flush, upsertSource.
Round ==
    /\ Reading /\ ~Unchanged
    /\ LET from == From(cursor)
           accepted == queue \cup (Read(from) \ recorded)
       IN  /\ Remember(from)
           /\ owed' = owed \ Read(from)
           /\ \/ /\ recorded' = recorded \cup accepted /\ queue' = {}
                 /\ Moved(TRUE, After(from))
                 /\ Continue(poll.complete, Exhausted(from))
                 /\ UNCHANGED faults
              \/ /\ Fault
                 /\ queue' = accepted /\ UNCHANGED recorded
                 /\ Moved(FALSE, After(from))
                 /\ Continue(FALSE, Exhausted(from))
              \/ /\ Fault
                 /\ recorded' = recorded \cup accepted /\ queue' = {}
                 /\ Abort /\ UNCHANGED <<cursor, saved>>
              \/ /\ Fault
                 /\ Abort /\ UNCHANGED <<cursor, saved, queue, recorded>>
    /\ UNCHANGED <<providerVars>>

\* Collection was paused or the daemon stops, or the rounds of this tick are
\* used up.
BreakOff ==
    /\ poll # NoPoll
    /\ Fault \/ (poll.rounds > MaxRounds /\ UNCHANGED faults)
    /\ EndPoll(FALSE)
    /\ UNCHANGED <<providerVars, cursor, saved, remembered, queue, recorded, owed>>

\* The retry timer of the registry.
FlushQueue ==
    /\ queue # {}
    /\ recorded' = recorded \cup queue /\ queue' = {}
    /\ UNCHANGED <<providerVars, cursor, saved, remembered, signature, poll, job, owed, faults>>

\* trackedFor: after a restart the cursors are those of the table.
CrashTailer ==
    /\ Fault
    /\ cursor' = saved
    /\ remembered' = None /\ signature' = <<>> /\ poll' = NoPoll
    /\ queue' = {}
    /\ UNCHANGED <<providerVars, saved, job, recorded, owed>>

-----------------------------------------------------------------------------
StoreInit ==
    /\ row = [s \in Numbers |-> "none"] /\ sequence = 0
    /\ identity = 1 /\ removals = 0
    /\ cursor = None /\ saved = None /\ remembered = None
    /\ signature = <<>> /\ poll = NoPoll
    /\ job \in {"none", "queued"}
    /\ queue = {} /\ recorded = {} /\ owed = {}
    /\ faults = 0

Poll == StartPoll \/ PassOver \/ Round \/ BreakOff

StoreNext ==
    \/ \E kind \in {"user", "running"} : Add(kind)
    \/ \E s \in Numbers : EndStep(s) \/ Revert(s)
    \/ Replace
    \/ Poll \/ FlushQueue
    \/ CrashTailer

StoreSpec == StoreInit /\ [][StoreNext]_storeVars

\* The poll timer comes round, its rounds follow each other, a failed flush
\* is tried again.
StoreFairSpec ==
    /\ StoreSpec
    /\ WF_storeVars(Poll) /\ WF_storeVars(FlushQueue)

-----------------------------------------------------------------------------
(* Properties                                                              *)

\* "The cursor is the recovery boundary": every row that the stored cursor
\* is past is recorded, or was never finished (pollProvider).
StoreCursorCovers ==
    saved # None /\ saved.identity = identity =>
        EventsOf(Through(saved.position)) \subseteq recorded

\* Nothing is passed over: not by the cursor, and not by a job.  A re-ingest
\* job that completed read again every row that was final when it last began,
\* is still there and was not made to wait, whatever came between two rounds.
NothingPassedOver ==
    StoreCursorCovers /\ (job = "completed" => owed \cap EventsOf(Rows) = {})

\* Once the provider is silent, every row that is final and waits for no
\* other is recorded, after failed writes, crashes, reverts and a replaced
\* database (createOpenCodeStoreSource: "a batch the daemon failed to persist
\* is read again").
RowsArrive == <>[](Settled \subseteq recorded)

\* Likewise the tools of the step that is running.
ToolsArrive == <>[](Readable \subseteq recorded)
=============================================================================
