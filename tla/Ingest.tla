------------------------------- MODULE Ingest -------------------------------
(***************************************************************************)
(* How a provider's records reach the session log: TranscriptTailer reads  *)
(* session files as they grow and keeps a durable cursor per file, and the *)
(* hook endpoint answers the relay only when the event is durable.  Both   *)
(* write through the session log of module SessionLog.                     *)
(*                                                                         *)
(* A record is written in two halves, so a read can end inside one: record *)
(* j of a file ends at offset 2j.                                          *)
(***************************************************************************)
EXTENDS SessionLog

CONSTANTS
    Files,        \* paths of provider session files
    Hooks,        \* hook channels
    SessionOf,    \* SessionOf[c]: the session channel c belongs to
    JobFiles,     \* files with a queued re-ingest job at the start
    MaxRecords,   \* bound: records per file
    MaxFired,     \* bound: events per hook channel
    MaxRotations, \* bound: times a file is replaced by another inode
    MaxRestarts,  \* bound: times the daemon restarts
    MaxForgets,   \* bound: Forget requests
    MaxPauses     \* bound: times collection is paused

Channels == Files \cup Hooks

ASSUME IngestAssumption ==
    /\ MaxRecords \in Nat /\ MaxFired \in Nat /\ MaxRotations \in Nat
    /\ MaxRestarts \in Nat /\ MaxForgets \in Nat /\ MaxPauses \in Nat
    /\ Files \cap Hooks = {}
    /\ SessionOf \in [Channels -> Sessions]
    /\ JobFiles \subseteq Files
    /\ Events = (Files \X (1 .. MaxRecords)) \cup (Hooks \X (1 .. MaxFired))

VARIABLES
    file,     \* file[f]: inode, number of the first record, records, half a record
    src,      \* src[f]: the tailer's TrackedSource
    rd,       \* rd[f]: the read in progress, with the file as fstat saw it
    cursor,   \* cursor[f]: the row of table sources
    job,      \* job[f]: the re-ingest job of f
    tried,    \* files whose job this start of the daemon has taken up
    hook,     \* hook[h]: events the provider fired, events the relay was told are durable
    paused,   \* the collection pause marker exists
    stopping, \* the daemon is stopping
    budget,   \* what is left of the bounds
    covered,  \* history: records a durable cursor has passed
    torn      \* history: events taken from a parser that missed earlier bytes

tailerVars == <<src, rd, tried>>
ingestVars == <<file, src, rd, cursor, job, tried, hook, paused, stopping,
                budget, covered, torn>>
vars == <<co, orphans, rows, cp, sess, tomb, file, src, rd, cursor, job,
          tried, hook, paused, stopping, budget, covered, torn>>

Running == ~paused /\ ~stopping

-----------------------------------------------------------------------------
(* Files, as bytes                                                         *)

Half(content) == IF content.half THEN 1 ELSE 0
Size(content) == 2 * content.n + Half(content)

\* The records whose last byte lies after offset a and not after b.
RecordsIn(f, content, a, b) ==
    {<<f, content.first + j - 1>> : j \in {k \in 1 .. content.n : a < 2 * k /\ 2 * k <= b}}

\* The provider starts and ends a record.
StartRecord(f) ==
    /\ ~file[f].half
    /\ file[f].first + file[f].n <= MaxRecords
    /\ file' = [file EXCEPT ![f].half = TRUE]
    /\ UNCHANGED <<sessionVars, src, rd, cursor, job, tried, hook, paused,
                   stopping, budget, covered, torn>>

EndRecord(f) ==
    /\ file[f].half
    /\ file' = [file EXCEPT ![f].half = FALSE, ![f].n = @ + 1]
    /\ UNCHANGED <<sessionVars, src, rd, cursor, job, tried, hook, paused,
                   stopping, budget, covered, torn>>

\* The file is replaced: another inode, some of the oldest records gone.
Rotate(f) ==
    /\ budget.rotations > 0
    /\ \E drop \in 0 .. file[f].n :
         file' = [file EXCEPT ![f].ino = @ + 1, ![f].first = @ + drop,
                              ![f].n = @ - drop]
    /\ budget' = [budget EXCEPT !.rotations = @ - 1]
    /\ UNCHANGED <<sessionVars, src, rd, cursor, job, tried, hook, paused,
                   stopping, covered, torn>>

-----------------------------------------------------------------------------
(* TranscriptTailer                                                        *)

NoSource == [tracked |-> FALSE, off |-> 0, ino |-> 0, base |-> 0,
             synced |-> FALSE, dirty |-> FALSE]
NotReading == [busy |-> FALSE, job |-> FALSE, complete |-> TRUE,
               snap |-> [ino |-> 0, first |-> 1, n |-> 0, half |-> FALSE]]
NoCursor == [ino |-> 0, off |-> 0]

\* The durable cursor says this very file was read to its end.
AlreadyIngested(f) ==
    /\ cursor[f].off > 0
    /\ cursor[f].ino = file[f].ino
    /\ cursor[f].off = Size(file[f])

\* Mutant: a file skipped as already ingested counts as parsed.
TrackedMutant(f, force) ==
    LET at == IF AlreadyIngested(f) /\ ~force THEN cursor[f].off ELSE 0
    IN IF src[f].tracked /\ ~force THEN src[f]
       ELSE [tracked |-> TRUE, off |-> at, ino |-> cursor[f].ino, base |-> at,
             synced |-> TRUE, dirty |-> FALSE]

\* ensureTracked: base is the offset the source's parser was created at.
Tracked(f, force) ==
    LET at == IF AlreadyIngested(f) /\ ~force THEN cursor[f].off ELSE 0
    IN IF src[f].tracked /\ ~force THEN src[f]
       ELSE [tracked |-> TRUE, off |-> at, ino |-> cursor[f].ino, base |-> at,
             synced |-> ~AlreadyIngested(f) \/ force, dirty |-> FALSE]

FromStart(s) == [s EXCEPT !.off = 0, !.base = 0, !.synced = TRUE]

\* The head of readOnce: a rotated or shrunk file, and a file skipped as
\* already ingested that has grown, are parsed from the start.
Opened(f, s) ==
    LET rotated == (s.ino # 0 /\ s.ino # file[f].ino) \/ Size(file[f]) < s.off
        t == [(IF rotated THEN FromStart(s) ELSE s) EXCEPT
                 !.ino = file[f].ino, !.dirty = FALSE]
    IN IF Size(file[f]) # t.off /\ ~t.synced THEN FromStart(t) ELSE t

\* Mutant: a job is complete when its read returned.
JobDoneMutant(f, isJob, ok) ==
    job' = IF isJob THEN [job EXCEPT ![f] = "completed"] ELSE job

JobDone(f, isJob, ok) ==
    job' = IF isJob
           THEN [job EXCEPT ![f] = IF ok THEN "completed" ELSE "failed"]
           ELSE job

StopReading(f) == rd' = [rd EXCEPT ![f] = NotReading]

\* Open the file and read it, or find nothing new and return.
BeginRead(f, s, isJob, complete) ==
    LET t == Opened(f, s) IN
    /\ src' = [src EXCEPT ![f] = t]
    /\ IF t.off = Size(file[f])
       THEN StopReading(f) /\ JobDone(f, isJob, complete)
       ELSE /\ rd' = [rd EXCEPT ![f] = [busy |-> TRUE, job |-> isJob,
                                       complete |-> complete,
                                       snap |-> file[f]]]
            /\ UNCHANGED job

\* readNow, from a watch event, a hook's transcript path or a scan.
ReadNow(f) ==
    /\ Running
    /\ IF rd[f].busy
       THEN /\ src' = [src EXCEPT ![f].dirty = TRUE]
            /\ UNCHANGED <<rd, job>>
       ELSE BeginRead(f, Tracked(f, FALSE), FALSE, TRUE)
    /\ UNCHANGED <<sessionVars, file, cursor, tried, hook, paused, stopping,
                   budget, covered, torn>>

\* Mutant: the scan skips every file that has a cursor.
ChangedMutant(f) ==
    IF src[f].tracked
    THEN src[f].off # Size(file[f]) \/ src[f].ino # file[f].ino
    ELSE cursor[f] = NoCursor

\* The sweep of tracked files and the scan of the others find f changed.
Changed(f) ==
    IF src[f].tracked
    THEN src[f].off # Size(file[f]) \/ src[f].ino # file[f].ino
    ELSE cursor[f] # [ino |-> file[f].ino, off |-> Size(file[f])]

\* processReingestJobs: each pending job once per start, from byte 0.
StartJob(f) ==
    /\ Running
    /\ job[f] \in {"queued", "running", "failed"}
    /\ f \notin tried
    /\ tried' = tried \cup {f}
    /\ IF rd[f].busy
       THEN job' = [job EXCEPT ![f] = "failed"] /\ UNCHANGED <<src, rd>>
       ELSE LET t == Opened(f, Tracked(f, TRUE)) IN
            /\ src' = [src EXCEPT ![f] = t]
            /\ IF t.off = Size(file[f])
               THEN StopReading(f) /\ JobDone(f, TRUE, TRUE)
               ELSE /\ rd' = [rd EXCEPT ![f] = [busy |-> TRUE, job |-> TRUE,
                                               complete |-> TRUE,
                                               snap |-> file[f]]]
                    /\ job' = [job EXCEPT ![f] = "running"]
    /\ UNCHANGED <<sessionVars, file, cursor, hook, paused, stopping, budget,
                   covered, torn>>

\* Read on to offset p, perhaps inside a record, and ingest what ended.
\* An ingest that throws ends the read with the offset already advanced.
ReadChunk(f) == \E p \in src[f].off + 1 .. Size(rd[f].snap) :
    LET s == SessionOf[f]
        ended == RecordsIn(f, rd[f].snap, src[f].off, p)
        inFileOrder(num) == \A a, b \in DOMAIN num : a[2] < b[2] => num[a] < num[b]
    IN
    /\ rd[f].busy
    /\ Running
    /\ src' = [src EXCEPT ![f].off = p]
    /\ \/ /\ ended = {} \/ tomb[s]
          /\ UNCHANGED <<sessionVars, rd, job, torn>>
       \/ /\ ended # {}
          /\ \E num \in Numberings(Fresh(s, ended), Current(s).next) :
               inFileOrder(num) /\ Accept(s, ended, num, FALSE)
          /\ torn' = IF src[f].base = 0 THEN torn ELSE torn \cup Fresh(s, ended)
          /\ UNCHANGED <<rd, job>>
       \/ /\ ended # {}
          /\ \/ LoadThrows(s)
             \/ \E known \in ended :
                  FingerprintThrows(s, known, {e \in Fresh(s, ended) : e[2] < known[2]})
          /\ StopReading(f)
          /\ JobDone(f, rd[f].job, FALSE)
          /\ UNCHANGED torn
    /\ UNCHANGED <<file, cursor, tried, hook, paused, stopping, budget, covered>>

\* The end of readOnce: the file read or the tailer told to stop, flush the
\* session and then, only then, advance the cursor; read again if poked.
FinishRead(f) ==
    LET s == SessionOf[f]
        whole == src[f].off >= Size(rd[f].snap)
        complete(ok) == rd[f].complete /\ ok /\ whole
    IN
    /\ rd[f].busy
    /\ whole \/ ~Running
    /\ \E ok \in IF co[s].live THEN FlushOutcome(co[s]) ELSE {TRUE} :
       \E wrote \in IF ok THEN Outcome("cursor") ELSE {FALSE} :
         /\ IF co[s].live THEN Persist(s, co[s], ok)
                          ELSE UNCHANGED <<co, rows, sess>>
         /\ IF wrote
            THEN /\ cursor' = [cursor EXCEPT ![f] = [ino |-> src[f].ino,
                                                     off |-> src[f].off]]
                 /\ covered' = covered \cup RecordsIn(f, rd[f].snap, 0, src[f].off)
            ELSE UNCHANGED <<cursor, covered>>
         /\ IF src[f].dirty /\ Running /\ ok = wrote
            THEN BeginRead(f, src[f], rd[f].job, complete(wrote))
            ELSE /\ StopReading(f)
                 /\ JobDone(f, rd[f].job, complete(wrote))
                 /\ UNCHANGED src
    /\ UNCHANGED <<orphans, cp, tomb, file, tried, hook, paused, stopping,
                   budget, torn>>

\* A source idle for an hour is dropped with its parser.
EvictSource(f) ==
    /\ Running
    /\ src[f].tracked
    /\ ~rd[f].busy
    /\ src' = [src EXCEPT ![f] = NoSource]
    /\ UNCHANGED <<sessionVars, file, rd, cursor, job, tried, hook, paused,
                   stopping, budget, covered, torn>>

-----------------------------------------------------------------------------
(* The hook channel                                                        *)

FireHook(h) ==
    /\ hook[h].fired < MaxFired
    /\ ~paused
    /\ hook' = [hook EXCEPT ![h].fired = @ + 1]
    /\ UNCHANGED <<sessionVars, file, src, rd, cursor, job, tried, paused,
                   stopping, budget, covered, torn>>

\* One delivery of a fired event, the first or a repetition: the relay keeps
\* its copy until it is told that the event is durable.
DeliverHook(h) == \E i \in 1 .. hook[h].fired :
    LET s == SessionOf[h] IN
    /\ ~paused
    /\ \/ /\ tomb[s]
          /\ hook' = [hook EXCEPT ![h].acked = @ \cup {<<h, i>>}]
          /\ UNCHANGED sessionVars
       \/ /\ Ingest(s, {<<h, i>>}, TRUE)
          /\ hook' = IF co'[s].pend = {}
                     THEN [hook EXCEPT ![h].acked = @ \cup {<<h, i>>}]
                     ELSE hook
       \/ LoadThrows(s) /\ UNCHANGED hook
    /\ UNCHANGED <<file, src, rd, cursor, job, tried, paused, stopping,
                   budget, covered, torn>>

-----------------------------------------------------------------------------
(* The process                                                             *)

Pause ==
    /\ ~paused /\ budget.pauses > 0
    /\ paused' = TRUE
    /\ budget' = [budget EXCEPT !.pauses = @ - 1]
    /\ UNCHANGED <<sessionVars, file, src, rd, cursor, job, tried, hook,
                   stopping, covered, torn>>

Resume ==
    /\ paused
    /\ paused' = FALSE
    /\ UNCHANGED <<sessionVars, file, src, rd, cursor, job, tried, hook,
                   stopping, budget, covered, torn>>

BeginStop ==
    /\ ~stopping /\ budget.restarts > 0
    /\ stopping' = TRUE
    /\ UNCHANGED <<sessionVars, file, src, rd, cursor, job, tried, hook,
                   paused, budget, covered, torn>>

RestartDaemon ==
    /\ stopping \/ budget.restarts > 0
    /\ Restart
    /\ src' = [f \in Files |-> NoSource]
    /\ rd' = [f \in Files |-> NotReading]
    /\ tried' = {}
    /\ stopping' = FALSE
    /\ budget' = [budget EXCEPT !.restarts = @ - 1]
    /\ UNCHANGED <<file, cursor, job, hook, paused, covered, torn>>

\* A session whose file is being read is not idle.
IdleEvict(s) ==
    /\ \A f \in Files : SessionOf[f] = s => ~rd[f].busy
    /\ Evict(s)

Retention == ApplyRetention /\ UNCHANGED ingestVars

SessionStep(s) == (Background(s) \/ IdleEvict(s)) /\ UNCHANGED ingestVars

\* DELETE /api/sessions/:id
ForgetSession(s) ==
    /\ budget.forgets > 0
    /\ Forget(s)
    /\ budget' = [budget EXCEPT !.forgets = @ - 1]
    /\ UNCHANGED <<file, src, rd, cursor, job, tried, hook, paused, stopping,
                   covered, torn>>

-----------------------------------------------------------------------------
Init ==
    /\ SessionInit
    /\ file = [f \in Files |-> [ino |-> 1, first |-> 1, n |-> 0, half |-> FALSE]]
    /\ src = [f \in Files |-> NoSource]
    /\ rd = [f \in Files |-> NotReading]
    /\ cursor = [f \in Files |-> NoCursor]
    /\ job = [f \in Files |-> IF f \in JobFiles THEN "queued" ELSE "none"]
    /\ tried = {}
    /\ hook = [h \in Hooks |-> [fired |-> 0, acked |-> {}]]
    /\ paused = FALSE
    /\ stopping = FALSE
    /\ budget = [rotations |-> MaxRotations, restarts |-> MaxRestarts,
                 forgets |-> MaxForgets, pauses |-> MaxPauses]
    /\ covered = {}
    /\ torn = {}

FileStep(f) ==
    \/ StartRecord(f)
    \/ EndRecord(f)
    \/ Rotate(f)
    \/ ReadNow(f)
    \/ StartJob(f)
    \/ ReadChunk(f)
    \/ FinishRead(f)
    \/ EvictSource(f)

Next ==
    \/ \E f \in Files : FileStep(f)
    \/ \E h \in Hooks : FireHook(h) \/ DeliverHook(h)
    \/ \E s \in Sessions : SessionStep(s) \/ ForgetSession(s)
    \/ Retention
    \/ Pause
    \/ Resume
    \/ BeginStop
    \/ RestartDaemon

Spec == Init /\ [][Next]_vars

\* The one minute scan and the two second sweep keep running, a read is
\* carried on, a pause expires, a stop ends, and a flush that is retried for
\* ever is not refused for ever.  Watch events promise nothing.
FlushSucceeds(s) ==
    Flush(s) /\ co'[s].pend = {} /\ UNCHANGED ingestVars

Fairness ==
    /\ \A f \in Files : /\ WF_vars(Changed(f) /\ ReadNow(f))
                        /\ WF_vars(ReadChunk(f))
                        /\ WF_vars(FinishRead(f))
    /\ \A s \in Sessions : WF_vars(FlushSucceeds(s))
    /\ WF_vars(Resume)
    /\ WF_vars(stopping /\ RestartDaemon)

FairSpec == Spec /\ Fairness

-----------------------------------------------------------------------------
(* Properties                                                              *)

ContentType == [ino : Nat, first : Nat, n : Nat, half : BOOLEAN]
SourceType == [tracked : BOOLEAN, off : Nat, ino : Nat, base : Nat,
               synced : BOOLEAN, dirty : BOOLEAN]
ReadType == [busy : BOOLEAN, job : BOOLEAN, complete : BOOLEAN, snap : ContentType]
CursorType == [ino : Nat, off : Nat]
JobStatus == {"none", "queued", "running", "completed", "failed"}

IngestTypeOK ==
    /\ file \in [Files -> ContentType]
    /\ src \in [Files -> SourceType]
    /\ rd \in [Files -> ReadType]
    /\ cursor \in [Files -> CursorType]
    /\ job \in [Files -> JobStatus]
    /\ tried \subseteq Files
    /\ hook \in [Hooks -> [fired : 0 .. MaxFired, acked : SUBSET Events]]
    /\ paused \in BOOLEAN /\ stopping \in BOOLEAN
    /\ budget \in [rotations : Int, restarts : Int, forgets : Int, pauses : Int]
    /\ covered \subseteq Events
    /\ torn \subseteq Events

\* Every variable of the session log and of the tailer has its type: no
\* sequence of handlers stores a malformed row, cursor or coordinator.
TypeOK == SessionTypeOK /\ IngestTypeOK

\* The cursor is the recovery boundary: no restart can lose a record that a
\* durable cursor has passed, because the record is in the durable log
\* (TranscriptTailer.readOnce against write-behind, crash and eviction).
CursorCoversDurable ==
    \A e \in covered : LET s == SessionOf[e[1]] IN tomb[s] \/ e \in Ids(rows[s])

\* The relay deletes its copy of a hook event only when the log has it
\* (HookIngress.handle against the write-behind queue).
AckedIsDurable ==
    \A h \in Hooks : tomb[SessionOf[h]] \/ hook[h].acked \subseteq Ids(rows[SessionOf[h]])

\* Records of one file are stored in the order of the file, however often
\* the file is read again from byte 0 and whatever was lost in between.
FileOrder ==
    \A s \in Sessions : \A r, q \in rows[s] :
        (r.id[1] = q.id[1] /\ r.id[1] \in Files /\ r.id[2] < q.id[2]) => r.seq < q.seq

\* No event comes from a parser that missed the beginning of its file: a file
\* skipped as already ingested is parsed again when it grows.
NothingTorn == torn = {}

\* A re-ingest job that is reported complete has made the whole file durable
\* (processReingestJobs against pauses, failed flushes and repeated reads).
JobIsHonest ==
    [][\A f \in Files : (job[f] # "completed" /\ job'[f] = "completed") =>
          LET c == IF rd[f].busy THEN rd[f].snap ELSE file[f] IN
          \/ tomb'[SessionOf[f]]
          \/ RecordsIn(f, c, 0, Size(c)) \subseteq Ids(rows'[SessionOf[f]])]_vars

\* A record that stays in its file reaches the durable log, unless the
\* session is forgotten: scans, sweeps and retries leave nothing behind.
RecordsBecomeDurable ==
    \A f \in Files : \A i \in 1 .. MaxRecords :
        (<<f, i>> \in RecordsIn(f, file[f], 0, Size(file[f]))) ~>
          \/ <<f, i>> \in Ids(rows[SessionOf[f]])
          \/ tomb[SessionOf[f]]
          \/ <<f, i>> \notin RecordsIn(f, file[f], 0, Size(file[f]))
=============================================================================
