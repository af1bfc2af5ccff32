----------------------------- MODULE SessionLog -----------------------------
(***************************************************************************)
(* One session's events between the daemon's memory and its SQLite store:  *)
(* SessionRegistry (which coordinators are loaded), SessionCoordinator     *)
(* (dedupe, sequence numbers, write-behind, checkpoints) and the tables    *)
(* events, checkpoints, sessions and session_tombstones of SqliteStore.    *)
(*                                                                         *)
(* The event loop runs a handler to completion, so a handler is one        *)
(* action.  A coordinator's state is a fold of the rows it has applied;    *)
(* it is represented by that set of rows.                                  *)
(***************************************************************************)
EXTENDS Integers, FiniteSets, Functions

CONSTANTS
    Sessions,        \* session ids
    Events,          \* event ids a provider can produce
    FlushThreshold,  \* pending events that force a flush (250 in the code)
    FaultyWrites     \* the kinds of store write that may fail (SQLITE_BUSY,
                     \* SQLITE_FULL); a transaction fails as a whole

\* flush: a flush of a loaded coordinator; close: the flush of one being closed.
WriteKinds == {"flush", "close", "checkpoint", "fingerprint", "forget", "cursor"}

ASSUME SessionLogAssumption ==
    /\ FlushThreshold \in Nat \ {0}
    /\ FaultyWrites \subseteq WriteKinds
    /\ IsFiniteSet(Events)

VARIABLES
    co,       \* co[s]: the coordinator the registry holds for s
    orphans,  \* orphans[s]: closed coordinators whose timers still run
    rows,     \* rows[s]: table events, PRIMARY KEY seq, UNIQUE event_id
    cp,       \* cp[s]: the newest row of table checkpoints
    sess,     \* sess[s]: s has a row in table sessions
    tomb      \* tomb[s]: s has a row in table session_tombstones

memory == <<co, orphans>>
store  == <<rows, cp, sess, tomb>>
sessionVars == <<co, orphans, rows, cp, sess, tomb>>

-----------------------------------------------------------------------------
(* Rows, checkpoints and coordinators                                      *)

Row == [seq : Nat, id : Events]

Ids(R)  == {r.id : r \in R}
Seqs(R) == {r.seq : r \in R}

LastSeq(R) == CHOOSE n \in Seqs(R) : \A m \in Seqs(R) : m <= n

\* Mutant: the latest sequence number instead of the next one.
NextSeqMutant(R) == IF R = {} THEN -1 ELSE LastSeq(R)

\* MAX(seq) + 1 over the events of a session.
NextSeq(R) == IF R = {} THEN 0 ELSE LastSeq(R) + 1

NoCheckpoint == [seq |-> -1, state |-> {}]

NotLoaded ==
    [live |-> FALSE, closed |-> FALSE, state |-> {}, pend |-> {}, seen |-> {},
     next |-> 0, cpSeq |-> -1, timer |-> FALSE]

\* INSERT OR IGNORE: a row that collides on its seq or on its id is dropped.
InsertOrIgnore(R, batch) ==
    R \cup {b \in batch : \A r \in R : r.seq # b.seq /\ r.id # b.id}

Outcome(kind) == IF kind \in FaultyWrites THEN BOOLEAN ELSE {TRUE}

\* A flush with nothing pending opens no transaction, so it cannot fail.
FlushOutcome(c) == IF c.pend = {} THEN {TRUE} ELSE Outcome("flush")
CloseOutcome(c) == IF c.pend = {} THEN {TRUE} ELSE Outcome("close")

Flushed(c) == [c EXCEPT !.pend = {}]

\* saveCheckpoint, and the row latestCheckpoint would read after it.
Checkpointed(c, old) ==
    IF c.next - 1 > c.cpSeq /\ c.next - 1 >= old.seq
    THEN [seq |-> c.next - 1, state |-> c.state]
    ELSE old

-----------------------------------------------------------------------------
(* Loading: the newest checkpoint and the rows after it                    *)

\* Mutant: the replay starts one row too late.
ReplayedMutant(s) == cp[s].state \cup {r \in rows[s] : r.seq > cp[s].seq + 1}

Replayed(s) == cp[s].state \cup {r \in rows[s] : r.seq > cp[s].seq}

\* A load that found no checkpoint writes one.
LoadCheckpoints(s) == ~co[s].live /\ cp[s].seq = -1 /\ rows[s] # {}

CurrentCp(s) ==
    IF LoadCheckpoints(s)
    THEN [seq |-> NextSeq(Replayed(s)) - 1, state |-> Replayed(s)]
    ELSE cp[s]

Loaded(s) ==
    [NotLoaded EXCEPT !.live = TRUE,
                      !.state = Replayed(s),
                      !.next = NextSeq(Replayed(s)),
                      !.cpSeq = CurrentCp(s).seq]

Current(s) == IF co[s].live THEN co[s] ELSE Loaded(s)

-----------------------------------------------------------------------------
(* Ingest                                                                  *)

\* A closed coordinator accepts nothing; an open one accepts what neither it
\* nor the store has seen.
Fresh(s, F) ==
    IF Current(s).closed THEN {}
    ELSE F \ (Current(s).seen \cup Ids(rows[s]))

\* The sequence numbers a batch of accepted events may receive.
Numberings(F, n) == Bijection(F, n .. (n + Cardinality(F) - 1))

Numbered(F, num) == {[seq |-> num[e], id |-> e] : e \in F}

Applied(c, F, num) ==
    [c EXCEPT !.state = @ \cup Numbered(F, num),
              !.seen = @ \cup F,
              !.next = @ + Cardinality(F)]

\* Applied and put into the write-behind queue; arm: the end of a turn armed
\* the checkpoint timer.
Queued(c, F, num, arm) ==
    [Applied(c, F, num) EXCEPT !.pend = @ \cup Numbered(F, num),
                               !.timer = @ \/ arm]

\* Mutant: a failed flush does not put its batch back.
PersistMutant(s, c, ok) ==
    /\ co' = [co EXCEPT ![s] = Flushed(c)]
    /\ rows' = IF ok THEN [rows EXCEPT ![s] = InsertOrIgnore(@, c.pend)]
                     ELSE rows
    /\ sess' = IF ok /\ c.pend # {} THEN [sess EXCEPT ![s] = TRUE] ELSE sess

\* The transaction of a flush: events, changes and the session's summary.
Persist(s, c, ok) ==
    /\ co' = [co EXCEPT ![s] = IF ok THEN Flushed(c) ELSE c]
    /\ rows' = IF ok THEN [rows EXCEPT ![s] = InsertOrIgnore(@, c.pend)]
                     ELSE rows
    /\ sess' = IF ok /\ c.pend # {} THEN [sess EXCEPT ![s] = TRUE] ELSE sess

\* registry.ingest of the events F, numbered by num: load, accept, and flush
\* at the threshold, or always for a client that asks for a flush in the same
\* turn.
Accept(s, F, num, sync) ==
    LET fresh == Fresh(s, F)
        c == Current(s)
    IN
    /\ ~tomb[s]
    /\ cp' = [cp EXCEPT ![s] = CurrentCp(s)]
    /\ \E arm \in IF fresh = {} THEN {FALSE} ELSE BOOLEAN :
         LET d == Queued(c, fresh, num, arm)
         IN IF sync \/ (fresh # {} /\ Cardinality(d.pend) >= FlushThreshold)
            THEN \E ok \in FlushOutcome(d) : Persist(s, d, ok)
            ELSE /\ co' = [co EXCEPT ![s] = d]
                 /\ UNCHANGED <<rows, sess>>
    /\ UNCHANGED <<orphans, tomb>>

Ingest(s, F, sync) == \E num \in Numberings(Fresh(s, F), Current(s).next) :
                          Accept(s, F, num, sync)

\* Registry.ingest throws before the events reach the write-behind queue:
\* the load could not write its checkpoint, ...
LoadThrows(s) ==
    /\ ~tomb[s]
    /\ LoadCheckpoints(s)
    /\ "checkpoint" \in FaultyWrites
    /\ UNCHANGED sessionVars

\* ... or the raw fingerprint of an event already stored could not be
\* written, after the events before it in the batch were applied.
FingerprintThrows(s, known, before) ==
    /\ ~tomb[s]
    /\ "fingerprint" \in FaultyWrites
    /\ ~Current(s).closed
    /\ known \in Ids(rows[s])
    /\ \E num \in Numberings(before, Current(s).next) :
         co' = [co EXCEPT ![s] = Applied(Current(s), before, num)]
    /\ cp' = [cp EXCEPT ![s] = CurrentCp(s)]
    /\ UNCHANGED <<orphans, rows, sess, tomb>>

-----------------------------------------------------------------------------
(* Timers of a loaded coordinator                                          *)

Flush(s) ==
    /\ co[s].live
    /\ co[s].pend # {}
    /\ \E ok \in FlushOutcome(co[s]) : Persist(s, co[s], ok)
    /\ UNCHANGED <<orphans, cp, tomb>>

\* A checkpoint that cannot be written kills the process (Restart).
CheckpointTimer(s) ==
    LET c == [co[s] EXCEPT !.timer = FALSE]
        top == IF c.next - 1 > c.cpSeq THEN c.next - 1 ELSE c.cpSeq
    IN
    /\ co[s].live
    /\ co[s].timer
    /\ \E ok \in FlushOutcome(c) :
         /\ Persist(s, IF ok THEN [c EXCEPT !.cpSeq = top] ELSE c, ok)
         /\ cp' = IF ok THEN [cp EXCEPT ![s] = Checkpointed(c, @)] ELSE cp
    /\ UNCHANGED <<orphans, tomb>>

-----------------------------------------------------------------------------
(* The registry: opening, idle eviction, forgetting, retention             *)

Open(s) ==
    /\ ~co[s].live
    /\ sess[s]
    /\ co' = [co EXCEPT ![s] = Loaded(s)]
    /\ cp' = [cp EXCEPT ![s] = CurrentCp(s)]
    /\ UNCHANGED <<orphans, rows, sess, tomb>>

\* What close() leaves behind when its flush fails: the retry timer and a
\* pending checkpoint timer still hold the coordinator.
Orphaned(s) == [co[s] EXCEPT !.closed = TRUE]

\* evictIdle, of a session no client has touched for thirty minutes.
Evict(s) ==
    /\ co[s].live
    /\ co' = [co EXCEPT ![s] = NotLoaded]
    /\ \E ok \in CloseOutcome(co[s]) :
         IF ok
         THEN /\ rows' = [rows EXCEPT ![s] = InsertOrIgnore(@, co[s].pend)]
              /\ sess' = [sess EXCEPT ![s] = @ \/ co[s].pend # {}]
              /\ cp' = [cp EXCEPT ![s] = Checkpointed(co[s], @)]
              /\ UNCHANGED orphans
         ELSE /\ orphans' = [orphans EXCEPT ![s] = @ \cup {Orphaned(s)}]
              /\ UNCHANGED <<rows, sess, cp>>
    /\ UNCHANGED tomb

\* Mutant: an erased session leaves no tombstone.
EraseMutant(s) ==
    /\ rows' = [rows EXCEPT ![s] = {}]
    /\ cp'   = [cp EXCEPT ![s] = NoCheckpoint]
    /\ sess' = [sess EXCEPT ![s] = FALSE]
    /\ UNCHANGED tomb

\* store.forgetSession: every row of the session goes, a tombstone stays.
Erase(s) ==
    /\ rows' = [rows EXCEPT ![s] = {}]
    /\ cp'   = [cp EXCEPT ![s] = NoCheckpoint]
    /\ sess' = [sess EXCEPT ![s] = FALSE]
    /\ tomb' = [tomb EXCEPT ![s] = TRUE]

\* forget, when nothing is loaded or close() got through: erase if there is
\* a session row, which the close may just have written.
ForgetClean(s) ==
    /\ sess[s] \/ co[s].pend # {}
    /\ Erase(s)
    /\ co' = [co EXCEPT ![s] = NotLoaded]
    /\ UNCHANGED orphans

\* forget, when the rows could not be erased: it has closed the session.
ForgetRefused(s) ==
    /\ "forget" \in FaultyWrites
    /\ Evict(s)

\* forget, when close() could not flush: close ignores it and forget goes on.
ForgetDirty(s) ==
    /\ co[s].live
    /\ FALSE \in CloseOutcome(co[s])
    /\ co' = [co EXCEPT ![s] = NotLoaded]
    /\ orphans' = [orphans EXCEPT ![s] = @ \cup {Orphaned(s)}]
    /\ IF sess[s] THEN Erase(s) ELSE UNCHANGED store

\* forget, when close() flushed but could not write its checkpoint: the
\* throw skips live.delete, and the closed coordinator stays loaded.
ForgetThrows(s) ==
    /\ co[s].live
    /\ "checkpoint" \in FaultyWrites
    /\ co[s].next - 1 > co[s].cpSeq
    /\ Persist(s, Orphaned(s), TRUE)
    /\ UNCHANGED <<orphans, cp, tomb>>

Forget(s) == ForgetClean(s) \/ ForgetRefused(s) \/ ForgetDirty(s) \/ ForgetThrows(s)

\* Mutant: retention does not ask whether the session is loaded.
RetirableMutant == {s \in Sessions : sess[s]}

\* Retention never removes a loaded session.
Retirable == {s \in Sessions : ~co[s].live /\ sess[s]}

\* The registry's applyRetention: flush every loaded session, whether or not
\* each flush succeeds, then erase a batch of the others in one transaction.
ApplyRetention ==
    LET loaded == {s \in Sessions : co[s].live} IN
    \E gone \in SUBSET Retirable,
       failed \in SUBSET {s \in loaded : FALSE \in FlushOutcome(co[s])} :
         LET saved == loaded \ failed IN
         /\ co' = [s \in Sessions |-> IF s \in saved THEN Flushed(co[s]) ELSE co[s]]
         /\ rows' = [s \in Sessions |->
                        CASE s \in gone -> {}
                          [] s \in saved \ gone -> InsertOrIgnore(rows[s], co[s].pend)
                          [] OTHER -> rows[s]]
         /\ cp' = [s \in Sessions |-> IF s \in gone THEN NoCheckpoint ELSE cp[s]]
         /\ sess' = [s \in Sessions |->
                        s \notin gone /\ (sess[s] \/ (s \in saved /\ co[s].pend # {}))]
         /\ tomb' = [s \in Sessions |-> tomb[s] \/ s \in gone]
         /\ UNCHANGED orphans

-----------------------------------------------------------------------------
(* Timers of a coordinator that was closed with its flush failing          *)

OrphanFlush(s) == \E z \in orphans[s] :
    /\ z.pend # {}
    /\ rows' = [rows EXCEPT ![s] = InsertOrIgnore(@, z.pend)]
    /\ sess' = [sess EXCEPT ![s] = TRUE]
    /\ orphans' = [orphans EXCEPT ![s] =
                     (@ \ {z}) \cup {y \in {Flushed(z)} : y.timer}]
    /\ UNCHANGED <<co, cp, tomb>>

OrphanCheckpoint(s) == \E z \in orphans[s] :
    /\ z.timer
    /\ \E ok \in FlushOutcome(z) :
         IF ok
         THEN /\ rows' = [rows EXCEPT ![s] = InsertOrIgnore(@, z.pend)]
              /\ sess' = [sess EXCEPT ![s] = @ \/ z.pend # {}]
              /\ cp' = [cp EXCEPT ![s] = Checkpointed(z, @)]
              /\ orphans' = [orphans EXCEPT ![s] = @ \ {z}]
         ELSE /\ orphans' = [orphans EXCEPT ![s] =
                               (@ \ {z}) \cup {[z EXCEPT !.timer = FALSE]}]
              /\ UNCHANGED <<rows, sess, cp>>
    /\ UNCHANGED <<co, tomb>>

\* The process ends, by a crash or after a stop, and starts again.
Restart ==
    /\ co' = [s \in Sessions |-> NotLoaded]
    /\ orphans' = [s \in Sessions |-> {}]
    /\ UNCHANGED store

-----------------------------------------------------------------------------
SessionInit ==
    /\ co = [s \in Sessions |-> NotLoaded]
    /\ orphans = [s \in Sessions |-> {}]
    /\ rows = [s \in Sessions |-> {}]
    /\ cp = [s \in Sessions |-> NoCheckpoint]
    /\ sess = [s \in Sessions |-> FALSE]
    /\ tomb = [s \in Sessions |-> FALSE]

\* The steps of one session that need no client: timers, the API.
Background(s) ==
    \/ Flush(s)
    \/ CheckpointTimer(s)
    \/ Open(s)
    \/ OrphanFlush(s)
    \/ OrphanCheckpoint(s)

-----------------------------------------------------------------------------
(* Properties of the session log, whoever its clients are                  *)

CoordinatorType ==
    [live : BOOLEAN, closed : BOOLEAN, state : SUBSET Row, pend : SUBSET Row,
     seen : SUBSET Events, next : Nat, cpSeq : Nat \cup {-1}, timer : BOOLEAN]

SessionTypeOK ==
    /\ co \in [Sessions -> CoordinatorType]
    /\ orphans \in [Sessions -> SUBSET CoordinatorType]
    /\ rows \in [Sessions -> SUBSET Row]
    /\ cp \in [Sessions -> [seq : Nat \cup {-1}, state : SUBSET Row]]
    /\ sess \in [Sessions -> BOOLEAN]
    /\ tomb \in [Sessions -> BOOLEAN]

\* The sequence numbers of the durable log are 0, 1, 2, ... without a gap:
\* what flush, load and INSERT OR IGNORE together must keep.
LogIsDense == \A s \in Sessions : Seqs(rows[s]) = 0 .. (NextSeq(rows[s]) - 1)

\* A loaded session's state is what replaying the durable log and then the
\* write-behind queue gives (SessionCoordinator.load against ingest).
StateIsReplay ==
    \A s \in Sessions : co[s].live =>
        /\ co[s].state = rows[s] \cup co[s].pend
        /\ Ids(rows[s]) \cap Ids(co[s].pend) = {}

\* A checkpoint never runs ahead of the log, and is the fold of a prefix of
\* it (SessionCoordinator.checkpoint).
CheckpointIsPrefix ==
    \A s \in Sessions : cp[s].state = {r \in rows[s] : r.seq <= cp[s].seq}

\* Nothing of a forgotten session is ever stored again: the tombstone of
\* forgetSession and applyRetention outlives every queue and timer.
ForgottenStaysGone ==
    \A s \in Sessions : tomb[s] => rows[s] = {} /\ cp[s] = NoCheckpoint /\ ~sess[s]

-----------------------------------------------------------------------------
(* What the log promises: the specification of module EventLog             *)

\* The durable log of a session as a sequence.
DurableLog(s) ==
    [i \in 1 .. Cardinality(rows[s]) |-> (CHOOSE r \in rows[s] : r.seq = i - 1).id]

Promised(s) == INSTANCE EventLog WITH log <- DurableLog(s), forgotten <- tomb[s]

\* Whatever fails or restarts, the durable log is one that only has events
\* appended, each of them once, until the session is erased for good.
\* (The conjunction of Promised(s)!Spec over the sessions.)
KeepsPromise ==
    /\ \A s \in Sessions : Promised(s)!Init
    /\ [][\A s \in Sessions :
              [Promised(s)!Next]_<<DurableLog(s), tomb[s]>>]_sessionVars
=============================================================================
