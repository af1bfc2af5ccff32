---------------------------- MODULE UsageBackfill ----------------------------
(* What the agents consumed.  New usage is accounted as its event is stored; *)
(* the usage of events stored before there was an accounting is added, page  *)
(* by page, by a worker with a connection of its own, while sessions go on,  *)
(* are forgotten, or pass their retention period.                            *)
EXTENDS Integers, Sequences, FiniteSets, FiniteSetsExt

CONSTANTS
    Helpers,       \* processes that advance the backfill
    Messages,      \* a message's usage is told again, and the last time counts
    OldUsage,      \* OldUsage[s]: the messages session s told of before the upgrade
    MaxUsage,      \* bound: usage events of one session
    BatchSize,     \* 200 in the code
    RowsReturn     \* may a forgotten session be stored again?

UsageIds == DOMAIN OldUsage

ASSUME BackfillAssumption ==
    /\ IsFiniteSet(Helpers) /\ IsFiniteSet(Messages)
    /\ OldUsage \in Seq(Seq(Messages))
    /\ MaxUsage \in Nat /\ BatchSize \in Nat \ {0} /\ RowsReturn \in BOOLEAN

VARIABLES
    standing,      \* standing[s]: "new", "listed", "forgotten" or "retained"
    usageLog,        \* usageLog[s]: the message of each usage event of s, by number
    accounted,     \* accounted[s][m]: the number of the event that counts for m
    totals,        \* totals[s]: the sum over those rows, when last recomputed
    progress,      \* the session and event the backfill has come to
    fetched,       \* fetched[w]: the page w has read and not yet written
    rollup,        \* rollup[s]: what retention kept of the usage of s
    consumed       \* what s said it consumed, unless it was forgotten

backfillVars ==
    <<standing, usageLog, accounted, totals, progress, fetched, rollup, consumed>>

NoUsage == [m \in Messages |-> 0]
NoPage == [session |-> 0, after |-> 0, rows |-> <<>>, from |-> [session |-> -1, seq |-> 0]]

Listed == {s \in UsageIds : standing[s] = "listed"}

\* The last event that told of each message.
LastTold(log) == [m \in Messages |-> Max({0} \cup {n \in DOMAIN log : log[n] = m})]

\* Mutant: whichever record of a message is written later counts.
UpsertMutant(rows, m, n) == [rows EXCEPT ![m] = n]

\* A later event of a message replaces an earlier one, never the reverse.
Upsert(rows, m, n) == IF n > rows[m] THEN [rows EXCEPT ![m] = n] ELSE rows

-----------------------------------------------------------------------------
\* The daemon.

\* An event and its accounting are stored in one transaction.
StoreUsage(s, m) ==
    /\ standing[s] \in {"new", "listed"} \cup (IF RowsReturn THEN {"forgotten"} ELSE {})
    /\ Len(usageLog[s]) < MaxUsage
    /\ standing' = [standing EXCEPT ![s] = "listed"]
    /\ usageLog' = [usageLog EXCEPT ![s] = Append(@, m)]
    /\ accounted' = [accounted EXCEPT ![s] = Upsert(@, m, Len(usageLog[s]) + 1)]
    /\ totals' = [totals EXCEPT ![s] = accounted'[s]]
    /\ consumed' = [consumed EXCEPT ![s][m] = Len(usageLog[s]) + 1]
    /\ UNCHANGED <<progress, fetched, rollup>>

Deleted(s, how) ==
    /\ standing' = [standing EXCEPT ![s] = how]
    /\ usageLog' = [usageLog EXCEPT ![s] = <<>>]
    /\ accounted' = [accounted EXCEPT ![s] = NoUsage]
    /\ totals' = [totals EXCEPT ![s] = NoUsage]
    /\ UNCHANGED <<progress, fetched>>

ForgetUsage(s) ==
    /\ s \in Listed
    /\ Deleted(s, "forgotten")
    /\ consumed' = [consumed EXCEPT ![s] = NoUsage]
    /\ UNCHANGED rollup

\* Retention refuses to run before the old usage is accounted.
Retain(s) ==
    /\ s \in Listed /\ progress.complete
    /\ Deleted(s, "retained")
    /\ rollup' = [rollup EXCEPT ![s] = totals[s]]
    /\ UNCHANGED consumed

-----------------------------------------------------------------------------
\* The worker.

\* The next session by id, 0 when there is none.
NextListed(s) == LET later == {r \in Listed : r > s} IN
                 IF later = {} THEN 0 ELSE Min(later)

Cursor == [session |-> progress.session, seq |-> progress.seq]

\* A page is read outside the transaction that writes it.
ReadPage(w) ==
    /\ fetched[w] = NoPage /\ ~progress.complete
    /\ LET moves == progress.session \notin Listed /\ NextListed(progress.session) # 0
           s     == IF moves THEN NextListed(progress.session) ELSE progress.session
           after == IF moves THEN 0 ELSE progress.seq
           log   == IF s \in UsageIds THEN usageLog[s] ELSE <<>>
       IN  fetched' = [fetched EXCEPT ![w] =
             [session |-> s, after |-> after, from |-> Cursor,
              rows |-> SubSeq(log, after + 1, Min({Len(log), after + BatchSize}))]]
    /\ UNCHANGED <<standing, usageLog, accounted, totals, progress, rollup, consumed>>

StillThere(s) == s \in Listed

\* The rows of a page, upserted in their order.
Added(p) ==
    LET written[i \in 0 .. Len(p.rows)] ==
          IF i = 0 THEN accounted[p.session]
          ELSE Upsert(written[i - 1], p.rows[i], p.after + i)
    IN  written[Len(p.rows)]

\* A page whose cursor another worker has moved is dropped.
CommitPage(w) ==
    /\ fetched[w] # NoPage
    /\ fetched' = [fetched EXCEPT ![w] = NoPage]
    /\ LET p    == fetched[w]
           full == Len(p.rows) = BatchSize
           next == IF p.session # 0 /\ ~full THEN NextListed(p.session) ELSE 0
       IN  IF progress.complete \/ p.from # Cursor
             THEN UNCHANGED <<accounted, totals, progress>>
             ELSE /\ IF StillThere(p.session) /\ p.rows # <<>>
                       THEN /\ accounted' = [accounted EXCEPT ![p.session] = Added(p)]
                            /\ totals' = [totals EXCEPT ![p.session] = accounted'[p.session]]
                       ELSE UNCHANGED <<accounted, totals>>
                  /\ progress' =
                       IF next # 0 THEN [session |-> next, seq |-> 0, complete |-> FALSE]
                       ELSE [session |-> p.session, seq |-> p.after + Len(p.rows),
                             complete |-> p.session = 0 \/ ~full]
    /\ UNCHANGED <<standing, usageLog, rollup, consumed>>

\* A worker dies; its page was in memory only, and another one is started.
KillHelper(w) ==
    /\ fetched[w] # NoPage
    /\ fetched' = [fetched EXCEPT ![w] = NoPage]
    /\ UNCHANGED <<standing, usageLog, accounted, totals, progress, rollup, consumed>>

-----------------------------------------------------------------------------
\* The upgrade drops whatever accounting there was and leaves the rest to the
\* worker.
BackfillInit ==
    /\ standing = [s \in UsageIds |-> IF OldUsage[s] = <<>> THEN "new" ELSE "listed"]
    /\ usageLog = OldUsage
    /\ accounted = [s \in UsageIds |-> NoUsage] /\ totals = [s \in UsageIds |-> NoUsage]
    /\ progress = [session |-> 0, seq |-> 0,
                   complete |-> \A s \in UsageIds : OldUsage[s] = <<>>]
    /\ fetched = [w \in Helpers |-> NoPage]
    /\ rollup = [s \in UsageIds |-> NoUsage]
    /\ consumed = [s \in UsageIds |-> LastTold(OldUsage[s])]

BackfillNext ==
    \/ \E s \in UsageIds : \/ \E m \in Messages : StoreUsage(s, m)
                      \/ ForgetUsage(s) \/ Retain(s)
    \/ \E w \in Helpers : ReadPage(w) \/ CommitPage(w) \/ KillHelper(w)

BackfillSpec == BackfillInit /\ [][BackfillNext]_backfillVars

-----------------------------------------------------------------------------
\* Once the backfill says it is complete, the totals count every message of
\* every session once, by its last record, whether its usage was stored before
\* the upgrade or after, its session still there or past retention; and what
\* was forgotten counts nowhere (sqliteStore.ts 1926-1928, 2225-2226).
UsageCountsOnce ==
    progress.complete => \A s \in UsageIds :
        IF standing[s] = "retained"
          THEN rollup[s] = consumed[s] /\ totals[s] = NoUsage
          ELSE totals[s] = consumed[s] /\ rollup[s] = NoUsage
=============================================================================
