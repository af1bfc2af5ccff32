--------------------------- MODULE RecoveryProofs ---------------------------
(***************************************************************************)
(* The theorems about what is derived or read again: the change logs of    *)
(* sessions and their checkpoints, for any sessions, events and versions;  *)
(* the rows of a provider's database, for any rows, reverts and rounds,    *)
(* with failed writes and crashes between them; and the usage stored       *)
(* before there was an accounting, for any sessions, messages and helpers. *)
(***************************************************************************)
EXTENDS HistoryWarmup, StoreTailer, UsageBackfill, FiniteSetTheorems, WellFoundedInduction, TLAPS

-----------------------------------------------------------------------------
(* Warm-up: one session at a time                                          *)

\* How far a log or a checkpoint reaches.
Reaches == 0 .. MaxSeq
\* The version a row was derived by, or 0 for no row.
Reducers == 0 .. MaxVersion
Coordinators == [loaded : BOOLEAN, at : Reaches, mark : Reaches]
Replays == [session : Archive \cup {"none"}, cursor : Reaches, yielded : BOOLEAN]

\* Types of the change logs, the checkpoints, the coordinators and the replay
\* under way.
WarmupTypeOK ==
    /\ version \in Versions
    /\ length \in [Archive -> Reaches]
    /\ changeLog \in [Archive -> [Positions -> Reducers]]
    /\ kept \in [Archive -> [Versions -> Reaches]]
    /\ open \in [Archive -> Coordinators]
    /\ work \in Replays
    /\ work # Idle => work.session \in Archive

\* What holds of one session.
NoneFromLater(s) == \A v \in Versions : kept[s][v] # 0 => v <= version

\* The change log has rows for the events stored, and only for them.
LogIsDerived(s) == \A n \in Positions : (changeLog[s][n] = 0) <=> (n > length[s])

\* A live coordinator is at or ahead of the log, and the log it found or
\* rewrote is of its own version.
LiveIsCurrent(s) ==
    open[s].loaded = TRUE =>
        /\ length[s] <= open[s].at
        /\ changeLog[s] = Derived(length[s], version)

\* A checkpoint of the running version vouches for the whole log.
MarkIsCurrent(s) ==
    kept[s][version] # 0 =>
        /\ kept[s][version] <= length[s]
        /\ changeLog[s] = Derived(length[s], version)

Sound(s) == NoneFromLater(s) /\ LogIsDerived(s) /\ LiveIsCurrent(s) /\ MarkIsCurrent(s)

WarmupInv == WarmupTypeOK /\ \A s \in Archive : Sound(s)

-----------------------------------------------------------------------------
\* The bounds are positive numbers.
LEMMA WarmupBounds == MaxSeq \in Nat \ {0} /\ MaxVersion \in Nat \ {0} /\ Downgrades \in BOOLEAN
BY WarmupAssumption

\* The rows of a log derived in one go.
LEMMA DerivedRows ==
    ASSUME NEW n \in Reaches, NEW v \in Versions
    PROVE  /\ Derived(n, v) \in [Positions -> Reducers]
           /\ \A i \in Positions : Derived(n, v)[i] = (IF i <= n THEN v ELSE 0)
           /\ \A i \in Positions : (Derived(n, v)[i] = 0) <=> (i > n)
BY WarmupBounds DEF Derived, Positions, Reducers, Versions, Reaches

\* A log whose rows are this reducer's or none is what the reducer derives.
LEMMA RowsAreDerived ==
    ASSUME NEW rows \in [Positions -> Reducers], NEW n \in Reaches, NEW v \in Versions,
           \A i \in Positions : rows[i] \in {0, v} /\ ((rows[i] = 0) <=> (i > n))
    PROVE  rows = Derived(n, v)
<1>1. \A i \in Positions : rows[i] = Derived(n, v)[i]
  BY DerivedRows DEF Positions, Reaches
<1> QED BY <1>1, DerivedRows

\* A checkpoint replaces those of its version and leaves the older ones.
LEMMA MarkWritten ==
    ASSUME WarmupTypeOK, NEW s \in Archive, NEW n \in Reaches
    PROVE  /\ WriteCheckpoint(s, n) \in [Versions -> Reaches]
           /\ WriteCheckpoint(s, n)[version] = n
           /\ \A v \in Versions : WriteCheckpoint(s, n)[v] # 0 => v <= version
BY WarmupBounds DEF WarmupTypeOK, WriteCheckpoint, NoneKept, Versions, Reaches

\* The values for no coordinator and for no replay are of their types.
LEMMA ClosedFacts == Closed \in Coordinators /\ Closed.loaded = FALSE /\ Idle \in Replays
BY WarmupBounds DEF Closed, Coordinators, Reaches, Idle, Replays

-----------------------------------------------------------------------------
\* A step of one session.

OthersKeep(s) ==
    \A t \in Archive \ {s} :
        /\ length'[t] = length[t] /\ changeLog'[t] = changeLog[t]
        /\ kept'[t] = kept[t] /\ open'[t] = open[t]

\* A step on one session keeps what holds of the others.
LEMMA OneSessionStep ==
    ASSUME WarmupInv, NEW s \in Archive, version' = version, OthersKeep(s), Sound(s)'
    PROVE  \A t \in Archive : Sound(t)'
<1> SUFFICES ASSUME NEW t \in Archive \ {s} PROVE Sound(t)'
  OBVIOUS
<1> QED
  BY DEF WarmupInv, OthersKeep, Sound, NoneFromLater, LogIsDerived, LiveIsCurrent, MarkIsCurrent,
     Derived

Rewrites(s, n) ==
    /\ length'[s] = n
    /\ changeLog'[s] = Derived(n, version)
    /\ kept'[s][version] <= n

\* A log rewritten up to the end of its events is sound, whatever checkpoint is
\* written with it.
LEMMA RewrittenIsSound ==
    ASSUME WarmupInv, NEW s \in Archive, NEW n \in Reaches, version' = version, Rewrites(s, n),
           \A v \in Versions : kept'[s][v] # 0 => v <= version,
           open'[s].loaded = TRUE => n <= open'[s].at
    PROVE  Sound(s)'
<1>1. version \in Versions
  BY DEF WarmupInv, WarmupTypeOK
<1>2. LogIsDerived(s)'
  BY <1>1, DerivedRows DEF LogIsDerived, Rewrites
<1> QED
  BY <1>1, <1>2 DEF Sound, Rewrites, NoneFromLater, LiveIsCurrent, MarkIsCurrent, Derived

\* What a load finds: the log is this reducer's, or it is rewritten.
LEMMA NotRewriting ==
    ASSUME WarmupInv, NEW s \in Archive, ~Rewriting(s)
    PROVE  changeLog[s] = Derived(length[s], version)
<1>1. /\ version \in Versions /\ length[s] \in Reaches
      /\ changeLog[s] \in [Positions -> Reducers] /\ Sound(s)
  BY DEF WarmupInv, WarmupTypeOK
<1>2. CASE kept[s][version] # 0
  BY <1>1, <1>2 DEF Sound, MarkIsCurrent
<1>3. CASE ~Stale(s)
  <2>1. \A i \in Positions : changeLog[s][i] \in {0, version}
    BY <1>3 DEF Stale
  <2> QED BY <1>1, <2>1, RowsAreDerived DEF Sound, LogIsDerived
<1> QED BY <1>2, <1>3 DEF Rewriting

\* A flush adds the rows of the events that were queued.
LEMMA FlushedRows ==
    ASSUME WarmupInv, NEW s \in Archive, IsLive(s)
    PROVE  /\ open[s].at \in Reaches /\ length[s] <= open[s].at
           /\ WithFlushed(s) = Derived(open[s].at, version)
<1>1. /\ version \in Versions /\ length[s] \in Reaches /\ open[s] \in Coordinators
      /\ changeLog[s] \in [Positions -> Reducers] /\ Sound(s)
  BY DEF WarmupInv, WarmupTypeOK
<1>2. open[s].loaded = TRUE
  BY <1>1 DEF IsLive, Coordinators
<1>3. open[s].at \in Reaches /\ length[s] <= open[s].at /\ changeLog[s] = Derived(length[s], version)
  BY <1>1, <1>2 DEF Sound, LiveIsCurrent, Coordinators
<1>4. WithFlushed(s) \in [Positions -> Reducers]
  BY <1>1, WarmupBounds DEF WithFlushed, Reducers, Versions
<1>5. ASSUME NEW i \in Positions
      PROVE  WithFlushed(s)[i] \in {0, version} /\ ((WithFlushed(s)[i] = 0) <=> (i > open[s].at))
  <2>1. WithFlushed(s)[i] = IF changeLog[s][i] = 0 /\ i > length[s] /\ i <= open[s].at
                            THEN version ELSE changeLog[s][i]
    BY DEF WithFlushed
  <2>2. changeLog[s][i] = IF i <= length[s] THEN version ELSE 0
    BY <1>1, <1>3, DerivedRows
  <2> QED BY <1>1, <1>3, <2>1, <2>2 DEF Positions, Versions, Reaches
<1> QED BY <1>1, <1>3, <1>4, <1>5, RowsAreDerived

-----------------------------------------------------------------------------
\* One step per action.

WarmupGoal == WarmupTypeOK' /\ \A s \in Archive : Sound(s)'

\* What the warm-up does to its own state touches no session.
LEMMA WorkSteps ==
    ASSUME WarmupInv, UNCHANGED <<version, length, changeLog, kept, open>>,
           work' \in Replays, work' # Idle => work'.session \in Archive
    PROVE  WarmupInv'
BY DEF WarmupInv, WarmupTypeOK, Sound, NoneFromLater, LogIsDerived, LiveIsCurrent, MarkIsCurrent,
       Derived

\* The replay reads another slice of events and yields.
LEMMA SliceSteps ==
    ASSUME WarmupInv, Slice
    PROVE  WarmupInv'
<1>1. work \in Replays /\ work.session \in Archive
  BY DEF Slice, WarmupInv, WarmupTypeOK
<1>2. PICK n \in work.cursor + 1 .. length[work.session] :
        work' = [work EXCEPT !.cursor = n, !.yielded = TRUE]
  BY DEF Slice
<1>3. length[work.session] \in Reaches /\ work.cursor \in Reaches
  BY <1>1 DEF WarmupInv, WarmupTypeOK, Replays
<1>4. n \in Reaches
  BY <1>3, WarmupBounds DEF Reaches
<1>5. work' \in Replays /\ work'.session = work.session
  BY <1>1, <1>2, <1>4 DEF Replays
<1>6. UNCHANGED <<version, length, changeLog, kept, open>>
  BY DEF Slice
<1> QED BY <1>1, <1>5, <1>6, WorkSteps

\* The next session without a current checkpoint is picked.
LEMMA PickSteps ==
    ASSUME WarmupInv, NEW s \in Archive, Pick(s)
    PROVE  WarmupInv'
<1>1. work' = [session |-> s, cursor |-> 0, yielded |-> FALSE]
  BY DEF Pick
<1>2. work' \in Replays /\ work'.session \in Archive
  BY <1>1, WarmupBounds DEF Replays, Reaches
<1>3. UNCHANGED <<version, length, changeLog, kept, open>>
  BY DEF Pick
<1> QED BY <1>2, <1>3, WorkSteps

\* The replay ends: the session was opened or grew meanwhile and is left alone,
\* or its log is replaced and then its checkpoint written.
LEMMA ConcludeSteps ==
    ASSUME WarmupInv, Conclude
    PROVE  WarmupInv'
<1>5. PICK s : s = work.session
  OBVIOUS
<1>6. PICK n : n = length[s]
  OBVIOUS
<1>1. s \in Archive /\ n \in Reaches /\ version \in Versions
  BY <1>5, <1>6 DEF Conclude, WarmupInv, WarmupTypeOK
<1>2. work' = Idle /\ work' \in Replays /\ UNCHANGED <<version, length, open>>
  BY ClosedFacts DEF Conclude
<1>3. CASE UNCHANGED <<changeLog, kept>>
  BY <1>2, <1>3, WorkSteps
<1>4. CASE /\ Stores
           /\ changeLog' = [changeLog EXCEPT ![s] = Derived(ReplayedTo, version)]
           /\ kept' = [kept EXCEPT ![s] = WriteCheckpoint(s, ReplayedTo)]
  <2>1. ReplayedTo = n /\ ~IsLive(s)
    BY <1>4, <1>5, <1>6 DEF Stores
  <2>2. changeLog' = [changeLog EXCEPT ![s] = Derived(n, version)]
    BY <1>4, <2>1
  <2>3. kept' = [kept EXCEPT ![s] = WriteCheckpoint(s, n)]
    BY <1>4, <2>1
  <2>4. changeLog'[s] = Derived(n, version) /\ kept'[s] = WriteCheckpoint(s, n)
    BY <1>1, <2>2, <2>3 DEF WarmupInv, WarmupTypeOK
  <2>5. WarmupTypeOK'
    BY <1>1, <1>2, <2>2, <2>3, DerivedRows, MarkWritten DEF WarmupInv, WarmupTypeOK
  <2>6. OthersKeep(s)
    BY <1>2, <2>2, <2>3 DEF OthersKeep, WarmupInv, WarmupTypeOK
  <2>7. /\ kept'[s][version] = n
        /\ \A v \in Versions : kept'[s][v] # 0 => v <= version
    BY <1>1, <2>4, MarkWritten DEF WarmupInv
  <2>8. length'[s] = n /\ open'[s].loaded # TRUE
    BY <1>2, <1>6, <2>1 DEF IsLive
  <2>9. n <= n
    BY <1>1 DEF Reaches
  <2>10. Sound(s)'
    BY <1>1, <1>2, <2>4, <2>7, <2>8, <2>9, RewrittenIsSound DEF Rewrites
  <2> QED BY <1>1, <1>2, <2>5, <2>6, <2>10, OneSessionStep DEF WarmupInv
<1> QED BY <1>3, <1>4, <1>5 DEF Conclude

\* A coordinator is opened: it starts from a checkpoint or from nothing,
\* replays, and rewrites the log when that was not of its version.
LEMMA OpenSteps ==
    ASSUME WarmupInv, NEW s \in Archive, OpenSession(s)
    PROVE  WarmupInv'
<1> DEFINE n == length[s]
           cold == kept[s][version] = 0 /\ length[s] > 0
           written == IF Rewriting(s) THEN [changeLog EXCEPT ![s] = Derived(n, version)]
                      ELSE changeLog
           marked == IF cold THEN [kept EXCEPT ![s] = WriteCheckpoint(s, n)] ELSE kept
<1>1. n \in Reaches /\ version \in Versions /\ Sound(s) /\ WarmupTypeOK
  BY DEF WarmupInv, WarmupTypeOK
<1>2. /\ written[s] = Derived(n, version)
      /\ written \in [Archive -> [Positions -> Reducers]]
      /\ \A t \in Archive \ {s} : written[t] = changeLog[t]
  BY <1>1, NotRewriting, DerivedRows DEF WarmupTypeOK
<1>3. /\ marked \in [Archive -> [Versions -> Reaches]]
      /\ \A t \in Archive \ {s} : marked[t] = kept[t]
  BY <1>1, MarkWritten DEF WarmupTypeOK
<1>4. /\ marked[s][version] <= n
      /\ \A v \in Versions : marked[s][v] # 0 => v <= version
  <2>1. CASE cold
    <3>1. marked[s] = WriteCheckpoint(s, n)
      BY <1>1, <2>1 DEF WarmupTypeOK
    <3> QED BY <1>1, <3>1, MarkWritten DEF Reaches
  <2>2. CASE ~cold
    <3>1. marked[s] = kept[s] /\ (kept[s][version] # 0 \/ length[s] = 0)
      BY <1>1, <2>2 DEF Reaches
    <3> QED BY <1>1, <3>1 DEF Sound, NoneFromLater, MarkIsCurrent, Reaches
  <2> QED BY <2>1, <2>2
<1>5. /\ changeLog' = changeLog \/ changeLog' = written
      /\ kept' = kept \/ (kept' = marked /\ changeLog' = written)
      /\ \/ open' = open
         \/ /\ open' = [open EXCEPT ![s] = [loaded |-> TRUE, at |-> n, mark |-> marked[s][version]]]
            /\ changeLog' = written /\ kept' = marked
  BY DEF OpenSession
<1>6. UNCHANGED <<version, length, work>>
  BY DEF OpenSession
<1>7. ~IsLive(s)
  BY DEF OpenSession
<1> HIDE DEF written, marked, cold, n
<1>8. CASE open' = open
  <2>1. WarmupTypeOK'
    BY <1>1, <1>2, <1>3, <1>5, <1>6, <1>8 DEF WarmupTypeOK
  <2>2. OthersKeep(s)
    BY <1>2, <1>3, <1>5, <1>6, <1>8 DEF OthersKeep
  <2>3. CASE changeLog' = changeLog /\ kept' = kept
    BY <1>1, <1>6, <1>8, <2>1, <2>3, WorkSteps DEF WarmupInv, WarmupTypeOK
  <2>4. CASE changeLog' = written
    <3>1. /\ kept'[s][version] <= n
          /\ \A v \in Versions : kept'[s][v] # 0 => v <= version
      <4>1. CASE kept' = marked
        BY <1>4, <4>1
      <4>2. CASE kept' = kept
        BY <1>1, <4>2 DEF Sound, NoneFromLater, MarkIsCurrent, Reaches, n, WarmupTypeOK
      <4> QED BY <1>5, <4>1, <4>2
    <3>2. Rewrites(s, n)
      BY <1>2, <1>6, <2>4, <3>1 DEF Rewrites, n
    <3>3. open'[s].loaded # TRUE
      BY <1>7, <1>8 DEF IsLive
    <3>4. Sound(s)'
      BY <1>1, <1>6, <3>1, <3>2, <3>3, RewrittenIsSound
    <3> QED BY <1>6, <2>1, <2>2, <3>4, OneSessionStep DEF WarmupInv
  <2> QED BY <1>5, <2>3, <2>4
<1>9. CASE /\ open' = [open EXCEPT ![s] = [loaded |-> TRUE, at |-> n, mark |-> marked[s][version]]]
           /\ changeLog' = written /\ kept' = marked
  <2>1. marked[s][version] \in Reaches
    BY <1>1, <1>3
  <2>2. [loaded |-> TRUE, at |-> n, mark |-> marked[s][version]] \in Coordinators
    BY <1>1, <2>1 DEF Coordinators
  <2>3. WarmupTypeOK'
    BY <1>1, <1>2, <1>3, <1>6, <1>9, <2>2 DEF WarmupTypeOK
  <2>4. OthersKeep(s)
    BY <1>1, <1>2, <1>3, <1>6, <1>9 DEF OthersKeep, WarmupTypeOK
  <2>5. open'[s].at = n
    BY <1>1, <1>9 DEF WarmupTypeOK
  <2>6. Rewrites(s, n)
    BY <1>2, <1>4, <1>6, <1>9 DEF Rewrites, n
  <2>7. n <= open'[s].at
    BY <1>1, <2>5 DEF Reaches
  <2>8. Sound(s)'
    BY <1>1, <1>4, <1>6, <1>9, <2>6, <2>7, RewrittenIsSound
  <2> QED BY <1>6, <2>3, <2>4, <2>8, OneSessionStep DEF WarmupInv
<1> QED BY <1>5, <1>8, <1>9

\* A live session ingests an event.
LEMMA IngestSteps ==
    ASSUME WarmupInv, NEW s \in Archive, IngestEvent(s)
    PROVE  WarmupInv'
<1>1. open[s] \in Coordinators /\ length[s] \in Reaches /\ WarmupTypeOK /\ Sound(s)
  BY DEF WarmupInv, WarmupTypeOK
<1>2. open' = [open EXCEPT ![s].at = @ + 1] /\ open[s].at < MaxSeq /\ IsLive(s)
  BY DEF IngestEvent
<1>3. UNCHANGED <<version, length, changeLog, kept, work>>
  BY DEF IngestEvent
<1>4. open'[s] = [open[s] EXCEPT !.at = open[s].at + 1]
  BY <1>1, <1>2 DEF WarmupTypeOK
<1>5. open[s].at + 1 \in Reaches
  BY <1>1, <1>2, WarmupBounds DEF Coordinators, Reaches
<1>6. /\ open'[s] \in Coordinators
      /\ open'[s].at = open[s].at + 1 /\ open'[s].loaded = open[s].loaded
  BY <1>1, <1>4, <1>5 DEF Coordinators
<1>7. WarmupTypeOK'
  BY <1>1, <1>2, <1>3, <1>4, <1>6 DEF WarmupTypeOK
<1>8. OthersKeep(s)
  BY <1>1, <1>2, <1>3 DEF OthersKeep, WarmupTypeOK
<1>9. length[s] <= open[s].at => length[s] <= open[s].at + 1
  BY <1>1 DEF Coordinators, Reaches
<1>10. Sound(s)'
  BY <1>1, <1>3, <1>6, <1>9 DEF Sound, NoneFromLater, LogIsDerived, LiveIsCurrent, MarkIsCurrent,
     Derived
<1> QED BY <1>3, <1>7, <1>8, <1>10, OneSessionStep DEF WarmupInv

\* A live session's events and rows are stored.
LEMMA FlushSteps ==
    ASSUME WarmupInv, NEW s \in Archive, FlushSession(s)
    PROVE  WarmupInv'
<1> DEFINE n == open[s].at
<1>1. n \in Reaches /\ length[s] <= n /\ WithFlushed(s) = Derived(n, version)
  BY FlushedRows DEF FlushSession
<1>2. WarmupTypeOK /\ version \in Versions /\ Sound(s) /\ kept[s][version] \in Reaches
  BY DEF WarmupInv, WarmupTypeOK
<1>3. /\ length' = [length EXCEPT ![s] = n] /\ changeLog' = [changeLog EXCEPT ![s] = WithFlushed(s)]
      /\ UNCHANGED <<version, kept, open, work>>
  BY DEF FlushSession
<1>4. changeLog' = [changeLog EXCEPT ![s] = Derived(n, version)]
  BY <1>1, <1>3
<1>5. WarmupTypeOK'
  BY <1>1, <1>2, <1>3, <1>4, DerivedRows DEF WarmupTypeOK
<1>6. OthersKeep(s)
  BY <1>2, <1>3 DEF OthersKeep, WarmupTypeOK
<1>7. length'[s] = n /\ changeLog'[s] = Derived(n, version)
  BY <1>2, <1>3, <1>4 DEF WarmupTypeOK
<1>8. length[s] \in Reaches
  BY <1>2 DEF WarmupTypeOK
<1>9. kept'[s][version] <= n /\ n <= open'[s].at
  BY <1>1, <1>2, <1>3, <1>8 DEF Sound, MarkIsCurrent, Reaches
<1>10. \A v \in Versions : kept'[s][v] # 0 => v <= version
  BY <1>2, <1>3 DEF Sound, NoneFromLater
<1> HIDE DEF n
<1>11. Sound(s)'
  BY <1>1, <1>3, <1>7, <1>9, <1>10, RewrittenIsSound DEF Rewrites
<1> QED BY <1>3, <1>5, <1>6, <1>11, OneSessionStep DEF WarmupInv

\* A live session saves its checkpoint, and is closed or not.
LEMMA SaveSteps ==
    ASSUME WarmupInv, NEW s \in Archive, NEW closes \in BOOLEAN, SaveCheckpoint(s, closes)
    PROVE  WarmupInv'
<1> DEFINE n == open[s].at
<1>1. n \in Reaches /\ length[s] <= n /\ WithFlushed(s) = Derived(n, version)
  BY FlushedRows DEF SaveCheckpoint
<1>2. /\ WarmupTypeOK /\ version \in Versions /\ Sound(s) /\ kept[s][version] \in Reaches
      /\ length[s] \in Reaches /\ open[s] \in Coordinators /\ kept[s] \in [Versions -> Reaches]
  BY DEF WarmupInv, WarmupTypeOK
<1>3. UNCHANGED <<version, work>>
  BY DEF SaveCheckpoint
<1>4. open' = [open EXCEPT ![s] = IF closes THEN Closed ELSE [@ EXCEPT !.mark = kept'[s][version]]]
  BY DEF SaveCheckpoint
<1>5. ASSUME kept'[s][version] \in Reaches
      PROVE  /\ open'[s] \in Coordinators /\ open' \in [Archive -> Coordinators]
             /\ open'[s].loaded = TRUE => open'[s].at = n
             /\ \A t \in Archive \ {s} : open'[t] = open[t]
  <2>1. PICK c : c = IF closes THEN Closed ELSE [open[s] EXCEPT !.mark = kept'[s][version]]
    OBVIOUS
  <2>2. c \in Coordinators /\ (c.loaded = TRUE => c.at = n)
    BY <1>2, <1>5, <2>1, ClosedFacts DEF Coordinators
  <2>3. open' = [open EXCEPT ![s] = c]
    BY <1>4, <2>1
  <2> QED BY <1>2, <2>2, <2>3 DEF WarmupTypeOK
<1>6. CASE UNCHANGED <<length, changeLog, kept>>
  <2>1. WarmupTypeOK'
    BY <1>2, <1>3, <1>5, <1>6 DEF WarmupTypeOK
  <2>2. OthersKeep(s)
    BY <1>2, <1>5, <1>6 DEF OthersKeep
  <2>3. open[s].loaded = TRUE
    BY <1>2 DEF SaveCheckpoint, IsLive, Coordinators
  <2>4. Sound(s)'
    BY <1>1, <1>2, <1>3, <1>5, <1>6, <2>3 DEF Sound, NoneFromLater, LogIsDerived, LiveIsCurrent,
       MarkIsCurrent, Derived
  <2> QED BY <1>3, <2>1, <2>2, <2>4, OneSessionStep DEF WarmupInv
<1>7. CASE /\ length' = [length EXCEPT ![s] = n]
           /\ changeLog' = [changeLog EXCEPT ![s] = WithFlushed(s)]
           /\ kept' = IF n > open[s].mark
                      THEN [kept EXCEPT ![s] = WriteCheckpoint(s, n)] ELSE kept
  <2>1. changeLog' = [changeLog EXCEPT ![s] = Derived(n, version)]
    BY <1>1, <1>7
  <2>2. length'[s] = n /\ changeLog'[s] = Derived(n, version)
    BY <1>2, <1>7, <2>1 DEF WarmupTypeOK
  <2>3. kept'[s] = WriteCheckpoint(s, n) \/ kept'[s] = kept[s]
    BY <1>2, <1>7 DEF WarmupTypeOK
  <2>4. /\ kept'[s][version] <= n /\ kept'[s][version] \in Reaches
        /\ \A v \in Versions : kept'[s][v] # 0 => v <= version
    <3>1. kept[s][version] <= n
      BY <1>1, <1>2 DEF Sound, MarkIsCurrent, Reaches
    <3>2. n <= n
      BY <1>1 DEF Reaches
    <3> QED BY <1>1, <1>2, <2>3, <3>1, <3>2, MarkWritten DEF Sound, NoneFromLater
  <2>5. kept' \in [Archive -> [Versions -> Reaches]]
    BY <1>1, <1>2, <1>7, MarkWritten DEF WarmupTypeOK
  <2>10. /\ open' \in [Archive -> Coordinators]
         /\ open'[s].loaded = TRUE => open'[s].at = n
         /\ \A t \in Archive \ {s} : open'[t] = open[t]
    BY <1>5, <2>4
  <2>11. /\ length' \in [Archive -> Reaches]
         /\ changeLog' \in [Archive -> [Positions -> Reducers]]
    BY <1>1, <1>2, <1>7, <2>1, DerivedRows DEF WarmupTypeOK
  <2>6. WarmupTypeOK'
    BY <1>2, <1>3, <2>5, <2>10, <2>11 DEF WarmupTypeOK
  <2>7. OthersKeep(s)
    BY <1>2, <1>7, <2>10 DEF OthersKeep, WarmupTypeOK
  <2>8. open'[s].loaded = TRUE => n <= open'[s].at
    BY <1>1, <2>10 DEF Reaches
  <2> HIDE DEF n
  <2>9. Sound(s)'
    BY <1>1, <1>3, <2>2, <2>4, <2>8, RewrittenIsSound DEF Rewrites
  <2> QED BY <1>3, <2>6, <2>7, <2>9, OneSessionStep DEF WarmupInv
<1> QED BY <1>6, <1>7 DEF SaveCheckpoint

\* A session is removed with its log and its checkpoints.
LEMMA RemoveSteps ==
    ASSUME WarmupInv, NEW s \in Archive, RemoveSession(s)
    PROVE  WarmupInv'
<1>1. WarmupTypeOK /\ version \in Versions
  BY DEF WarmupInv, WarmupTypeOK
<1>2. /\ open' = [open EXCEPT ![s] = Closed] /\ length' = [length EXCEPT ![s] = 0]
      /\ changeLog' = [changeLog EXCEPT ![s] = NoRows] /\ kept' = [kept EXCEPT ![s] = NoneKept]
      /\ UNCHANGED <<version, work>>
  BY DEF RemoveSession
<1>3. /\ NoRows \in [Positions -> Reducers] /\ NoneKept \in [Versions -> Reaches] /\ 0 \in Reaches
      /\ \A i \in Positions : NoRows[i] = 0 /\ i > 0
      /\ \A v \in Versions : NoneKept[v] = 0
  BY WarmupBounds DEF NoRows, NoneKept, Reaches, Reducers, Positions
<1>4. WarmupTypeOK'
  BY <1>1, <1>2, <1>3, ClosedFacts DEF WarmupTypeOK
<1>5. OthersKeep(s)
  BY <1>1, <1>2 DEF OthersKeep, WarmupTypeOK
<1>6. open'[s] = Closed /\ length'[s] = 0 /\ changeLog'[s] = NoRows /\ kept'[s] = NoneKept
  BY <1>1, <1>2 DEF WarmupTypeOK
<1>7. Sound(s)'
  BY <1>1, <1>2, <1>3, <1>6, ClosedFacts DEF Sound, NoneFromLater, LogIsDerived, LiveIsCurrent,
     MarkIsCurrent
<1> QED BY <1>2, <1>4, <1>5, <1>7, OneSessionStep DEF WarmupInv

\* The daemon is replaced by one of a later version.
LEMMA UpgradeSteps ==
    ASSUME WarmupInv, ~Downgrades, Upgrade
    PROVE  WarmupInv'
<1>1. version' \in Versions /\ version' > version
  BY DEF Upgrade
<1>2. open' = [s \in Archive |-> Closed] /\ work' = Idle /\ UNCHANGED <<length, changeLog, kept>>
  BY DEF Upgrade
<1>3. WarmupTypeOK'
  BY <1>1, <1>2, ClosedFacts DEF WarmupInv, WarmupTypeOK
<1>4. version \in Nat /\ version' \in Nat /\ \A v \in Versions : v \in Nat
  BY <1>1, WarmupBounds DEF WarmupInv, WarmupTypeOK, Versions
<1>5. ASSUME NEW s \in Archive PROVE Sound(s)'
  <2>1. NoneFromLater(s) /\ LogIsDerived(s)
    BY DEF WarmupInv, Sound
  <2>2. kept'[s][version'] = 0
    BY <1>1, <1>2, <1>4, <2>1 DEF NoneFromLater
  <2>3. NoneFromLater(s)'
    <3>1. ASSUME NEW v \in Versions, kept'[s][v] # 0
          PROVE  v <= version'
      <4>1. v <= version
        BY <1>2, <2>1, <3>1 DEF NoneFromLater
      <4> QED BY <1>1, <1>4, <4>1
    <3> QED BY <3>1 DEF NoneFromLater
  <2>4. open'[s] = Closed
    BY <1>2
  <2> QED
    BY <1>2, <2>1, <2>2, <2>3, <2>4, ClosedFacts DEF Sound, LogIsDerived, LiveIsCurrent,
       MarkIsCurrent
<1> QED BY <1>3, <1>5 DEF WarmupInv

\* Every step keeps the invariant.
LEMMA WarmupSteps ==
    ASSUME ~Downgrades, WarmupInv, WarmupNext
    PROVE  WarmupInv'
<1>1. CASE GiveUp
  BY <1>1, ClosedFacts, WorkSteps DEF GiveUp
<1>2. CASE PauseWork
  BY <1>2, WorkSteps DEF PauseWork, WarmupInv, WarmupTypeOK
<1> QED
  BY <1>1, <1>2, SliceSteps, ConcludeSteps, UpgradeSteps, PickSteps, OpenSteps, IngestSteps,
     FlushSteps, SaveSteps, RemoveSteps DEF WarmupNext

\* Where daemons are only replaced by newer ones, a checkpoint of the running
\* version vouches for a log derived by it (sessionCoordinator.ts,
\* historyWarmup.ts).
THEOREM WarmupInvariant ==
    ASSUME ~Downgrades
    PROVE  WarmupSpec => []WarmupInv
<1>1. WarmupInit => WarmupInv
  <2> SUFFICES ASSUME WarmupInit PROVE WarmupInv
    OBVIOUS
  <2>1. /\ NoRows \in [Positions -> Reducers] /\ NoneKept \in [Versions -> Reaches]
        /\ 0 \in Reaches /\ 1 \in Versions
        /\ \A i \in Positions : NoRows[i] = 0 /\ i > 0
        /\ \A v \in Versions : NoneKept[v] = 0
    BY WarmupBounds DEF NoRows, NoneKept, Reaches, Reducers, Positions, Versions
  <2>2. WarmupTypeOK
    BY <2>1, ClosedFacts DEF WarmupInit, WarmupTypeOK
  <2>3. \A s \in Archive : Sound(s)
    BY <2>1, ClosedFacts DEF WarmupInit, Sound, NoneFromLater, LogIsDerived, LiveIsCurrent,
       MarkIsCurrent
  <2> QED BY <2>2, <2>3 DEF WarmupInv
<1>2. WarmupInv /\ [WarmupNext]_warmupVars => WarmupInv'
  <2> SUFFICES ASSUME WarmupInv, [WarmupNext]_warmupVars PROVE WarmupInv'
    OBVIOUS
  <2>1. CASE WarmupNext
    BY <2>1, WarmupSteps
  <2>2. CASE UNCHANGED warmupVars
    BY <2>2, WorkSteps DEF warmupVars, WarmupInv, WarmupTypeOK
  <2> QED BY <2>1, <2>2
<1> QED BY <1>1, <1>2, PTL DEF WarmupSpec

\* Where daemons are only replaced by newer ones, what a session shows was
\* derived by the version that shows it, however warm-up, opening, ingestion
\* and removal interleave.
THEOREM ReplayStaysCurrent ==
    ASSUME ~Downgrades
    PROVE  WarmupSpec => []ReplayIsCurrent
<1>1. WarmupInv => ReplayIsCurrent
  BY DEF WarmupInv, Sound, MarkIsCurrent, ReplayIsCurrent
<1> QED BY <1>1, WarmupInvariant, PTL


-----------------------------------------------------------------------------
(* Reading a provider's database                                           *)

\* Types of the provider's rows, of the cursors, of what the source remembers
\* and of a poll.
Kinds == {"none", "user", "running", "left", "final"}
Cursors == [identity : Nat, position : Nat, count : Nat]
Remembrances == [sequence : Nat, position : Nat, count : Nat]
Polls == [rounds : Nat \ {0}, signature : Nat \X Nat, complete : BOOLEAN, job : BOOLEAN]

\* Types of the rows, the cursors and the poll.
StoreTypeOK ==
    /\ row \in [Numbers -> Kinds]
    /\ sequence \in Nat /\ identity \in Nat
    /\ cursor \in {None} \cup Cursors /\ saved \in {None} \cup Cursors
    /\ remembered \in {None} \cup Remembrances
    /\ poll \in {NoPoll} \cup Polls

\* Numbers are not reused, and a step that runs is not followed by a turn.
RowsAreInOrder ==
    /\ \A s \in Rows : s <= sequence
    /\ \A s \in Rows, t \in Rows : row[s] = "running" /\ t > s => row[t] # "user"

\* What a row shows is recorded under the database and its number.
Event(s, k) == <<<<identity, s>>, k>>

\* What a cursor of this database is past is recorded and will not change.
RecordedTo(p) ==
    \A s \in Rows : s <= p =>
      row[s] # "running" /\ \A k \in Shows(s) : Event(s, k) \in recorded
Covers(c) ==
    c # None =>
      /\ c.identity <= identity
      /\ c.identity = identity =>
           /\ c.position <= sequence
           /\ RecordedTo(c.position)

\* A poll for the job has read what its cursor is past.
OwedIsAhead ==
    /\ owed \subseteq Settled
    /\ poll # NoPoll /\ poll.job = TRUE /\ cursor # None /\ cursor.identity = identity
         => \A s \in Rows : s <= cursor.position => \A k \in Shows(s) : Event(s, k) \notin owed
    /\ job = "completed" => owed = {}

\* A session remembered as read to its end has nothing settled after it.
RememberedIsRead ==
    remembered # None =>
      /\ remembered.sequence <= sequence
      /\ remembered.sequence = sequence =>
           \A s \in Rows : s > remembered.position => \E t \in Rows : t <= s /\ Open(t)

\* The inductive invariant.
StoreInv ==
    StoreTypeOK /\ RowsAreInOrder /\ Covers(cursor) /\ Covers(saved) /\ OwedIsAhead
    /\ RememberedIsRead
-----------------------------------------------------------------------------
\* The bounds are numbers.
LEMMA Limits == MaxSequence \in Nat /\ RowBudget \in Nat
BY StoreTailerAssumption

\* A set of numbers that is not empty has a least.
LEMMA LeastOf ==
    ASSUME NEW S \in SUBSET Nat, S # {}
    PROVE  \E j \in S : \A k \in S : ~(k < j)
<1> DEFINE R == {ss \in Nat \X Nat : ss[1] < ss[2]}
<1>1. IsWellFoundedOn(R, Nat)
  BY NatLessThanWellFounded DEF OpToRel
<1>2. \E j \in S : \A k \in S : ~(<<k, j>> \in R)
  BY <1>1, WFMin
<1> QED BY <1>2

\* One of bounded numbers has a greatest.
LEMMA GreatestOf ==
    ASSUME NEW n \in Nat, NEW S \in SUBSET (0 .. n), S # {}
    PROVE  \E j \in S : \A k \in S : k <= j
<1> DEFINE T == {n - k : k \in S}
<1>1. T \in SUBSET Nat /\ T # {}
  <2>1. \A k \in S : k \in 0 .. n
    OBVIOUS
  <2>2. \A k \in S : n - k \in Nat
    BY <2>1
  <2> QED BY <2>2
<1>2. PICK m \in T : \A k \in T : ~(k < m)
  BY <1>1, LeastOf
<1>3. PICK j \in S : m = n - j
  OBVIOUS
<1>4. ASSUME NEW k \in S
      PROVE  k <= j
  <2>1. ~(n - k < n - j)
    BY <1>2, <1>3
  <2> QED BY <2>1
<1> QED BY <1>4

\* The last of some rows is one of them, or 0.
LEMMA LastIs ==
    ASSUME NEW n \in Nat, NEW S \in SUBSET (0 .. n)
    PROVE  Last(S) \in S \cup {0} /\ \A t \in S : t <= Last(S)
<1>1. \E s \in S \cup {0} : \A t \in S : t <= s
  <2>1. CASE S = {}
    BY <2>1
  <2>2. CASE S # {}
    BY <2>2, GreatestOf
  <2> QED BY <2>1, <2>2
<1> QED BY <1>1 DEF Last

\* There are finitely many rows.
LEMMA RowsAreFinite ==
    /\ Rows \subseteq 1 .. MaxSequence /\ Rows \subseteq 0 .. MaxSequence /\ IsFiniteSet(Rows)
    /\ \A S \in SUBSET Rows : IsFiniteSet(S) /\ Cardinality(S) \in Nat
<1>1. Rows \subseteq 1 .. MaxSequence /\ Rows \subseteq 0 .. MaxSequence
  BY Limits DEF Rows, Numbers
<1>2. IsFiniteSet(1 .. MaxSequence)
  BY Limits, FS_Interval
<1>3. IsFiniteSet(Rows)
  BY <1>1, <1>2, FS_Subset
<1>4. \A S \in SUBSET Rows : IsFiniteSet(S) /\ Cardinality(S) \in Nat
  BY <1>3, FS_Subset, FS_CardinalityType
<1> QED BY <1>1, <1>3, <1>4

\* What is settled is shown by a row that waits for no other.
LEMMA SettledIs ==
    ASSUME NEW e \in Settled
    PROVE  \E s \in Rows : /\ \E k \in Shows(s) : e = Event(s, k)
                           /\ \A t \in Rows : t <= s => ~Open(t)
<1>1. PICK s \in Rows : /\ e \in {<<identity, s>>} \X Shows(s)
                        /\ \A t \in Rows : t < s => ~Open(t)
  BY DEF Settled, Readable, EventsOf
<1>2. row[s] # "running"
  BY <1>1 DEF Settled, EventsOf
<1>3. row[s] # "left"
  BY <1>1 DEF Shows
<1>4. ~Open(s)
  BY <1>2, <1>3 DEF Open
<1>5. \E k \in Shows(s) : e = Event(s, k)
  BY <1>1 DEF Event
<1>6. \A t \in Rows : t <= s => t < s \/ t = s
  BY DEF Rows, Numbers
<1> QED BY <1>1, <1>4, <1>5, <1>6

-----------------------------------------------------------------------------
\* Reading goes on within what the cursor covers, whatever was reverted or
\* replaced.
LEMMA FromIs ==
    ASSUME StoreTypeOK, Covers(cursor)
    PROVE  /\ From(cursor) \in Cursors /\ From(cursor).identity = identity
           /\ From(cursor).position <= sequence
           /\ RecordedTo(From(cursor).position)
           /\ \A s \in Rows : s <= From(cursor).position =>
                cursor # None /\ cursor.identity = identity /\ s <= cursor.position
<1>1. identity \in Nat /\ sequence \in Nat /\ \A s \in Rows : s \in Nat /\ s > 0
  BY DEF StoreTypeOK, Rows, Numbers
<1>2. \A s \in Rows : ~(s <= 0)
  BY <1>1
<1>3. CASE ~(cursor # None /\ cursor.identity = identity)
  <2>1. From(cursor) = [identity |-> identity, position |-> 0, count |-> 0]
    BY <1>3 DEF From
  <2> QED BY <1>1, <1>2, <2>1 DEF Cursors, RecordedTo
<1>4. CASE cursor # None /\ cursor.identity = identity
  <2>1. cursor \in Cursors
    BY <1>4 DEF StoreTypeOK
  <2>2. /\ cursor.position \in Nat /\ cursor.position <= sequence
        /\ RecordedTo(cursor.position)
    BY <1>4, <2>1 DEF Covers, Cursors
  <2>3. PICK remaining : remaining = Cardinality(Through(cursor.position))
    OBVIOUS
  <2>4. remaining \in Nat /\ Through(cursor.position) \subseteq Rows
    BY <2>3, RowsAreFinite DEF Through
  <2>5. CASE ~(remaining < cursor.count)
    <3>1. From(cursor) = cursor
      BY <1>4, <2>3, <2>5 DEF From
    <3> QED BY <1>4, <2>1, <2>2, <3>1
  <2>6. CASE remaining < cursor.count
    <3>1. PICK p : p = Last(Through(cursor.position))
      OBVIOUS
    <3>2. From(cursor) = [identity |-> identity, position |-> p, count |-> remaining]
      BY <1>4, <2>3, <2>6, <3>1 DEF From
    <3>3. Through(cursor.position) \in SUBSET (0 .. MaxSequence)
      BY <2>4, RowsAreFinite
    <3>4. p \in Through(cursor.position) \cup {0}
      BY <3>1, <3>3, Limits, LastIs
    <3>5. p \in Nat /\ p <= cursor.position
      BY <1>1, <2>2, <3>4 DEF Through
    <3>6. \A s \in Rows : s <= p => s <= cursor.position
      BY <1>1, <2>2, <3>5
    <3>7. From(cursor) \in Cursors /\ From(cursor).position = p /\ From(cursor).identity = identity
      BY <1>1, <2>4, <3>2, <3>5 DEF Cursors
    <3>8. RecordedTo(p)
      BY <2>2, <3>6 DEF RecordedTo
    <3> QED BY <1>1, <1>4, <2>2, <3>5, <3>6, <3>7, <3>8
  <2> QED BY <2>5, <2>6
<1> QED BY <1>3, <1>4

\* What is taken is next in order and final.
LEMMA TakenIs ==
    ASSUME NEW c \in Cursors
    PROVE  /\ Taken(c) \subseteq Rows /\ Ahead(c) \subseteq Rows
           /\ \A s \in Taken(c) : s > c.position /\ ~Open(s)
           /\ \A s \in Taken(c) : \A k \in Shows(s) : Event(s, k) \in Read(c)
           /\ \A s \in Taken(c), t \in Rows : t > c.position /\ t <= s => t \in Taken(c)
<1>1. Taken(c) \subseteq Ahead(c) /\ Ahead(c) \subseteq Rows /\ \A s \in Ahead(c) : s > c.position
  BY DEF Taken, Ahead
<1>2. \A s \in Taken(c) : s <= s
  BY <1>1 DEF Rows, Numbers
<1>3. \A s \in Taken(c) : s > c.position /\ ~Open(s)
  BY <1>1, <1>2 DEF Taken
<1>4. ASSUME NEW s \in Taken(c), NEW t \in Rows, t > c.position, t <= s
      PROVE  t \in Taken(c)
  <2> DEFINE Upto(x) == {u \in Rows : u > c.position /\ u <= x}
  <2>1. Upto(t) \subseteq Upto(s)
    BY <1>1, <1>4 DEF Rows, Numbers
  <2>2. Cardinality(Upto(t)) <= Cardinality(Upto(s)) /\ Cardinality(Upto(t)) \in Nat
        /\ Cardinality(Upto(s)) \in Nat
    BY <2>1, RowsAreFinite, FS_Subset
  <2>3. s \in Ahead(c) /\ Cardinality(Upto(s)) <= RowBudget
    BY <1>1 DEF Ahead
  <2>4. Cardinality(Upto(t)) <= RowBudget
    BY <2>2, <2>3, Limits
  <2>5. t \in Ahead(c)
    BY <1>4, <2>4 DEF Ahead
  <2>6. \A u \in Ahead(c) : u <= t => u <= s
    BY <1>1, <1>4 DEF Rows, Numbers
  <2> QED BY <2>5, <2>6 DEF Taken
<1>5. \A s \in Taken(c) : \A k \in Shows(s) : Event(s, k) \in Read(c)
  BY DEF Read, EventsOf, Event
<1> QED BY <1>1, <1>3, <1>4, <1>5

\* After a round the cursor is past what it was past, and what was taken.
LEMMA AfterIs ==
    ASSUME StoreTypeOK, RowsAreInOrder, NEW c \in Cursors, c.position <= sequence
    PROVE  /\ After(c) \in Cursors /\ After(c).identity = c.identity
           /\ After(c).position <= sequence
           /\ \A s \in Rows : s <= After(c).position <=> (s <= c.position \/ s \in Taken(c))
<1>1. PICK p : p = Last(Taken(c) \cup {c.position})
  OBVIOUS
<1>2. PICK n : n = c.count + Cardinality(Taken(c))
  OBVIOUS
<1>3. After(c) = [c EXCEPT !.position = p, !.count = n]
  BY <1>1, <1>2 DEF After
<1>4. /\ c.position \in Nat /\ c.count \in Nat /\ sequence \in Nat
      /\ Taken(c) \subseteq Rows /\ Cardinality(Taken(c)) \in Nat
      /\ Rows \subseteq 1 .. MaxSequence
      /\ \A s \in Taken(c) : s \in Nat /\ s <= sequence /\ s > c.position
  BY TakenIs, RowsAreFinite DEF Cursors, StoreTypeOK, RowsAreInOrder, Rows, Numbers
<1>5. Taken(c) \cup {c.position} \in SUBSET (0 .. sequence)
  BY <1>4
<1>6. p \in Taken(c) \cup {c.position} \cup {0} /\ \A t \in Taken(c) \cup {c.position} : t <= p
  BY <1>1, <1>4, <1>5, LastIs
<1>7. p \in Nat /\ p <= sequence /\ p >= c.position
  BY <1>4, <1>6
<1>8. p \in Taken(c) \/ p = c.position
  BY <1>4, <1>6, <1>7
<1>9. ASSUME NEW s \in Rows, s <= p, ~(s <= c.position)
      PROVE  s \in Taken(c)
  <2>1. s \in Nat /\ s > c.position
    BY <1>4, <1>9 DEF Rows, Numbers
  <2>2. p \in Taken(c)
    BY <1>8, <1>9
  <2> QED BY <1>9, <2>1, <2>2, TakenIs
<1>10. \A s \in Rows : s <= c.position \/ s \in Taken(c) => s <= p
  BY <1>4, <1>6, <1>7 DEF Rows, Numbers
<1>11. After(c) \in Cursors /\ After(c).identity = c.identity /\ After(c).position = p
  <2>1. n \in Nat /\ p \in Nat
    BY <1>2, <1>4, <1>7
  <2>2. After(c) = [identity |-> c.identity, position |-> p, count |-> n]
    BY <1>3 DEF Cursors
  <2>3. c.identity \in Nat
    BY DEF Cursors
  <2> QED BY <2>1, <2>2, <2>3 DEF Cursors
<1> QED BY <1>7, <1>9, <1>10, <1>11

\* A read within its budget leaves nothing that is settled after it.
LEMMA NothingSettledIsLeft ==
    ASSUME NEW c \in Cursors, ~Exhausted(c), NEW s \in Rows, s > c.position,
           \A t \in Rows : t <= s => ~Open(t)
    PROVE  s \in Taken(c)
<1> DEFINE Upto(x) == {u \in Rows : u > c.position /\ u <= x}
<1>1. /\ Rows \subseteq Nat /\ Rows \subseteq 1 .. MaxSequence /\ Ahead(c) \subseteq Rows
      /\ \A x : Upto(x) \in SUBSET Rows /\ IsFiniteSet(Upto(x)) /\ Cardinality(Upto(x)) \in Nat
  <2>1. \A x : Upto(x) \in SUBSET Rows
    OBVIOUS
  <2> QED BY <2>1, RowsAreFinite, TakenIs
<1>2. \A x \in Rows : x \in Ahead(c) <=> x > c.position /\ Cardinality(Upto(x)) <= RowBudget
  BY DEF Ahead
<1>3. ASSUME NEW x \in Rows, NEW y \in Rows, x <= y
      PROVE  Cardinality(Upto(x)) <= Cardinality(Upto(y))
  <2>1. Upto(x) \in SUBSET Upto(y)
    <3>1. x \in Nat /\ y \in Nat /\ \A u \in Rows : u \in Nat
      BY <1>1
    <3>2. \A u \in Rows : u <= x => u <= y
      BY <1>3, <3>1
    <3> QED BY <3>2
  <2> QED BY <1>1, <2>1, FS_Subset
<1>4. ASSUME s \notin Ahead(c)
      PROVE  FALSE
  <2> DEFINE Beyond == {x \in Rows : x > c.position /\ ~(Cardinality(Upto(x)) <= RowBudget)}
  <2>1. Beyond \in SUBSET Nat /\ s \in Beyond
    BY <1>1, <1>2, <1>4
  <2>2. PICK m \in Beyond : \A k \in Beyond : ~(k < m)
    BY <2>1, LeastOf
  <2>3. Ahead(c) = Upto(m) \ {m}
    <3>1. ASSUME NEW x \in Ahead(c)
          PROVE  x \in Upto(m) \ {m}
      <4>1. x \in Rows /\ x > c.position /\ Cardinality(Upto(x)) <= RowBudget
        BY <1>1, <1>2
      <4>2. ~(m <= x)
        BY <1>1, <1>3, <4>1, Limits
      <4> QED BY <1>1, <4>1, <4>2
    <3>2. ASSUME NEW x \in Upto(m) \ {m}
          PROVE  x \in Ahead(c)
      <4>1. x \in Rows /\ x > c.position /\ x < m
        BY <1>1
      <4> QED BY <1>2, <2>2, <4>1
    <3> QED BY <3>1, <3>2
  <2>4. m \in Upto(m)
    BY <1>1
  <2>5. Cardinality(Ahead(c)) = Cardinality(Upto(m)) - 1 /\ IsFiniteSet(Ahead(c))
    BY <1>1, <2>3, <2>4, FS_RemoveElement
  <2>6. Cardinality(Ahead(c)) >= RowBudget
    BY <1>1, <2>5, Limits
  <2>7. Cardinality(Ahead(c)) <= RowBudget
    <3>1. CASE Ahead(c) = {}
      BY <3>1, FS_EmptySet, Limits
    <3>2. CASE Ahead(c) # {}
      <4>1. Ahead(c) \in SUBSET (0 .. MaxSequence)
        BY <1>1, RowsAreFinite
      <4>2. PICK x \in Ahead(c) : \A k \in Ahead(c) : k <= x
        BY <3>2, <4>1, Limits, GreatestOf
      <4>3. Ahead(c) \in SUBSET Upto(x)
        BY <1>1, <1>2, <4>2
      <4>4. Cardinality(Ahead(c)) <= Cardinality(Upto(x)) /\ Cardinality(Upto(x)) <= RowBudget
        BY <1>1, <1>2, <4>2, <4>3, FS_Subset
      <4>5. Cardinality(Upto(x)) \in Nat /\ Cardinality(Ahead(c)) \in Nat
        BY <1>1, RowsAreFinite
      <4> HIDE DEF Upto
      <4> QED BY <4>4, <4>5, Limits
    <3> QED BY <3>1, <3>2
  <2>8. \A x \in Ahead(c) : x <= s
    <3> SUFFICES ASSUME NEW x \in Ahead(c), ~(x <= s) PROVE FALSE
      OBVIOUS
    <3>1. x \in Rows /\ Cardinality(Upto(x)) <= RowBudget
      BY <1>1, <1>2
    <3>2. x \in Nat /\ s \in Nat
      BY <1>1, <3>1
    <3>3. Cardinality(Upto(s)) <= Cardinality(Upto(x))
      BY <1>3, <3>1, <3>2
    <3>4. Cardinality(Upto(s)) \in Nat /\ Cardinality(Upto(x)) \in Nat
      BY <1>1
    <3>5. Cardinality(Upto(s)) <= RowBudget
      <4> HIDE DEF Upto
      <4> QED BY <3>1, <3>3, <3>4, Limits
    <3> QED BY <1>2, <1>4, <3>5
  <2>9. Taken(c) = Ahead(c)
    BY <1>1, <2>8 DEF Taken
  <2> QED BY <1>1, <2>5, <2>6, <2>7, <2>9, Limits DEF Exhausted
<1>5. \A t \in Ahead(c) : t <= s => ~Open(t)
  BY <1>1
<1> QED BY <1>4, <1>5 DEF Taken
-----------------------------------------------------------------------------
\* What a commit of the provider leaves as it was.
Commits ==
    /\ UNCHANGED <<readerVars, faults>> /\ owed' = owed \cap Settled'
    /\ row' \in [Numbers -> Kinds] /\ RowsAreInOrder'
    /\ \/ /\ identity' = identity /\ sequence' = sequence + 1
          /\ \A s \in Rows' : row'[s] = row[s] \/ row[s] = "running" \/ s > sequence
       \/ identity' = identity + 1 /\ sequence' = sequence /\ Rows' = {}

\* A commit takes back nothing that a cursor covers and makes nothing owed.
LEMMA CommitSteps ==
    ASSUME StoreInv, Commits
    PROVE  StoreInv'
<1> USE DEF readerVars
<1>1. /\ StoreTypeOK /\ RowsAreInOrder /\ sequence \in Nat /\ identity \in Nat
      /\ UNCHANGED <<cursor, saved, remembered, poll, job, recorded>>
  BY DEF StoreInv, StoreTypeOK, Commits
<1>2. StoreTypeOK' /\ RowsAreInOrder'
  BY <1>1 DEF StoreTypeOK, Commits
<1>3. ASSUME NEW c \in Cursors, c.identity <= identity, c.identity = identity',
             c.identity = identity => c.position <= sequence /\ RecordedTo(c.position)
      PROVE  /\ c.identity = identity /\ c.position <= sequence'
             /\ \A s \in Rows' : s <= c.position =>
                  s \in Rows /\ row'[s] = row[s] /\ row'[s] # "running"
                  /\ Shows(s)' = Shows(s)
                  /\ \A k \in Shows(s) : Event(s, k)' = Event(s, k) /\ Event(s, k) \in recorded
  <2>1. c.identity \in Nat /\ c.position \in Nat
    BY DEF Cursors
  <2>2. identity' = identity /\ sequence' = sequence + 1 /\ c.identity = identity
    BY <1>1, <1>3, <2>1 DEF Commits
  <2>3. ASSUME NEW s \in Rows', s <= c.position
        PROVE  s \in Rows /\ row'[s] = row[s] /\ row'[s] # "running"
    <3>1. s \in Numbers /\ s \in Nat /\ row'[s] # "none" /\ ~(s > sequence)
      BY <1>1, <1>3, <2>1, <2>2, <2>3 DEF Rows, Numbers
    <3>2. row'[s] = row[s] \/ row[s] = "running"
      BY <1>1, <2>2, <3>1 DEF Commits
    <3>3. s \in Rows
      BY <3>1, <3>2 DEF Rows
    <3>4. row[s] # "running"
      BY <1>3, <2>2, <2>3, <3>3 DEF RecordedTo
    <3> QED BY <3>2, <3>3, <3>4
  <2>4. ASSUME NEW s \in Rows', s <= c.position
        PROVE  Shows(s)' = Shows(s)
    BY <2>3, <2>4 DEF Shows
  <2>5. \A s, k : Event(s, k)' = Event(s, k)
    BY <2>2 DEF Event
  <2> QED BY <1>1, <1>3, <2>1, <2>2, <2>3, <2>4, <2>5 DEF RecordedTo
<1>4. Covers(cursor)'
  <2>1. cursor # None => cursor \in Cursors /\ cursor.identity \in Nat
    BY <1>1 DEF StoreTypeOK, Cursors
  <2>2. identity' \in Nat /\ identity <= identity'
    BY <1>1 DEF Commits
  <2> QED BY <1>1, <1>3, <2>1, <2>2 DEF StoreInv, Covers, RecordedTo
<1>5. Covers(saved)'
  <2>1. saved # None => saved \in Cursors /\ saved.identity \in Nat
    BY <1>1 DEF StoreTypeOK, Cursors
  <2>2. identity' \in Nat /\ identity <= identity'
    BY <1>1 DEF Commits
  <2> QED BY <1>1, <1>3, <2>1, <2>2 DEF StoreInv, Covers, RecordedTo
<1>6. OwedIsAhead'
  <2>1. owed' \subseteq Settled' /\ owed' \subseteq owed
    BY DEF Commits
  <2>2. job' = "completed" => owed' = {}
    BY <1>1, <2>1 DEF StoreInv, OwedIsAhead
  <2>3. ASSUME poll # NoPoll, poll.job = TRUE, cursor # None, cursor.identity = identity',
               NEW s \in Rows', s <= cursor.position, NEW k \in Shows(s)'
        PROVE  Event(s, k)' \notin owed'
    <3>1. cursor \in Cursors
      BY <1>1, <2>3 DEF StoreTypeOK
    <3>2. cursor.identity = identity /\ s \in Rows /\ k \in Shows(s) /\ Event(s, k)' = Event(s, k)
      BY <1>3, <2>3, <3>1 DEF StoreInv, Covers
    <3> QED BY <2>1, <2>3, <3>2 DEF StoreInv, OwedIsAhead
  <2> QED BY <1>1, <2>1, <2>2, <2>3 DEF OwedIsAhead
<1>7. RememberedIsRead'
  <2>1. remembered # None => remembered.sequence \in Nat
    BY <1>1 DEF StoreTypeOK, Remembrances
  <2>2. CASE sequence' = sequence + 1
    BY <1>1, <2>1, <2>2 DEF StoreInv, RememberedIsRead
  <2>3. CASE sequence' = sequence /\ Rows' = {}
    BY <1>1, <2>1, <2>3 DEF StoreInv, RememberedIsRead
  <2> QED BY <2>2, <2>3 DEF Commits
<1> QED BY <1>2, <1>4, <1>5, <1>6, <1>7 DEF StoreInv

\* The steps of the provider are such commits, unless a new database uses
\* numbers again.
LEMMA ProviderSteps ==
    ASSUME StoreInv, ~NumbersRepeat,
           \/ \E kind \in {"user", "running"} : Add(kind)
           \/ \E s \in Numbers : EndStep(s) \/ Revert(s)
           \/ Replace
    PROVE  StoreInv'
<1>1. /\ row \in [Numbers -> Kinds] /\ sequence \in Nat /\ RowsAreInOrder
      /\ \A s \in Numbers : s \in Nat /\ (s \in Rows <=> row[s] # "none")
  BY DEF StoreInv, StoreTypeOK, Rows, Numbers
<1>2. \A s \in Numbers : s \in Rows' <=> row'[s] # "none"
  BY DEF Rows
<1>3. Rows' \subseteq Numbers /\ Rows \subseteq Numbers
  BY DEF Rows
<1>4. ASSUME NEW kind \in {"user", "running"}, Add(kind)
      PROVE  Commits
  <2>1. /\ UNCHANGED <<readerVars, faults>> /\ owed' = owed \cap Settled'
        /\ identity' = identity /\ sequence' = sequence + 1
        /\ row' = [s \in Numbers |-> IF s = sequence + 1 THEN kind
                                     ELSE IF kind = "user" /\ row[s] = "running" THEN "left"
                                     ELSE row[s]]
    BY <1>4 DEF Add, Commit
  <2>2. row' \in [Numbers -> Kinds]
    BY <1>1, <2>1 DEF Kinds
  <2>3. \A s \in Rows' : row'[s] = row[s] \/ row[s] = "running" \/ s > sequence
    BY <1>1, <1>3, <2>1
  <2>4. \A s \in Rows' : s <= sequence + 1
    <3>1. ASSUME NEW s \in Rows', s # sequence + 1
          PROVE  s \in Rows
      BY <1>1, <1>2, <1>3, <2>1, <3>1
    <3> QED BY <1>1, <1>3, <3>1 DEF RowsAreInOrder
  <2>5. ASSUME NEW s \in Rows', NEW t \in Rows', row'[s] = "running", t > s
        PROVE  row'[t] # "user"
    <3>1. CASE kind = "user"
      BY <1>1, <1>3, <2>1, <2>5, <3>1
    <3>2. CASE kind = "running"
      <4>1. \A u \in Rows : row[u] # "running"
        BY <1>4, <3>2 DEF Add
      <4>2. s = sequence + 1
        BY <1>1, <1>2, <1>3, <2>1, <2>5, <3>2, <4>1
      <4> QED BY <1>1, <1>3, <2>4, <2>5, <4>2
    <3> QED BY <3>1, <3>2
  <2> QED BY <2>1, <2>2, <2>3, <2>4, <2>5 DEF Commits, RowsAreInOrder
<1>5. ASSUME NEW s \in Numbers, EndStep(s)
      PROVE  Commits
  <2>1. /\ UNCHANGED <<readerVars, faults>> /\ owed' = owed \cap Settled'
        /\ identity' = identity /\ sequence' = sequence + 1
        /\ row[s] = "running" /\ row' = [row EXCEPT ![s] = "final"]
    BY <1>5 DEF EndStep, Commit
  <2>2. row' \in [Numbers -> Kinds]
    BY <1>1, <2>1 DEF Kinds
  <2>3. /\ \A t \in Rows' : row'[t] = row[t] \/ row[t] = "running"
        /\ \A t \in Rows' : t \in Rows /\ t <= sequence + 1
        /\ \A t \in Rows' : row'[t] \in {"running", "user"} => row[t] = row'[t]
    BY <1>1, <1>2, <1>3, <2>1 DEF RowsAreInOrder
  <2>4. RowsAreInOrder'
    BY <1>1, <2>1, <2>3 DEF RowsAreInOrder
  <2> QED BY <2>1, <2>2, <2>3, <2>4 DEF Commits
<1>6. ASSUME NEW s \in Numbers, Revert(s)
      PROVE  Commits
  <2>1. /\ UNCHANGED <<readerVars, faults>> /\ owed' = owed \cap Settled'
        /\ identity' = identity /\ sequence' = sequence + 1
        /\ row' = [t \in Numbers |-> IF t >= s THEN "none" ELSE row[t]]
    BY <1>6 DEF Revert, Commit
  <2>2. row' \in [Numbers -> Kinds]
    BY <1>1, <2>1 DEF Kinds
  <2>3. \A t \in Rows' : t \in Rows /\ row'[t] = row[t] /\ t <= sequence + 1
    BY <1>1, <1>2, <1>3, <2>1 DEF RowsAreInOrder
  <2>4. RowsAreInOrder'
    BY <1>1, <2>1, <2>3 DEF RowsAreInOrder
  <2> QED BY <2>1, <2>2, <2>3, <2>4 DEF Commits
<1>7. ASSUME Replace
      PROVE  Commits
  <2>1. /\ UNCHANGED <<readerVars, faults>> /\ owed' = owed \cap Settled'
        /\ identity' = identity + 1 /\ sequence' = sequence
        /\ row' = [t \in Numbers |-> "none"]
    BY <1>7 DEF Replace, Commit
  <2>2. row' \in [Numbers -> Kinds] /\ Rows' = {}
    BY <1>2, <1>3, <2>1 DEF Kinds
  <2> QED BY <2>1, <2>2 DEF Commits, RowsAreInOrder
<1> QED BY <1>4, <1>5, <1>6, <1>7, CommitSteps
-----------------------------------------------------------------------------
\* The provider's database stays as it is while the tailer acts.
LEMMA SameRows ==
    ASSUME UNCHANGED providerVars
    PROVE  /\ UNCHANGED <<row, sequence, identity>>
           /\ Rows' = Rows /\ Settled' = Settled
           /\ \A s : Shows(s)' = Shows(s) /\ Open(s)' = Open(s)
           /\ \A s, k : Event(s, k)' = Event(s, k)
<1>1. UNCHANGED <<row, sequence, identity>>
  BY DEF providerVars
<1>2. Rows' = Rows
  BY <1>1 DEF Rows
<1>3. \A s : Shows(s)' = Shows(s)
  BY <1>1 DEF Shows
<1>4. \A s : Open(s)' = Open(s)
  BY <1>1, <1>2 DEF Open
<1>5. \A s, k : Event(s, k)' = Event(s, k)
  BY <1>1 DEF Event
<1>6. Settled' = Settled
  BY <1>1, <1>2, <1>3, <1>4 DEF Settled, Readable, EventsOf
<1> QED BY <1>1, <1>2, <1>3, <1>4, <1>5, <1>6

\* The steps that leave the cursors where they are, and owe no more.
Rests ==
    /\ UNCHANGED <<providerVars, saved, remembered>>
    /\ recorded \subseteq recorded' /\ owed' \subseteq owed
    /\ cursor' = cursor
    /\ poll' \in {NoPoll} \cup Polls
    /\ poll' # NoPoll => poll # NoPoll /\ poll'.job = poll.job
    /\ job' = "completed" => owed' = {}

\* They keep the invariant.
LEMMA RestingSteps ==
    ASSUME StoreInv, Rests
    PROVE  StoreInv'
<1>1. /\ StoreTypeOK /\ RowsAreInOrder /\ Covers(cursor) /\ Covers(saved) /\ OwedIsAhead
      /\ RememberedIsRead
  BY DEF StoreInv
<1>2. /\ UNCHANGED <<row, sequence, identity, saved, remembered, cursor>>
      /\ Rows' = Rows /\ Settled' = Settled
      /\ \A s : Shows(s)' = Shows(s) /\ Open(s)' = Open(s)
      /\ \A s, k : Event(s, k)' = Event(s, k)
  BY SameRows DEF Rests
<1>3. StoreTypeOK' /\ RowsAreInOrder'
  BY <1>1, <1>2 DEF StoreTypeOK, RowsAreInOrder, Rests
<1>4. Covers(cursor)' /\ Covers(saved)'
  BY <1>1, <1>2 DEF Covers, RecordedTo, Rests
<1>5. OwedIsAhead'
  BY <1>1, <1>2 DEF OwedIsAhead, Rests
<1>6. RememberedIsRead'
  BY <1>1, <1>2 DEF RememberedIsRead
<1> QED BY <1>3, <1>4, <1>5, <1>6 DEF StoreInv

\* The end of a poll completes its job only if all of it went well.
LEMMA PollEnds ==
    ASSUME StoreTypeOK, poll # NoPoll, NEW complete \in BOOLEAN, NEW more \in BOOLEAN,
           Continue(complete, more)
    PROVE  /\ poll' \in {NoPoll} \cup Polls
           /\ poll' # NoPoll => poll'.job = poll.job
           /\ job' = "completed" =>
                job = "completed" \/ (poll.job = TRUE /\ complete = TRUE /\ more = FALSE)
<1>1. poll \in Polls /\ poll.job \in BOOLEAN /\ poll.rounds \in Nat
  BY DEF StoreTypeOK, Polls
<1>2. CASE more
  <2>1. PICK n \in Nat \ {0} : n = poll.rounds + 1
    BY <1>1
  <2>2. poll' = [poll EXCEPT !.rounds = n, !.complete = complete] /\ job' = job
    BY <1>2, <2>1 DEF Continue
  <2>3. poll' \in Polls /\ poll'.job = poll.job
    BY <1>1, <2>1, <2>2 DEF Polls
  <2> QED BY <2>2, <2>3
<1>3. CASE ~more
  BY <1>1, <1>3 DEF Continue, EndPoll
<1> QED BY <1>2, <1>3

\* A poll begins; one for the job reads from the start.
LEMMA StartSteps ==
    ASSUME StoreInv, StartPoll
    PROVE  StoreInv'
<1>1. /\ StoreTypeOK /\ RowsAreInOrder /\ Covers(cursor) /\ Covers(saved) /\ OwedIsAhead
      /\ RememberedIsRead
  BY DEF StoreInv
<1>2. /\ UNCHANGED <<row, sequence, identity, saved, remembered, recorded>>
      /\ Rows' = Rows /\ Settled' = Settled
      /\ \A s : Shows(s)' = Shows(s) /\ Open(s)' = Open(s)
      /\ \A s, k : Event(s, k)' = Event(s, k)
  BY SameRows DEF StartPoll
<1>3. PICK waits \in BOOLEAN : waits = Pending
  <2>1. Pending \in BOOLEAN
    BY DEF Pending
  <2> QED BY <2>1
<1>4. poll' \in Polls /\ poll'.job = waits
  <2>1. Signature \in Nat \X Nat
    BY <1>1 DEF StoreTypeOK, Signature
  <2>2. poll' = [rounds |-> 1, signature |-> Signature, complete |-> TRUE, job |-> waits]
    BY <1>3 DEF StartPoll
  <2> QED BY <2>1, <2>2 DEF Polls
<1>5. RowsAreInOrder' /\ Covers(saved)' /\ RememberedIsRead'
  BY <1>1, <1>2 DEF RowsAreInOrder, Covers, RecordedTo, RememberedIsRead
<1>6. CASE ~Pending
  <2>1. UNCHANGED <<job, cursor, owed>> /\ poll'.job = FALSE
    BY <1>3, <1>4, <1>6 DEF StartPoll
  <2>2. StoreTypeOK' /\ Covers(cursor)' /\ OwedIsAhead'
    BY <1>1, <1>2, <1>4, <2>1 DEF StoreTypeOK, Covers, RecordedTo, OwedIsAhead
  <2> QED BY <1>5, <2>2 DEF StoreInv
<1>7. CASE Pending
  <2>1. cursor' = Forgotten(cursor) /\ owed' = Settled /\ job' = "running"
    BY <1>7 DEF StartPoll
  <2>2. \/ cursor' = None /\ cursor = None
        \/ /\ cursor # None /\ cursor' \in Cursors
           /\ cursor'.position = 0 /\ cursor'.identity = cursor.identity
    <3>1. CASE cursor = None
      BY <2>1, <3>1 DEF Forgotten
    <3>2. CASE cursor # None
      <4>1. cursor \in Cursors /\ cursor' = [cursor EXCEPT !.position = 0, !.count = 0]
        BY <1>1, <2>1, <3>2 DEF StoreTypeOK, Forgotten
      <4> QED BY <3>2, <4>1 DEF Cursors
    <3> QED BY <3>1, <3>2
  <2>3. StoreTypeOK'
    BY <1>1, <1>2, <1>4, <2>2 DEF StoreTypeOK
  <2>4. \A s \in Rows : ~(s <= 0)
    BY DEF Rows, Numbers
  <2>5. Covers(cursor)'
    BY <1>1, <1>2, <2>2, <2>4 DEF Covers, RecordedTo, StoreTypeOK
  <2>6. OwedIsAhead'
    BY <1>2, <2>1, <2>2, <2>4 DEF OwedIsAhead
  <2> QED BY <1>5, <2>3, <2>5, <2>6 DEF StoreInv
<1> QED BY <1>6, <1>7

\* A session is passed over only when nothing settled is after its cursor.
LEMMA PassSteps ==
    ASSUME StoreInv, PassOver
    PROVE  StoreInv'
<1>1. /\ StoreTypeOK /\ OwedIsAhead /\ RememberedIsRead /\ poll # NoPoll /\ poll \in Polls
      /\ Unchanged /\ EndPoll(poll.complete)
      /\ UNCHANGED <<providerVars, cursor, saved, remembered, recorded, owed>>
  BY DEF StoreInv, PassOver, Reading, StoreTypeOK
<1>2. poll' = NoPoll /\ (job' = "completed" => job = "completed" \/ poll.job = TRUE)
  BY <1>1 DEF EndPoll, Polls
<1>3. ASSUME poll.job = TRUE
      PROVE  owed = {}
  <2> SUFFICES ASSUME NEW e \in owed PROVE FALSE
    OBVIOUS
  <2>1. e \in Settled
    BY <1>1 DEF OwedIsAhead
  <2>2. PICK s \in Rows : /\ \E k \in Shows(s) : e = Event(s, k)
                          /\ \A t \in Rows : t <= s => ~Open(t)
    BY <2>1, SettledIs
  <2>3. /\ cursor # None /\ cursor.identity = identity /\ remembered # None
        /\ remembered.sequence = sequence /\ remembered.position = cursor.position
    BY <1>1 DEF Unchanged
  <2>4. ~(s <= cursor.position)
    BY <1>1, <1>3, <2>2, <2>3 DEF OwedIsAhead
  <2>5. s \in Nat /\ cursor.position \in Nat
    BY <1>1, <2>3 DEF StoreTypeOK, Cursors, Rows, Numbers
  <2>6. s > remembered.position
    BY <2>3, <2>4, <2>5
  <2> QED BY <1>1, <2>2, <2>3, <2>6 DEF RememberedIsRead
<1>4. Rests
  BY <1>1, <1>2, <1>3 DEF Rests, OwedIsAhead
<1> QED BY <1>4, RestingSteps

\* A round moves the cursor past what it has made durable, and completes a job
\* only when it left nothing settled.
LEMMA RoundSteps ==
    ASSUME StoreInv, Round
    PROVE  StoreInv'
<1>1. /\ StoreTypeOK /\ RowsAreInOrder /\ Covers(cursor) /\ Covers(saved) /\ OwedIsAhead
      /\ RememberedIsRead /\ poll # NoPoll /\ poll \in Polls /\ poll.complete \in BOOLEAN
      /\ sequence \in Nat /\ identity \in Nat
  BY DEF StoreInv, Round, Reading, StoreTypeOK, Polls
<1>2. /\ UNCHANGED <<row, sequence, identity>>
      /\ Rows' = Rows /\ Settled' = Settled
      /\ \A s : Shows(s)' = Shows(s) /\ Open(s)' = Open(s)
      /\ \A s, k : Event(s, k)' = Event(s, k)
  BY SameRows DEF Round
<1>3. PICK c \in Cursors :
        /\ c = From(cursor) /\ c.identity = identity /\ c.position <= sequence
        /\ RecordedTo(c.position)
        /\ \A s \in Rows : s <= c.position =>
             cursor # None /\ cursor.identity = identity /\ s <= cursor.position
  BY <1>1, FromIs
<1>4. PICK a \in Cursors :
        /\ a = After(c) /\ a.identity = identity /\ a.position <= sequence
        /\ \A s \in Rows : s <= a.position <=> (s <= c.position \/ s \in Taken(c))
  BY <1>1, <1>3, AfterIs
<1>5. PICK read : read = Read(c)
  OBVIOUS
<1>6. PICK full \in BOOLEAN : full = Exhausted(c)
  BY DEF Exhausted
<1>7. owed' = owed \ read /\ remembered' = (IF full THEN remembered
        ELSE [sequence |-> sequence, position |-> a.position, count |-> a.count])
  BY <1>3, <1>4, <1>5, <1>6 DEF Round, Remember
<1>8. \/ /\ recorded \cup read \subseteq recorded' /\ cursor' = a /\ saved' = a
         /\ Continue(poll.complete, full)
      \/ /\ recorded \subseteq recorded' /\ UNCHANGED <<cursor, saved>>
         /\ Continue(FALSE, full) \/ (poll' = NoPoll /\ job' = job)
  BY <1>3, <1>4, <1>5, <1>6 DEF Round, Moved, Abort
<1>9. \A s \in Rows : s \in Nat /\ ~(s <= c.position) => s > c.position
  BY DEF Rows, Numbers, Cursors
\* Nothing settled is left after a read within its budget.
<1>10. ASSUME ~full, NEW s \in Rows, s > c.position, \A t \in Rows : t <= s => ~Open(t)
       PROVE  s \in Taken(c)
  BY <1>6, <1>10, NothingSettledIsLeft
<1>11. ASSUME ~full, poll.job = TRUE
       PROVE  owed' = {}
  <2> SUFFICES ASSUME NEW e \in owed, e \notin read PROVE FALSE
    BY <1>7
  <2>1. e \in Settled
    BY <1>1 DEF OwedIsAhead
  <2>2. PICK s \in Rows : /\ \E k \in Shows(s) : e = Event(s, k)
                          /\ \A t \in Rows : t <= s => ~Open(t)
    BY <2>1, SettledIs
  <2>3. CASE s <= c.position
    BY <1>1, <1>3, <1>11, <2>2, <2>3 DEF OwedIsAhead
  <2>4. CASE ~(s <= c.position)
    <3>1. s > c.position
      BY <2>4 DEF Rows, Numbers, Cursors
    <3>2. s \in Taken(c)
      BY <1>10, <1>11, <2>2, <3>1
    <3> QED BY <1>5, <2>2, <3>2, TakenIs
  <2> QED BY <2>3, <2>4
<1>12. /\ poll' \in {NoPoll} \cup Polls
       /\ poll' # NoPoll => poll'.job = poll.job
       /\ job' = "completed" => owed' = {}
  <2>1. CASE Continue(poll.complete, full)
    <3>1. /\ poll' \in {NoPoll} \cup Polls
          /\ poll' # NoPoll => poll'.job = poll.job
          /\ job' = "completed" => job = "completed" \/ (poll.job = TRUE /\ full = FALSE)
      BY <1>1, <2>1, PollEnds
    <3> QED BY <1>1, <1>7, <1>11, <3>1 DEF OwedIsAhead
  <2>2. CASE Continue(FALSE, full)
    <3>1. /\ poll' \in {NoPoll} \cup Polls
          /\ poll' # NoPoll => poll'.job = poll.job
          /\ job' = "completed" => job = "completed"
      BY <1>1, <2>2, PollEnds
    <3> QED BY <1>1, <1>7, <3>1 DEF OwedIsAhead
  <2>3. CASE poll' = NoPoll /\ job' = job
    BY <1>1, <1>7, <2>3 DEF OwedIsAhead
  <2> QED BY <1>8, <2>1, <2>2, <2>3
<1>13. remembered' \in {None} \cup Remembrances
  <2>1. a.position \in Nat /\ a.count \in Nat
    BY DEF Cursors
  <2> QED BY <1>1, <1>7, <2>1 DEF StoreTypeOK, Remembrances
<1>14. StoreTypeOK'
  BY <1>1, <1>2, <1>8, <1>12, <1>13 DEF StoreTypeOK
<1>15. RowsAreInOrder'
  BY <1>1, <1>2 DEF RowsAreInOrder
<1>16. RememberedIsRead'
  <2>1. CASE full
    BY <1>1, <1>2, <1>7, <2>1 DEF RememberedIsRead
  <2>2. CASE ~full
    <3>1. remembered'.sequence = sequence /\ remembered'.position = a.position
      BY <1>7, <2>2
    <3>2. ASSUME NEW s \in Rows, s > a.position
          PROVE  \E t \in Rows : t <= s /\ Open(t)
      <4>1. ~(s <= a.position)
        BY <3>2 DEF Rows, Numbers, Cursors
      <4>2. ~(s <= c.position) /\ s \notin Taken(c)
        BY <1>4, <4>1
      <4>3. s > c.position
        BY <4>2 DEF Rows, Numbers, Cursors
      <4> QED BY <1>10, <2>2, <4>2, <4>3
    <3> QED BY <1>1, <1>2, <3>1, <3>2 DEF RememberedIsRead
  <2> QED BY <2>1, <2>2
<1>17. CASE /\ recorded \cup read \subseteq recorded' /\ cursor' = a /\ saved' = a
  <2>1. ASSUME NEW s \in Taken(c)
        PROVE  row[s] # "running"
    <3>1. s \in Rows /\ ~Open(s)
      BY TakenIs
    <3> QED BY <1>1, <3>1 DEF Open, RowsAreInOrder
  <2>2. ASSUME NEW s \in Rows, s <= a.position
        PROVE  row[s] # "running" /\ \A k \in Shows(s) : Event(s, k) \in recorded'
    <3>1. CASE s <= c.position
      BY <1>3, <1>17, <3>1 DEF RecordedTo
    <3>2. CASE s \in Taken(c)
      BY <1>5, <1>17, <2>1, <3>2, TakenIs
    <3> QED BY <1>4, <2>2, <3>1, <3>2
  <2>3. Covers(cursor)' /\ Covers(saved)'
    BY <1>1, <1>2, <1>4, <1>17, <2>2 DEF Covers, RecordedTo
  <2>4. ASSUME poll' # NoPoll, poll'.job = TRUE, NEW s \in Rows, s <= a.position, NEW k \in Shows(s)
        PROVE  Event(s, k) \notin owed'
    <3>1. CASE s <= c.position
      BY <1>1, <1>3, <1>7, <1>12, <2>4, <3>1 DEF OwedIsAhead
    <3>2. CASE s \in Taken(c)
      BY <1>5, <1>7, <3>2, TakenIs
    <3> QED BY <1>4, <2>4, <3>1, <3>2
  <2>5. OwedIsAhead'
    BY <1>1, <1>2, <1>7, <1>12, <1>17, <2>4 DEF OwedIsAhead
  <2> QED BY <1>14, <1>15, <1>16, <2>3, <2>5 DEF StoreInv
<1>18. CASE recorded \subseteq recorded' /\ UNCHANGED <<cursor, saved>>
  <2>1. Covers(cursor)' /\ Covers(saved)'
    BY <1>1, <1>2, <1>18 DEF Covers, RecordedTo
  <2>2. OwedIsAhead'
    BY <1>1, <1>2, <1>7, <1>12, <1>18 DEF OwedIsAhead
  <2> QED BY <1>14, <1>15, <1>16, <2>1, <2>2 DEF StoreInv
<1> QED BY <1>8, <1>17, <1>18

\* A poll breaks off, the queue is flushed, the tailer crashes.
LEMMA TailerSteps ==
    ASSUME StoreInv, BreakOff \/ FlushQueue \/ CrashTailer
    PROVE  StoreInv'
<1>1. /\ StoreTypeOK /\ RowsAreInOrder /\ Covers(cursor) /\ Covers(saved) /\ OwedIsAhead
      /\ RememberedIsRead
  BY DEF StoreInv
<1>2. CASE BreakOff
  <2>1. poll' = NoPoll /\ (job' = "completed" => job = "completed")
    BY <1>2 DEF BreakOff, EndPoll
  <2>2. Rests
    BY <1>1, <1>2, <2>1 DEF Rests, BreakOff, OwedIsAhead
  <2> QED BY <2>2, RestingSteps
<1>3. CASE FlushQueue
  <2>1. Rests
    BY <1>1, <1>3 DEF Rests, FlushQueue, OwedIsAhead, StoreTypeOK
  <2> QED BY <2>1, RestingSteps
<1>4. CASE CrashTailer
  <2>1. /\ UNCHANGED <<row, sequence, identity>>
        /\ Rows' = Rows /\ Settled' = Settled
        /\ \A s : Shows(s)' = Shows(s) /\ Open(s)' = Open(s)
        /\ \A s, k : Event(s, k)' = Event(s, k)
    BY <1>4, SameRows DEF CrashTailer
  <2>2. /\ cursor' = saved /\ saved' = saved /\ remembered' = None /\ poll' = NoPoll
        /\ UNCHANGED <<job, recorded, owed>>
    BY <1>4 DEF CrashTailer
  <2>3. StoreTypeOK' /\ RowsAreInOrder'
    BY <1>1, <2>1, <2>2 DEF StoreTypeOK, RowsAreInOrder
  <2>4. Covers(cursor)' /\ Covers(saved)'
    BY <1>1, <2>1, <2>2 DEF Covers, RecordedTo
  <2>5. OwedIsAhead' /\ RememberedIsRead'
    BY <1>1, <2>1, <2>2 DEF OwedIsAhead, RememberedIsRead
  <2> QED BY <2>3, <2>4, <2>5 DEF StoreInv
<1> QED BY <1>2, <1>3, <1>4

\* Every step keeps the invariant.
LEMMA StoreStep ==
    ASSUME ~NumbersRepeat
    PROVE  StoreInv /\ [StoreNext]_storeVars => StoreInv'
<1> SUFFICES ASSUME StoreInv, [StoreNext]_storeVars PROVE StoreInv'
  OBVIOUS
<1>1. CASE UNCHANGED storeVars
  <2>1. Rests
    BY <1>1 DEF storeVars, readerVars, Rests, StoreInv, StoreTypeOK, OwedIsAhead
  <2> QED BY <2>1, RestingSteps
<1>2. CASE StoreNext
  BY <1>2, ProviderSteps, StartSteps, PassSteps, RoundSteps, TailerSteps DEF StoreNext, Poll
<1> QED BY <1>1, <1>2

\* It holds at the start.
LEMMA StoreStart == StoreInit => StoreInv
<1> SUFFICES ASSUME StoreInit PROVE StoreInv
  OBVIOUS
<1>1. Rows = {}
  BY DEF StoreInit, Rows
<1>2. StoreTypeOK
  BY DEF StoreInit, StoreTypeOK, Kinds
<1> QED BY <1>1, <1>2
        DEF StoreInit, StoreInv, RowsAreInOrder, Covers, OwedIsAhead, RememberedIsRead

\* What a cursor is past is durable, and a job owes only what is ahead of its
\* cursor, in every reachable state (storeSource.ts, storeTailer.ts).
THEOREM StoreInvariant ==
    ASSUME ~NumbersRepeat
    PROVE  StoreSpec => []StoreInv
BY StoreStart, StoreStep, PTL DEF StoreSpec

\* The stored cursor is past nothing that is not recorded, and a re-ingest job
\* that completed has read again everything it had to, for any rows, rounds,
\* reverts, replaced databases, failed writes and crashes.
THEOREM PassesNothingOver ==
    ASSUME ~NumbersRepeat
    PROVE  StoreSpec => []NothingPassedOver
<1>1. StoreInv => NothingPassedOver
  <2> SUFFICES ASSUME StoreInv PROVE NothingPassedOver
    OBVIOUS
  <2>1. StoreCursorCovers
    BY DEF StoreInv, Covers, RecordedTo, StoreCursorCovers, EventsOf, Through, Event
  <2> QED BY <2>1 DEF StoreInv, OwedIsAhead, NothingPassedOver
<1> QED BY <1>1, StoreInvariant, PTL
-----------------------------------------------------------------------------
(* Usage: one session at a time, and one page at a time                    *)

\* The events of a session that told of a message, and none.
Told(s, m) == {0} \cup {j \in DOMAIN usageLog[s] : usageLog[s][j] = m}

Progresses == [session : Nat, seq : Nat, complete : BOOLEAN]
Pages == [session : Nat, after : Nat, rows : Seq(Messages),
          from : [session : Int, seq : Nat]]

\* Types of the accounting and of what is counted from it.
UsageTypeOK ==
    /\ standing \in [UsageIds -> {"new", "listed", "forgotten", "retained"}]
    /\ usageLog \in [UsageIds -> Seq(Messages)]
    /\ {accounted, totals, rollup, consumed} \subseteq [UsageIds -> [Messages -> Nat]]
    /\ progress \in Progresses
    /\ fetched \in [Helpers -> Pages]

\* What was stored up to number n, and all that was stored since the upgrade,
\* is accounted, or something later of its message is.
AccountedTo(s, n) ==
    \A j \in DOMAIN usageLog[s] :
        j <= n \/ j > Len(OldUsage[s]) => j <= accounted[s][usageLog[s][j]]

\* How far the backfill vouches for a session.
Came(s) ==
    IF progress.complete \/ s < progress.session THEN Len(OldUsage[s])
    ELSE IF s = progress.session THEN progress.seq ELSE 0

\* A session that is not listed has no events; one that is has those it had.
StandingTells(s) ==
    /\ standing[s] # "listed" => usageLog[s] = <<>> /\ accounted[s] = NoUsage
    /\ standing[s] = "new" => OldUsage[s] = <<>>
    /\ standing[s] = "listed" => Len(OldUsage[s]) <= Len(usageLog[s])

\* What is accounted was told; what was told is accounted as far as the
\* backfill came.
AccountedIsTold(s) ==
    /\ \A m \in Messages : accounted[s][m] \in Told(s, m)
    /\ AccountedTo(s, Came(s))
    /\ totals[s] = accounted[s]

\* Consumed is the last number told, and retention keeps it when the log goes.
ConsumedIsLast(s) ==
    IF standing[s] = "retained"
      THEN progress.complete = TRUE /\ rollup[s] = consumed[s]
      ELSE /\ rollup[s] = NoUsage
           /\ \A m \in Messages :
                consumed[s][m] \in Told(s, m) /\ \A j \in Told(s, m) : j <= consumed[s][m]

\* The backfill is at a session that was listed once, or at the start.
ProgressIsListed ==
    progress.session # 0 =>
        /\ progress.session \in UsageIds
        /\ standing[progress.session] # "new"
        /\ standing[progress.session] = "listed" =>
             progress.seq <= Len(usageLog[progress.session])

\* The rows of a page are still those of its session, unless that is gone.
RowsAreStored(p) ==
    p.session # 0 =>
        /\ p.session \in UsageIds
        /\ standing[p.session] # "new"
        /\ standing[p.session] = "listed" =>
             /\ p.after + Len(p.rows) <= Len(usageLog[p.session])
             /\ \A i \in DOMAIN p.rows : usageLog[p.session][p.after + i] = p.rows[i]
             /\ Len(p.rows) < BatchSize => Len(OldUsage[p.session]) <= p.after + Len(p.rows)

\* A page goes on where the backfill was when it was read, or with the next
\* session: those in between have nothing to be added.
FollowsOn(p) ==
    /\ p.session = p.from.session => p.after = p.from.seq
    /\ p.session # p.from.session => p.after = 0 /\ p.from.session < p.session
    /\ p.session = 0 => p.rows = <<>>
    /\ Len(p.rows) <= BatchSize
    /\ \A s \in Listed :
         p.session = 0 \/ (p.from.session <= s /\ s < p.session) => OldUsage[s] = <<>>

PageInv(p) == p # NoPage => RowsAreStored(p) /\ FollowsOn(p)

UsageInv ==
    /\ UsageTypeOK
    /\ ProgressIsListed
    /\ \A s \in UsageIds : StandingTells(s) /\ AccountedIsTold(s) /\ ConsumedIsLast(s)
    /\ \A w \in Helpers : PageInv(fetched[w])
-----------------------------------------------------------------------------
\* The sessions are numbered, and the bounds are numbers.
LEMMA UsageBounds ==
    /\ UsageIds \subseteq Nat \ {0}
    /\ MaxUsage \in Nat /\ BatchSize \in Nat \ {0}
    /\ \A s \in UsageIds : OldUsage[s] \in Seq(Messages)
BY BackfillAssumption DEF UsageIds

\* The next session is the listed one of the least id beyond, if there is one.
LEMMA NextIsListed ==
    ASSUME NEW s \in Nat
    PROVE  /\ NextListed(s) \in Nat
           /\ NextListed(s) = 0 => \A r \in Listed : r <= s
           /\ NextListed(s) # 0 =>
                /\ NextListed(s) \in Listed /\ s < NextListed(s)
                /\ \A r \in Listed : s < r => NextListed(s) <= r
<1> DEFINE later == {r \in Listed : r > s}
<1>1. Listed \subseteq Nat \ {0}
  BY UsageBounds DEF Listed
<1>2. CASE later = {}
  BY <1>1, <1>2 DEF NextListed
<1>3. CASE later # {}
  <2>1. PICK j \in later : \A k \in later : ~(k < j)
    BY <1>1, <1>3, LeastOf
  <2>2. \A k \in later : j =< k
    BY <1>1, <2>1
  <2>3. Min(later) \in later /\ \A k \in later : Min(later) =< k
    BY <2>2 DEF Min
  <2>4. NextListed(s) = Min(later)
    BY <1>3 DEF NextListed
  <2> QED BY <1>1, <2>3, <2>4
<1> QED BY <1>2, <1>3

\* A number of bounded ones that none exceeds is their Max.
LEMMA MaxOf ==
    ASSUME NEW S \in SUBSET Nat, NEW n \in S, \A k \in S : k <= n
    PROVE  Max(S) = n
<1>1. \A y \in S : n >= y
  OBVIOUS
<1>2. Max(S) \in S /\ \A y \in S : Max(S) >= y
  BY <1>1 DEF Max
<1>3. Max(S) \in Nat /\ n \in Nat /\ Max(S) >= n /\ n >= Max(S)
  BY <1>1, <1>2
<1> HIDE DEF Max
<1> QED BY <1>3

\* After so many rows of a page a message counts by its last row among them,
\* or by what counted before, whichever is later.
Counting(written, rows, before, after, i) ==
    \A m \in Messages :
        /\ written[m] \in {before[m]} \cup {after + k : k \in {l \in 1 .. i : rows[l] = m}}
        /\ before[m] <= written[m]
        /\ \A k \in 1 .. i : rows[k] = m => after + k <= written[m]

\* Writing one row more.
LEMMA UpsertCounts ==
    ASSUME NEW rows \in Seq(Messages), NEW before \in [Messages -> Nat], NEW after \in Nat,
           NEW i \in 1 .. Len(rows), NEW written \in [Messages -> Nat],
           Counting(written, rows, before, after, i - 1)
    PROVE  /\ Upsert(written, rows[i], after + i) \in [Messages -> Nat]
           /\ Counting(Upsert(written, rows[i], after + i), rows, before, after, i)
<1> DEFINE next == Upsert(written, rows[i], after + i)
<1>1. rows[i] \in Messages /\ i \in Nat /\ Len(rows) \in Nat
  OBVIOUS
<1>2. next = [written EXCEPT ![rows[i]] = IF after + i > written[rows[i]]
                                          THEN after + i ELSE written[rows[i]]]
  BY <1>1 DEF Upsert
<1>3. next \in [Messages -> Nat]
  <2>1. after + i \in Nat
    BY <1>1
  <2>2. (IF after + i > written[rows[i]] THEN after + i ELSE written[rows[i]]) \in Nat
    BY <1>1, <2>1
  <2> HIDE DEF next
  <2> QED BY <1>1, <1>2, <2>2
<1>4. ASSUME NEW m \in Messages
      PROVE  /\ next[m] \in {before[m]} \cup {after + k : k \in {l \in 1 .. i : rows[l] = m}}
             /\ before[m] <= next[m]
             /\ \A k \in 1 .. i : rows[k] = m => after + k <= next[m]
  <2>1. /\ written[m] \in {before[m]} \cup {after + k : k \in {l \in 1 .. i - 1 : rows[l] = m}}
        /\ before[m] <= written[m]
        /\ \A k \in 1 .. i - 1 : rows[k] = m => after + k <= written[m]
    BY DEF Counting
  <2>2. 1 .. i = (1 .. i - 1) \cup {i}
    BY <1>1
  <2>3. CASE m # rows[i]
    <3>1. next[m] = written[m]
      BY <1>2, <2>3
    <3> QED BY <2>1, <2>2, <2>3, <3>1
  <2>4. CASE m = rows[i]
    <3>1. next[m] = IF after + i > written[m] THEN after + i ELSE written[m]
      BY <1>2, <2>4
    <3>2. written[m] \in Nat /\ before[m] \in Nat
      OBVIOUS
    <3>3. next[m] \in {before[m]} \cup {after + k : k \in {l \in 1 .. i : rows[l] = m}}
      <4>1. i \in {l \in 1 .. i : rows[l] = m}
        BY <1>1, <2>4
      <4>2. {l \in 1 .. i - 1 : rows[l] = m} \subseteq {l \in 1 .. i : rows[l] = m}
        BY <2>2
      <4> HIDE DEF next
      <4> QED BY <2>1, <3>1, <4>1, <4>2
    <3>4. ASSUME NEW k \in 1 .. i, rows[k] = m
          PROVE  after + k <= next[m]
      <4>1. CASE k = i
        BY <1>1, <3>1, <3>2, <4>1
      <4>2. CASE k \in 1 .. i - 1
        <5>1. after + k <= written[m]
          BY <2>1, <3>4, <4>2
        <5> QED BY <1>1, <3>1, <3>2, <5>1, <4>2
      <4> QED BY <2>2, <4>1, <4>2
    <3>5. before[m] <= next[m]
      <4> HIDE DEF next
      <4> QED BY <1>1, <2>1, <3>1, <3>2
    <3> HIDE DEF next
    <3> QED BY <3>3, <3>4, <3>5
  <2> QED BY <2>3, <2>4
<1> HIDE DEF next
<1>5. Counting(next, rows, before, after, i)
  BY <1>4 DEF Counting
<1> QED BY <1>3, <1>5 DEF next

\* The number that counts for a message after i rows.
LastCounted(rows, before, after, i) ==
    [m \in Messages |->
        LET S == {before[m]} \cup {after + k : k \in {l \in 1 .. i : rows[l] = m}}
        IN  CHOOSE n \in S : \A k \in S : k <= n]

\* No row changes nothing.
LEMMA NoneCounted ==
    ASSUME NEW before \in [Messages -> Nat], NEW rows, NEW after
    PROVE  Counting(before, rows, before, after, 0)
<1>1. 1 .. 0 = {}
  OBVIOUS
<1> HIDE DEF Counting
<1>2. \A m \in Messages : before[m] \in Nat
  OBVIOUS
<1> QED BY <1>1, <1>2 DEF Counting

\* It counts, and nothing else does.
LEMMA LastCountedCounts ==
    ASSUME NEW rows \in Seq(Messages), NEW before \in [Messages -> Nat], NEW after \in Nat,
           NEW i \in 0 .. Len(rows)
    PROVE  /\ LastCounted(rows, before, after, i) \in [Messages -> Nat]
           /\ Counting(LastCounted(rows, before, after, i), rows, before, after, i)
<1> DEFINE S(m) == {before[m]} \cup {after + k : k \in {l \in 1 .. i : rows[l] = m}}
           last == LastCounted(rows, before, after, i)
<1>1. i \in Nat /\ Len(rows) \in Nat
  OBVIOUS
<1>2. ASSUME NEW m \in Messages
      PROVE  last[m] \in S(m) /\ \A k \in S(m) : k <= last[m]
  <2>1. PICK j \in S(m) : \A k \in S(m) : k <= j
    <3>1. before[m] \in Nat /\ before[m] + after + i \in Nat
      BY <1>1
    <3>2. S(m) \in SUBSET (0 .. before[m] + after + i) /\ S(m) # {}
      BY <1>1, <3>1
    <3> HIDE DEF S
    <3> QED BY <3>1, <3>2, GreatestOf
  <2>2. last[m] = CHOOSE n \in S(m) : \A k \in S(m) : k <= n
    BY DEF LastCounted
  <2> HIDE DEF S, last
  <2> QED BY <2>1, <2>2
<1>3. ASSUME NEW m \in Messages
      PROVE  last[m] \in Nat
  BY <1>1, <1>2
<1>4. last \in [Messages -> Nat]
  <2> DEFINE E(m) == CHOOSE n \in S(m) : \A k \in S(m) : k <= n
  <2>0. last = [m \in Messages |-> E(m)]
    BY DEF LastCounted
  <2>1. last = [m \in Messages |-> last[m]]
    <3> HIDE DEF last, E
    <3> QED BY <2>0
  <2> HIDE DEF last
  <2> QED BY <1>3, <2>1
<1>5. Counting(last, rows, before, after, i)
  <2> SUFFICES ASSUME NEW m \in Messages
               PROVE  /\ last[m] \in S(m)
                      /\ before[m] <= last[m]
                      /\ \A k \in 1 .. i : rows[k] = m => after + k <= last[m]
    BY DEF Counting
  <2>1. ASSUME NEW k \in 1 .. i, rows[k] = m
        PROVE  after + k <= last[m]
    <3>1. after + k \in S(m)
      BY <2>1
    <3> HIDE DEF S, last
    <3> QED BY <1>2, <3>1
  <2>2. before[m] \in S(m)
    OBVIOUS
  <2> HIDE DEF S, last
  <2> QED BY <1>2, <2>1, <2>2
<1> QED BY <1>4, <1>5

\* What counts for a message is determined by the rows.
LEMMA CountingIsUnique ==
    ASSUME NEW rows \in Seq(Messages), NEW before \in [Messages -> Nat], NEW after \in Nat,
           NEW i \in 0 .. Len(rows),
           NEW f \in [Messages -> Nat], NEW g \in [Messages -> Nat],
           Counting(f, rows, before, after, i), Counting(g, rows, before, after, i)
    PROVE  f = g
<1> SUFFICES ASSUME NEW m \in Messages PROVE f[m] = g[m]
  OBVIOUS
<1>1. f[m] \in Nat /\ g[m] \in Nat
  OBVIOUS
<1>2. f[m] <= g[m]
  <2>1. f[m] = before[m] \/ \E k \in 1 .. i : rows[k] = m /\ f[m] = after + k
    BY DEF Counting
  <2> QED BY <2>1 DEF Counting
<1>3. g[m] <= f[m]
  <2>1. g[m] = before[m] \/ \E k \in 1 .. i : rows[k] = m /\ g[m] = after + k
    BY DEF Counting
  <2> QED BY <2>1 DEF Counting
<1> QED BY <1>1, <1>2, <1>3

\* The rows of a page, written one after the other, leave every message at
\* its last record.
LEMMA AddedCounts ==
    ASSUME NEW p, p.rows \in Seq(Messages), p.after \in Nat, p.session \in UsageIds,
           accounted[p.session] \in [Messages -> Nat]
    PROVE  /\ Added(p) \in [Messages -> Nat]
           /\ Counting(Added(p), p.rows, accounted[p.session], p.after, Len(p.rows))
<1> DEFINE n == Len(p.rows)
           before == accounted[p.session]
           Writes(f) == [i \in 0 .. n |->
                           IF i = 0 THEN before ELSE Upsert(f[i - 1], p.rows[i], p.after + i)]
           last == [i \in 0 .. n |-> LastCounted(p.rows, before, p.after, i)]
           written == CHOOSE f : f = Writes(f)
<1>1. n \in Nat
  OBVIOUS
<1>2. last = Writes(last)
  <2>1. ASSUME NEW i \in 0 .. n
        PROVE  last[i] = Writes(last)[i]
    <3>1. CASE i = 0
      <4>1. Counting(before, p.rows, before, p.after, 0)
        BY NoneCounted
      <4>2. 0 \in 0 .. Len(p.rows)
        BY <1>1
      <4>3. LastCounted(p.rows, before, p.after, 0) = before
        <5> DEFINE f == LastCounted(p.rows, before, p.after, 0)
        <5>1. f \in [Messages -> Nat] /\ Counting(f, p.rows, before, p.after, 0)
          BY <4>2, LastCountedCounts
        <5>2. f = before
          <6> HIDE DEF f
          <6> QED BY <4>1, <4>2, <5>1, CountingIsUnique
        <5> QED BY <5>2
      <4> QED BY <1>1, <3>1, <4>3
    <3>2. CASE i \in 1 .. n
      <4> DEFINE f == LastCounted(p.rows, before, p.after, i - 1)
                 g == LastCounted(p.rows, before, p.after, i)
      <4>1. i - 1 \in 0 .. Len(p.rows) /\ i \in 0 .. Len(p.rows) /\ i # 0
        BY <1>1, <3>2
      <4>2. /\ f \in [Messages -> Nat]
            /\ Counting(f, p.rows, before, p.after, i - 1)
        BY <4>1, LastCountedCounts
      <4>3. /\ Upsert(f, p.rows[i], p.after + i) \in [Messages -> Nat]
            /\ Counting(Upsert(f, p.rows[i], p.after + i), p.rows, before, p.after, i)
        <5> HIDE DEF f
        <5> QED BY <3>2, <4>2, UpsertCounts
      <4>4. g \in [Messages -> Nat] /\ Counting(g, p.rows, before, p.after, i)
        BY <4>1, LastCountedCounts
      <4>5. g = Upsert(f, p.rows[i], p.after + i)
        <5> HIDE DEF f, g
        <5> QED BY <4>1, <4>3, <4>4, CountingIsUnique
      <4>6. last[i - 1] = f /\ last[i] = g
        BY <4>1
      <4>7. Writes(last)[i] = Upsert(last[i - 1], p.rows[i], p.after + i)
        BY <4>1
      <4> HIDE DEF f, g, last, Writes
      <4> QED BY <4>5, <4>6, <4>7
    <3> QED BY <1>1, <3>1, <3>2
  <2>2. last = [i \in 0 .. n |-> last[i]] /\ Writes(last) = [i \in 0 .. n |-> Writes(last)[i]]
    OBVIOUS
  <2> HIDE DEF last, Writes
  <2> QED BY <2>1, <2>2
<1>3. written = Writes(written)
  <2> HIDE DEF last, Writes
  <2> QED BY <1>2
<1>4. Added(p) = written[n]
  BY DEF Added
<1> DEFINE Good(i) == /\ written[i] \in [Messages -> Nat]
                      /\ Counting(written[i], p.rows, before, p.after, i)
           wrong == {i \in 0 .. n : ~Good(i)}
<1>5. wrong = {}
  <2> SUFFICES ASSUME wrong # {} PROVE FALSE
    OBVIOUS
  <2>1. PICK i \in wrong : \A k \in wrong : ~(k < i)
    <3>1. wrong \in SUBSET Nat
      OBVIOUS
    <3> HIDE DEF wrong
    <3> QED BY <3>1, LeastOf
  <2>2. i \in 0 .. n /\ ~Good(i)
    OBVIOUS
  <2>3. written[i] = IF i = 0 THEN before ELSE Upsert(written[i - 1], p.rows[i], p.after + i)
    <3>1. Writes(written)[i] = IF i = 0 THEN before ELSE Upsert(written[i - 1], p.rows[i], p.after + i)
      <4> HIDE DEF written
      <4> QED BY <2>2
    <3> HIDE DEF written, Writes
    <3> QED BY <1>3, <3>1
  <2>4. i # 0
    <3>1. Counting(before, p.rows, before, p.after, 0)
      BY NoneCounted
    <3> HIDE DEF written, wrong
    <3> QED BY <2>2, <2>3, <3>1
  <2>5. i \in 1 .. n /\ i - 1 \in 0 .. n /\ i - 1 < i
    BY <1>1, <2>2, <2>4
  <2>6. Good(i - 1)
    <3> HIDE DEF Good
    <3> QED BY <2>1, <2>5
  <2>7. Good(i)
    <3> HIDE DEF written, wrong
    <3>1. written[i - 1] \in [Messages -> Nat] /\ before \in [Messages -> Nat]
      BY <2>6
    <3>2. written[i] = Upsert(written[i - 1], p.rows[i], p.after + i)
      BY <2>3, <2>4
    <3>3. Counting(written[i - 1], p.rows, before, p.after, i - 1)
      BY <2>6
    <3> DEFINE f == written[i - 1]
    <3>4. f \in [Messages -> Nat] /\ Counting(f, p.rows, before, p.after, i - 1)
      BY <3>1, <3>3
    <3>5. /\ Upsert(f, p.rows[i], p.after + i) \in [Messages -> Nat]
          /\ Counting(Upsert(f, p.rows[i], p.after + i), p.rows, before, p.after, i)
      <4> HIDE DEF f, before, Good
      <4> QED BY <2>5, <3>1, <3>4, UpsertCounts
    <3> QED BY <3>2, <3>5
  <2> QED BY <2>2, <2>7
<1>6. Good(n)
  <2>1. n \in 0 .. n
    BY <1>1
  <2> HIDE DEF Good
  <2> QED BY <1>5, <2>1
<1> HIDE DEF written, before
<1> QED BY <1>4, <1>6 DEF before

-----------------------------------------------------------------------------
\* What the steps have in common

\* A step after which a listed session is one that was listed, with what it
\* had, or one that was new.
SessionsGoOn ==
    \A s \in UsageIds :
        /\ standing[s] # "new" => standing'[s] # "new"
        /\ standing'[s] = "listed" =>
             \/ standing[s] = "new"
             \/ /\ standing[s] = "listed"
                /\ Len(usageLog[s]) <= Len(usageLog'[s])
                /\ \A j \in DOMAIN usageLog[s] : usageLog'[s][j] = usageLog[s][j]

\* A page that was read stays good while sessions go on.
LEMMA PagesStay ==
    ASSUME UsageTypeOK, UsageTypeOK', SessionsGoOn,
           \A s \in UsageIds : StandingTells(s),
           NEW p \in Pages \cup {NoPage}, PageInv(p)
    PROVE  PageInv(p)'
<1> SUFFICES ASSUME p # NoPage PROVE (RowsAreStored(p) /\ FollowsOn(p))'
  BY DEF PageInv
<1>1. p \in Pages /\ RowsAreStored(p) /\ FollowsOn(p)
  BY DEF PageInv
<1>2. /\ p.session \in Nat /\ p.after \in Nat /\ p.rows \in Seq(Messages)
      /\ p.from.session \in Int /\ p.from.seq \in Nat
  BY <1>1 DEF Pages
<1>3. RowsAreStored(p)'
  <2> SUFFICES ASSUME p.session # 0
               PROVE  /\ p.session \in UsageIds
                      /\ standing'[p.session] # "new"
                      /\ standing'[p.session] = "listed" =>
                           /\ p.after + Len(p.rows) <= Len(usageLog'[p.session])
                           /\ \A i \in DOMAIN p.rows :
                                usageLog'[p.session][p.after + i] = p.rows[i]
                           /\ Len(p.rows) < BatchSize =>
                                Len(OldUsage[p.session]) <= p.after + Len(p.rows)
    BY DEF RowsAreStored
  <2> DEFINE s == p.session
  <2>1. s \in UsageIds /\ standing[s] # "new" /\ standing'[s] # "new"
    BY <1>1 DEF RowsAreStored, SessionsGoOn
  <2>2. usageLog[s] \in Seq(Messages) /\ usageLog'[s] \in Seq(Messages)
    BY <2>1 DEF UsageTypeOK
  <2> SUFFICES ASSUME standing'[s] = "listed"
               PROVE  /\ p.after + Len(p.rows) <= Len(usageLog'[s])
                      /\ \A i \in DOMAIN p.rows : usageLog'[s][p.after + i] = p.rows[i]
                      /\ Len(p.rows) < BatchSize => Len(OldUsage[s]) <= p.after + Len(p.rows)
    BY <2>1
  <2>3. /\ standing[s] = "listed"
        /\ Len(usageLog[s]) <= Len(usageLog'[s])
        /\ \A j \in DOMAIN usageLog[s] : usageLog'[s][j] = usageLog[s][j]
    BY <2>1 DEF SessionsGoOn
  <2>4. /\ p.after + Len(p.rows) <= Len(usageLog[s])
        /\ \A i \in DOMAIN p.rows : usageLog[s][p.after + i] = p.rows[i]
        /\ Len(p.rows) < BatchSize => Len(OldUsage[s]) <= p.after + Len(p.rows)
    BY <1>1, <2>3 DEF RowsAreStored
  <2>5. ASSUME NEW i \in DOMAIN p.rows
        PROVE  p.after + i \in DOMAIN usageLog[s]
    BY <1>2, <2>2, <2>4
  <2> HIDE DEF s
  <2> QED BY <1>2, <2>2, <2>3, <2>4, <2>5
<1>4. FollowsOn(p)'
  <2>1. ASSUME NEW s \in UsageIds, standing'[s] = "listed",
               p.session = 0 \/ (p.from.session <= s /\ s < p.session)
        PROVE  OldUsage[s] = <<>>
    <3>1. CASE standing[s] = "new"
      BY <3>1 DEF StandingTells
    <3>2. CASE standing[s] = "listed"
      BY <1>1, <2>1, <3>2 DEF FollowsOn, Listed
    <3> QED BY <2>1, <3>1, <3>2 DEF SessionsGoOn
  <2> QED BY <1>1, <2>1 DEF FollowsOn, Listed
<1> QED BY <1>3, <1>4

\* So does the page of a helper that keeps or drops it.
LEMMA HelpersStay ==
    ASSUME UsageTypeOK, UsageTypeOK', SessionsGoOn,
           \A s \in UsageIds : StandingTells(s),
           NEW w \in Helpers, PageInv(fetched[w]), fetched'[w] \in {fetched[w], NoPage}
    PROVE  PageInv(fetched[w])'
<1>1. CASE fetched'[w] = NoPage
  BY <1>1 DEF PageInv
<1>2. CASE fetched'[w] = fetched[w]
  <2>1. PICK p : p = fetched[w]
    OBVIOUS
  <2>2. p \in Pages
    BY <2>1 DEF UsageTypeOK
  <2>3. PageInv(p)
    BY <2>1
  <2>4. PageInv(p)'
    BY <2>2, <2>3, PagesStay
  <2> QED BY <1>2, <2>1, <2>4 DEF PageInv, RowsAreStored, FollowsOn, Listed
<1> QED BY <1>1, <1>2

\* A step that leaves a session's events, accounting and standing alone, and
\* brings the backfill no further, leaves what holds of the session alone.
LEMMA SessionStays ==
    ASSUME NEW s \in UsageIds,
           StandingTells(s), AccountedIsTold(s), ConsumedIsLast(s),
           standing'[s] = standing[s], usageLog'[s] = usageLog[s],
           accounted'[s] = accounted[s], totals'[s] = totals[s],
           rollup'[s] = rollup[s], consumed'[s] = consumed[s],
           progress' = progress
    PROVE  StandingTells(s)' /\ AccountedIsTold(s)' /\ ConsumedIsLast(s)'
<1>1. StandingTells(s)'
  BY DEF StandingTells
<1>2. \A m \in Messages : Told(s, m)' = Told(s, m)
  BY DEF Told
<1>3. Came(s)' = Came(s)
  BY DEF Came
<1>4. AccountedTo(s, Came(s))'
  BY <1>3 DEF AccountedIsTold, AccountedTo
<1>5. AccountedIsTold(s)'
  BY <1>2, <1>4 DEF AccountedIsTold
<1>6. ConsumedIsLast(s)'
  BY <1>2 DEF ConsumedIsLast
<1> QED BY <1>1, <1>5, <1>6

-----------------------------------------------------------------------------
\* Each step keeps what holds of the usage

\* The types of what is kept of one session.
LEMMA UsageTypes ==
    ASSUME UsageTypeOK, NEW s \in UsageIds
    PROVE  /\ usageLog[s] \in Seq(Messages) /\ accounted[s] \in [Messages -> Nat]
           /\ totals[s] \in [Messages -> Nat] /\ consumed[s] \in [Messages -> Nat]
           /\ rollup[s] \in [Messages -> Nat]
           /\ standing[s] \in {"new", "listed", "forgotten", "retained"}
BY DEF UsageTypeOK

\* New usage is accounted as it is stored.
LEMMA StoreUsageStep ==
    ASSUME UsageInv, RowsReturn = FALSE, NEW s \in UsageIds, NEW m \in Messages, StoreUsage(s, m)
    PROVE  UsageInv'
<1> DEFINE n == Len(usageLog[s]) + 1
<1>1. UsageTypeOK
  BY DEF UsageInv
<1>2. standing[s] \in {"new", "listed"}
  BY DEF StoreUsage
<1>3. /\ usageLog[s] \in Seq(Messages) /\ n \in Nat \ {0}
      /\ accounted[s] \in [Messages -> Nat] /\ accounted[s][m] < n
  <2>1. usageLog[s] \in Seq(Messages) /\ n \in Nat \ {0} /\ accounted[s] \in [Messages -> Nat]
    BY <1>1, UsageTypes
  <2>2. accounted[s][m] \in Told(s, m)
    BY DEF UsageInv, AccountedIsTold
  <2> QED BY <2>1, <2>2 DEF Told
<1>4. Upsert(accounted[s], m, n) = [accounted[s] EXCEPT ![m] = n]
  BY <1>3 DEF Upsert
<1>5. /\ standing' = [standing EXCEPT ![s] = "listed"]
      /\ usageLog' = [usageLog EXCEPT ![s] = Append(usageLog[s], m)]
      /\ accounted' = [accounted EXCEPT ![s] = [accounted[s] EXCEPT ![m] = n]]
      /\ totals' = [totals EXCEPT ![s] = accounted'[s]]
      /\ consumed' = [consumed EXCEPT ![s] = [consumed[s] EXCEPT ![m] = n]]
      /\ progress' = progress /\ fetched' = fetched /\ rollup' = rollup
  BY <1>4 DEF StoreUsage
<1>6. /\ standing'[s] = "listed" /\ usageLog'[s] = Append(usageLog[s], m)
      /\ accounted'[s] = [accounted[s] EXCEPT ![m] = n]
      /\ totals'[s] = accounted'[s]
      /\ consumed'[s] = [consumed[s] EXCEPT ![m] = n]
  BY <1>1, <1>5 DEF UsageTypeOK
<1>7. UsageTypeOK'
  <2>1. Append(usageLog[s], m) \in Seq(Messages)
    BY <1>3
  <2>2. [accounted[s] EXCEPT ![m] = n] \in [Messages -> Nat]
    BY <1>3
  <2>3. [consumed[s] EXCEPT ![m] = n] \in [Messages -> Nat]
    BY <1>1, <1>3, UsageTypes
  <2> HIDE DEF n
  <2>4. accounted' \in [UsageIds -> [Messages -> Nat]] /\ consumed' \in [UsageIds -> [Messages -> Nat]]
    BY <1>1, <1>5, <2>2, <2>3 DEF UsageTypeOK
  <2>5. totals' \in [UsageIds -> [Messages -> Nat]]
    BY <1>1, <1>5, <1>6, <2>2 DEF UsageTypeOK
  <2> QED BY <1>1, <1>5, <2>1, <2>4, <2>5 DEF UsageTypeOK
<1>8. /\ Len(usageLog'[s]) = n
      /\ DOMAIN usageLog'[s] = DOMAIN usageLog[s] \cup {n}
      /\ usageLog'[s][n] = m
      /\ \A j \in DOMAIN usageLog[s] : usageLog'[s][j] = usageLog[s][j] /\ j < n
  BY <1>3, <1>6
<1>9. ASSUME NEW k \in Messages
      PROVE  Told(s, k)' = IF k = m THEN Told(s, k) \cup {n} ELSE Told(s, k)
  <2>1. Told(s, k)' = {0} \cup {j \in DOMAIN usageLog'[s] : usageLog'[s][j] = k}
    BY DEF Told
  <2> HIDE DEF n
  <2> QED BY <1>8, <2>1 DEF Told
<1>10. StandingTells(s)'
  <2>1. Len(OldUsage[s]) <= Len(usageLog'[s])
    <3>1. CASE standing[s] = "new"
      <4>1. Len(OldUsage[s]) = 0
        BY <3>1 DEF UsageInv, StandingTells
      <4> QED BY <1>3, <1>8, <4>1
    <3>2. CASE standing[s] = "listed"
      <4>1. Len(OldUsage[s]) <= Len(usageLog[s]) /\ Len(OldUsage[s]) \in Nat
        BY <3>2, UsageBounds DEF UsageInv, StandingTells
      <4> QED BY <1>3, <1>8, <4>1
    <3> QED BY <1>2, <3>1, <3>2
  <2> QED BY <1>6, <2>1 DEF StandingTells
<1>11. AccountedIsTold(s)'
  <2>1. ASSUME NEW k \in Messages
        PROVE  accounted'[s][k] \in Told(s, k)'
    <3>1. accounted[s][k] \in Told(s, k)
      BY DEF UsageInv, AccountedIsTold
    <3> QED BY <1>3, <1>6, <1>9, <3>1
  <2>2. Came(s)' = Came(s)
    BY <1>5 DEF Came
  <2>3. ASSUME NEW j \in DOMAIN usageLog'[s], j <= Came(s) \/ j > Len(OldUsage[s])
        PROVE  j <= accounted'[s][usageLog'[s][j]]
    <3>1. CASE j = n
      BY <1>3, <1>6, <1>8, <3>1
    <3>2. CASE j \in DOMAIN usageLog[s]
      <4>1. j <= accounted[s][usageLog[s][j]]
        BY <2>3, <3>2 DEF UsageInv, AccountedIsTold, AccountedTo
      <4>2. usageLog[s][j] \in Messages /\ j \in Nat /\ j < n /\ usageLog'[s][j] = usageLog[s][j]
        BY <1>3, <1>8, <3>2
      <4> QED BY <1>3, <1>6, <4>1, <4>2
    <3> QED BY <1>8, <3>1, <3>2
  <2>4. AccountedTo(s, Came(s))'
    BY <2>2, <2>3 DEF AccountedTo
  <2> QED BY <1>6, <2>1, <2>4 DEF AccountedIsTold
<1>12. ConsumedIsLast(s)'
  <2>1. /\ rollup[s] = NoUsage
        /\ \A k \in Messages :
             consumed[s][k] \in Told(s, k) /\ \A j \in Told(s, k) : j <= consumed[s][k]
    BY <1>2 DEF UsageInv, ConsumedIsLast
  <2>2. consumed[s] \in [Messages -> Nat]
    BY <1>1, UsageTypes
  <2>3. ASSUME NEW k \in Messages
        PROVE  /\ consumed'[s][k] \in Told(s, k)'
               /\ \A j \in Told(s, k)' : j <= consumed'[s][k]
    <3>1. \A j \in Told(s, k) : j \in Nat /\ j <= n
      BY <1>3 DEF Told
    <3>2. CASE k = m
      BY <1>3, <1>6, <1>9, <2>1, <2>2, <3>1, <3>2
    <3>3. CASE k # m
      BY <1>6, <1>9, <2>1, <2>2, <3>3
    <3> QED BY <3>2, <3>3
  <2> QED BY <1>5, <1>6, <2>1, <2>3 DEF ConsumedIsLast
<1>13. ASSUME NEW r \in UsageIds
       PROVE  StandingTells(r)' /\ AccountedIsTold(r)' /\ ConsumedIsLast(r)'
  <2>1. CASE r = s
    BY <1>10, <1>11, <1>12, <2>1
  <2>2. CASE r # s
    <3>1. /\ standing'[r] = standing[r] /\ usageLog'[r] = usageLog[r]
          /\ accounted'[r] = accounted[r] /\ totals'[r] = totals[r]
          /\ consumed'[r] = consumed[r]
      BY <1>1, <1>5, <2>2 DEF UsageTypeOK
    <3> QED BY <1>5, <3>1, SessionStays DEF UsageInv
  <2> QED BY <2>1, <2>2
<1>14. SessionsGoOn
  <2>1. ASSUME NEW r \in UsageIds, r # s
        PROVE  standing'[r] = standing[r] /\ usageLog'[r] = usageLog[r]
    BY <1>1, <1>5, <2>1 DEF UsageTypeOK
  <2>2. \A r \in UsageIds : standing[r] \in {"new", "listed", "forgotten", "retained"}
    BY <1>1, UsageTypes
  <2>3. \A r \in UsageIds : Len(usageLog[r]) <= Len(usageLog[r])
    BY <1>1, UsageTypes
  <2>4. Len(usageLog[s]) <= Len(usageLog'[s])
    BY <1>3, <1>8
  <2> HIDE DEF n
  <2> QED BY <1>2, <1>6, <1>8, <2>1, <2>2, <2>3, <2>4 DEF SessionsGoOn
<1>15. ASSUME NEW w \in Helpers
       PROVE  PageInv(fetched[w])'
  <2> HIDE DEF n
  <2> QED BY <1>1, <1>5, <1>7, <1>14, HelpersStay DEF UsageInv
<1>16. ProgressIsListed'
  <2>1. ASSUME progress.session # 0
        PROVE  /\ progress.session \in UsageIds
               /\ standing'[progress.session] # "new"
               /\ standing'[progress.session] = "listed" =>
                    progress.seq <= Len(usageLog'[progress.session])
    <3>1. /\ progress.session \in UsageIds /\ standing[progress.session] # "new"
          /\ standing[progress.session] = "listed" =>
               progress.seq <= Len(usageLog[progress.session])
      BY <2>1 DEF UsageInv, ProgressIsListed
    <3>2. progress.seq \in Nat /\ usageLog[progress.session] \in Seq(Messages)
          /\ usageLog'[progress.session] \in Seq(Messages)
      BY <1>1, <1>7, <3>1 DEF UsageTypeOK, Progresses
    <3>3. standing'[progress.session] = "listed" =>
            /\ standing[progress.session] = "listed"
            /\ Len(usageLog[progress.session]) <= Len(usageLog'[progress.session])
      BY <1>14, <3>1 DEF SessionsGoOn
    <3> QED BY <1>14, <3>1, <3>2, <3>3 DEF SessionsGoOn
  <2> QED BY <1>5, <2>1 DEF ProgressIsListed
<1> QED BY <1>7, <1>13, <1>15, <1>16 DEF UsageInv

\* A session's rows go with its accounting.
LEMMA DeletedKeeps ==
    ASSUME UsageInv, NEW s \in Listed, NEW how \in {"forgotten", "retained"}, Deleted(s, how),
           rollup' \in [UsageIds -> [Messages -> Nat]],
           consumed' \in [UsageIds -> [Messages -> Nat]],
           \A r \in UsageIds \ {s} : rollup'[r] = rollup[r] /\ consumed'[r] = consumed[r],
           ConsumedIsLast(s)'
    PROVE  UsageInv'
<1>1. UsageTypeOK
  BY DEF UsageInv
<1>2. s \in UsageIds /\ standing[s] = "listed"
  BY DEF Listed
<1>3. NoUsage \in [Messages -> Nat]
  BY DEF NoUsage
<1>4. UsageTypeOK'
  BY <1>1, <1>2, <1>3 DEF Deleted, UsageTypeOK
<1>5. /\ standing'[s] = how /\ usageLog'[s] = <<>>
      /\ accounted'[s] = NoUsage /\ totals'[s] = NoUsage
      /\ progress' = progress /\ fetched' = fetched
  BY <1>1, <1>2 DEF Deleted, UsageTypeOK
<1>6. ASSUME NEW r \in UsageIds, r # s
      PROVE  /\ standing'[r] = standing[r] /\ usageLog'[r] = usageLog[r]
             /\ accounted'[r] = accounted[r] /\ totals'[r] = totals[r]
  BY <1>1, <1>6 DEF Deleted, UsageTypeOK
<1>7. StandingTells(s)'
  BY <1>5 DEF StandingTells, NoUsage
<1>8. AccountedIsTold(s)'
  <2>1. \A m \in Messages : accounted'[s][m] = 0
    BY <1>5 DEF NoUsage
  <2>2. \A m \in Messages : 0 \in Told(s, m)'
    BY DEF Told
  <2>3. DOMAIN usageLog'[s] = {}
    BY <1>5
  <2>4. AccountedTo(s, Came(s))'
    BY <2>3 DEF AccountedTo
  <2> QED BY <1>5, <2>1, <2>2, <2>4 DEF AccountedIsTold
<1>9. ASSUME NEW r \in UsageIds
      PROVE  StandingTells(r)' /\ AccountedIsTold(r)' /\ ConsumedIsLast(r)'
  <2>1. CASE r = s
    BY <1>7, <1>8, <2>1
  <2>2. CASE r # s
    <3>1. rollup'[r] = rollup[r] /\ consumed'[r] = consumed[r]
      BY <2>2
    <3> QED BY <1>5, <1>6, <2>2, <3>1, SessionStays DEF UsageInv
  <2> QED BY <2>1, <2>2
<1>10. SessionsGoOn
  <2>1. \A r \in UsageIds : Len(usageLog[r]) \in Nat
    BY <1>1, UsageTypes
  <2>2. \A r \in UsageIds : standing[r] \in {"new", "listed", "forgotten", "retained"}
    BY <1>1, UsageTypes
  <2>3. \A r \in UsageIds : Len(usageLog[r]) <= Len(usageLog[r])
    BY <2>1
  <2>4. how # "new" /\ how # "listed"
    OBVIOUS
  <2>5. ASSUME NEW r \in UsageIds, r # s
        PROVE  /\ standing[r] # "new" => standing'[r] # "new"
               /\ standing'[r] = "listed" =>
                    /\ standing[r] = "listed" /\ Len(usageLog[r]) <= Len(usageLog'[r])
                    /\ \A j \in DOMAIN usageLog[r] : usageLog'[r][j] = usageLog[r][j]
    BY <1>6, <2>3, <2>5
  <2> QED BY <1>5, <2>4, <2>5 DEF SessionsGoOn
<1>11. ASSUME NEW w \in Helpers
       PROVE  PageInv(fetched[w])'
  BY <1>1, <1>4, <1>5, <1>10, HelpersStay DEF UsageInv
<1>12. ProgressIsListed'
  BY <1>5, <1>6 DEF ProgressIsListed, UsageInv
<1> QED BY <1>4, <1>9, <1>11, <1>12 DEF UsageInv

\* What is forgotten was not consumed.
LEMMA ForgetUsageStep ==
    ASSUME UsageInv, NEW s \in UsageIds, ForgetUsage(s)
    PROVE  UsageInv'
<1>1. /\ s \in Listed /\ Deleted(s, "forgotten")
      /\ consumed' = [consumed EXCEPT ![s] = NoUsage] /\ rollup' = rollup
  BY DEF ForgetUsage
<1>2. UsageTypeOK /\ standing[s] = "listed"
  BY <1>1 DEF UsageInv, Listed
<1>3. NoUsage \in [Messages -> Nat]
  BY DEF NoUsage
<1>4. /\ rollup' \in [UsageIds -> [Messages -> Nat]]
      /\ consumed' \in [UsageIds -> [Messages -> Nat]]
      /\ consumed'[s] = NoUsage
      /\ \A r \in UsageIds \ {s} : rollup'[r] = rollup[r] /\ consumed'[r] = consumed[r]
  BY <1>1, <1>2, <1>3 DEF UsageTypeOK
<1>5. standing'[s] = "forgotten" /\ usageLog'[s] = <<>>
  BY <1>1, <1>2 DEF Deleted, UsageTypeOK
<1>6. ConsumedIsLast(s)'
  <2>1. rollup[s] = NoUsage
    BY <1>2 DEF UsageInv, ConsumedIsLast
  <2>2. \A m \in Messages : consumed'[s][m] = 0
    BY <1>4 DEF NoUsage
  <2>3. DOMAIN usageLog'[s] = {}
    BY <1>5
  <2>4. \A m \in Messages : Told(s, m)' = {0}
    BY <2>3 DEF Told
  <2> QED BY <1>1, <1>5, <2>1, <2>2, <2>4 DEF ConsumedIsLast, NoUsage
<1> QED BY <1>1, <1>4, <1>6, DeletedKeeps

\* What is accounted of a session that the backfill vouches for is what it
\* said it consumed.
LEMMA AllAccounted ==
    ASSUME UsageInv, NEW s \in UsageIds, standing[s] # "retained", progress.complete = TRUE
    PROVE  totals[s] = consumed[s] /\ rollup[s] = NoUsage
<1>1. UsageTypeOK /\ AccountedIsTold(s)
  BY DEF UsageInv
<1>2. usageLog[s] \in Seq(Messages) /\ OldUsage[s] \in Seq(Messages)
  BY <1>1, UsageTypes, UsageBounds
<1>3. /\ accounted[s] \in [Messages -> Nat] /\ consumed[s] \in [Messages -> Nat]
      /\ totals[s] = accounted[s]
  BY <1>1, UsageTypes DEF AccountedIsTold
<1>4. /\ rollup[s] = NoUsage
      /\ \A m \in Messages :
           consumed[s][m] \in Told(s, m) /\ \A j \in Told(s, m) : j <= consumed[s][m]
  BY DEF UsageInv, ConsumedIsLast
<1>5. \A j \in DOMAIN usageLog[s] : j <= accounted[s][usageLog[s][j]]
  <2>1. Came(s) = Len(OldUsage[s])
    BY DEF Came
  <2> QED BY <1>1, <1>2, <2>1 DEF AccountedIsTold, AccountedTo
<1>6. ASSUME NEW m \in Messages
      PROVE  accounted[s][m] = consumed[s][m]
  <2>1. accounted[s][m] \in Told(s, m)
    BY <1>1 DEF AccountedIsTold
  <2>2. consumed[s][m] \in Told(s, m)
    BY <1>4
  <2>3. accounted[s][m] <= consumed[s][m]
    BY <1>4, <2>1
  <2>4. consumed[s][m] <= accounted[s][m]
    BY <1>2, <1>3, <1>5, <2>2 DEF Told
  <2> QED BY <1>3, <2>3, <2>4
<1> QED BY <1>3, <1>4, <1>6

\* Retention keeps what the backfill has made complete.
LEMMA RetainStep ==
    ASSUME UsageInv, NEW s \in UsageIds, Retain(s)
    PROVE  UsageInv'
<1>1. /\ s \in Listed /\ progress.complete /\ Deleted(s, "retained")
      /\ rollup' = [rollup EXCEPT ![s] = totals[s]] /\ consumed' = consumed
  BY DEF Retain
<1>2. UsageTypeOK /\ standing[s] = "listed"
  BY <1>1 DEF UsageInv, Listed
<1>3. progress.complete = TRUE
  BY <1>1, <1>2 DEF UsageTypeOK, Progresses
<1>4. totals[s] = consumed[s]
  BY <1>2, <1>3, AllAccounted
<1>5. /\ rollup' \in [UsageIds -> [Messages -> Nat]]
      /\ consumed' \in [UsageIds -> [Messages -> Nat]]
      /\ rollup'[s] = totals[s]
      /\ \A r \in UsageIds \ {s} : rollup'[r] = rollup[r] /\ consumed'[r] = consumed[r]
  <2>1. totals[s] \in [Messages -> Nat]
    BY <1>2, UsageTypes
  <2> QED BY <1>1, <1>2, <2>1 DEF UsageTypeOK
<1>6. ConsumedIsLast(s)'
  <2>1. standing'[s] = "retained" /\ progress' = progress
    BY <1>1, <1>2 DEF Deleted, UsageTypeOK
  <2> QED BY <1>1, <1>3, <1>4, <1>5, <2>1 DEF ConsumedIsLast
<1> QED BY <1>1, <1>5, <1>6, DeletedKeeps

\* A step that changes nothing but pages.
LEMMA PagesOnly ==
    ASSUME UsageInv, fetched' \in [Helpers -> Pages],
           UNCHANGED <<standing, usageLog, accounted, totals, progress, rollup, consumed>>,
           NEW w \in Helpers, \A v \in Helpers \ {w} : fetched'[v] = fetched[v],
           PageInv(fetched[w])'
    PROVE  UsageInv'
<1>1. UsageTypeOK /\ UsageTypeOK'
  BY DEF UsageInv, UsageTypeOK
<1>2. ASSUME NEW r \in UsageIds
      PROVE  StandingTells(r)' /\ AccountedIsTold(r)' /\ ConsumedIsLast(r)'
  BY SessionStays DEF UsageInv
<1>3. SessionsGoOn
  BY <1>1, UsageTypes DEF SessionsGoOn
<1>4. ASSUME NEW v \in Helpers
      PROVE  PageInv(fetched[v])'
  <2>1. CASE v = w
    BY <2>1
  <2>2. CASE v # w
    BY <1>1, <1>3, <2>2, HelpersStay DEF UsageInv
  <2> QED BY <2>1, <2>2
<1>5. ProgressIsListed'
  BY DEF UsageInv, ProgressIsListed
<1> QED BY <1>1, <1>2, <1>4, <1>5 DEF UsageInv

\* A page that is lost was not written.
LEMMA KillHelperStep ==
    ASSUME UsageInv, NEW w \in Helpers, KillHelper(w)
    PROVE  UsageInv'
<1>1. UsageTypeOK
  BY DEF UsageInv
<1>2. /\ fetched' = [fetched EXCEPT ![w] = NoPage]
      /\ UNCHANGED <<standing, usageLog, accounted, totals, progress, rollup, consumed>>
  BY DEF KillHelper
<1>3. NoPage \in Pages
  BY DEF NoPage, Pages
<1>4. /\ fetched' \in [Helpers -> Pages] /\ fetched'[w] = NoPage
      /\ \A v \in Helpers \ {w} : fetched'[v] = fetched[v]
  BY <1>1, <1>2, <1>3 DEF UsageTypeOK
<1>5. PageInv(fetched[w])'
  BY <1>4 DEF PageInv
<1> QED BY <1>2, <1>4, <1>5, PagesOnly

\* The rows after a number, as far as a batch goes.
LEMMA BatchOf ==
    ASSUME NEW log \in Seq(Messages), NEW after \in Nat, after <= Len(log)
    PROVE  LET rows == SubSeq(log, after + 1, Min({Len(log), after + BatchSize})) IN
           /\ rows \in Seq(Messages) /\ Len(rows) <= BatchSize
           /\ after + Len(rows) <= Len(log)
           /\ \A i \in DOMAIN rows : log[after + i] = rows[i]
           /\ Len(rows) < BatchSize => Len(log) = after + Len(rows)
<1> DEFINE last == Min({Len(log), after + BatchSize})
           rows == SubSeq(log, after + 1, last)
<1>1. Len(log) \in Nat /\ after + BatchSize \in Nat
  BY UsageBounds
<1>2. last = IF Len(log) <= after + BatchSize THEN Len(log) ELSE after + BatchSize
  <2>1. CASE Len(log) <= after + BatchSize
    <3>1. \A y \in {Len(log), after + BatchSize} : Len(log) =< y
      BY <1>1, <2>1
    <3>2. last \in {Len(log), after + BatchSize} /\ \A y \in {Len(log), after + BatchSize} : last =< y
      BY <3>1 DEF Min
    <3> HIDE DEF last
    <3> QED BY <1>1, <2>1, <3>2
  <2>2. CASE ~(Len(log) <= after + BatchSize)
    <3>1. \A y \in {Len(log), after + BatchSize} : after + BatchSize =< y
      BY <1>1, <2>2
    <3>2. last \in {Len(log), after + BatchSize} /\ \A y \in {Len(log), after + BatchSize} : last =< y
      BY <3>1 DEF Min
    <3> HIDE DEF last
    <3> QED BY <1>1, <2>2, <3>2
  <2> QED BY <2>1, <2>2
<1>3. last \in Nat /\ after <= last /\ last <= Len(log) /\ last <= after + BatchSize
  <2> HIDE DEF last
  <2> QED BY <1>1, <1>2, UsageBounds
<1>4. /\ rows \in Seq(Messages) /\ Len(rows) = last - after
      /\ \A i \in DOMAIN rows : rows[i] = log[after + i]
  <2> HIDE DEF last
  <2>1. \A i \in after + 1 .. last : log[i] \in Messages
    BY <1>1, <1>3
  <2>2. Len(rows) = last - after /\ DOMAIN rows = 1 .. last - after
    BY <1>3
  <2>3. \A i \in 1 .. last - after : rows[i] = log[after + i]
    BY <1>3
  <2>4. rows \in Seq(Messages)
    BY <1>1, <1>3
  <2> QED BY <2>2, <2>3, <2>4
<1> HIDE DEF rows, last
<1>5. /\ Len(rows) <= BatchSize /\ after + Len(rows) <= Len(log)
      /\ Len(rows) < BatchSize => Len(log) = after + Len(rows)
  BY <1>1, <1>2, <1>3, <1>4, UsageBounds
<1> QED BY <1>4, <1>5 DEF rows, last

\* A page is what its session has, from where the backfill is.
LEMMA ReadPageStep ==
    ASSUME UsageInv, NEW w \in Helpers, ReadPage(w)
    PROVE  UsageInv'
<1> DEFINE moves == progress.session \notin Listed /\ NextListed(progress.session) # 0
           s == IF moves THEN NextListed(progress.session) ELSE progress.session
           after == IF moves THEN 0 ELSE progress.seq
           log == IF s \in UsageIds THEN usageLog[s] ELSE <<>>
           rows == SubSeq(log, after + 1, Min({Len(log), after + BatchSize}))
           page == [session |-> s, after |-> after, from |-> Cursor, rows |-> rows]
<1>1. UsageTypeOK /\ UsageIds \subseteq Nat \ {0}
  BY UsageBounds DEF UsageInv
<1>2. /\ fetched' = [fetched EXCEPT ![w] = page]
      /\ UNCHANGED <<standing, usageLog, accounted, totals, progress, rollup, consumed>>
  BY DEF ReadPage
<1>3. progress.session \in Nat /\ progress.seq \in Nat
  BY <1>1 DEF UsageTypeOK, Progresses
<1> DEFINE next == NextListed(progress.session)
<1>4. /\ next \in Nat
      /\ next = 0 => \A r \in Listed : r <= progress.session
      /\ next # 0 =>
           /\ next \in Listed /\ progress.session < next
           /\ \A r \in Listed : progress.session < r => next <= r
  BY <1>3, NextIsListed
<1>5. /\ s \in Nat /\ after \in Nat
      /\ s \in UsageIds \/ s = 0
      /\ s \in UsageIds => standing[s] # "new"
      /\ moves => s = next /\ after = 0 /\ s \in Listed /\ progress.session < s
      /\ ~moves => s = progress.session /\ after = progress.seq
  <2> HIDE DEF next
  <2>1. s = IF progress.session \notin Listed /\ next # 0 THEN next ELSE progress.session
    BY DEF next
  <2>2. moves <=> progress.session \notin Listed /\ next # 0
    BY DEF next
  <2>3. after = IF progress.session \notin Listed /\ next # 0 THEN 0 ELSE progress.seq
    BY DEF next
  <2>4. progress.session # 0 => progress.session \in UsageIds /\ standing[progress.session] # "new"
    BY DEF UsageInv, ProgressIsListed
  <2>5. \A r \in Listed : r \in UsageIds /\ standing[r] = "listed"
    BY DEF Listed
  <2> HIDE DEF s, after, moves
  <2> QED BY <1>1, <1>3, <1>4, <2>1, <2>2, <2>3, <2>4, <2>5
<1>6. log \in Seq(Messages)
  <2> HIDE DEF s
  <2>1. CASE s \in UsageIds
    BY <1>1, <2>1, UsageTypes
  <2>2. CASE s \notin UsageIds
    BY <2>2
  <2> QED BY <2>1, <2>2
<1>7. s \in UsageIds /\ standing[s] = "listed" => after <= Len(log) /\ Len(OldUsage[s]) <= Len(log)
  <2> SUFFICES ASSUME s \in UsageIds, standing[s] = "listed"
               PROVE  after <= Len(log) /\ Len(OldUsage[s]) <= Len(log)
    OBVIOUS
  <2>1. Len(OldUsage[s]) <= Len(usageLog[s])
    <3> HIDE DEF s
    <3> QED BY DEF UsageInv, StandingTells
  <2>2. log = usageLog[s]
    <3> HIDE DEF s
    <3> QED OBVIOUS
  <2>3. Len(log) \in Nat
    <3> HIDE DEF log
    <3> QED BY <1>6
  <2>4. CASE moves
    <3> HIDE DEF s, after, moves, log
    <3> QED BY <1>5, <2>1, <2>2, <2>3, <2>4
  <2>5. CASE ~moves
    <3>1. s = progress.session /\ after = progress.seq
      <4> HIDE DEF s, after, moves
      <4> QED BY <1>5, <2>5
    <3>2. s # 0
      <4> HIDE DEF s
      <4> QED BY <1>1
    <3>3. progress.seq <= Len(usageLog[progress.session])
      <4> HIDE DEF s, after, moves, log
      <4> QED BY <3>1, <3>2 DEF UsageInv, ProgressIsListed
    <3> HIDE DEF s, after, moves, log
    <3> QED BY <2>1, <2>2, <3>1, <3>3
  <2> QED BY <2>4, <2>5
<1>8. s \notin UsageIds \/ standing[s] # "listed" => log = <<>>
  <2>1. \A r \in UsageIds : standing[r] # "listed" => usageLog[r] = <<>>
    BY DEF UsageInv, StandingTells
  <2> HIDE DEF s
  <2> QED BY <2>1
<1>9. /\ rows \in Seq(Messages) /\ Len(rows) <= BatchSize
      /\ log = <<>> => rows = <<>>
      /\ after <= Len(log) =>
           /\ after + Len(rows) <= Len(log)
           /\ \A i \in DOMAIN rows : log[after + i] = rows[i]
           /\ Len(rows) < BatchSize => Len(log) = after + Len(rows)
  <2>1. CASE after <= Len(log)
    <3>1. /\ rows \in Seq(Messages) /\ Len(rows) <= BatchSize
          /\ after + Len(rows) <= Len(log)
          /\ \A i \in DOMAIN rows : log[after + i] = rows[i]
          /\ Len(rows) < BatchSize => Len(log) = after + Len(rows)
      <4> HIDE DEF log, after
      <4> QED BY <1>5, <1>6, <2>1, BatchOf
    <3>2. log = <<>> => rows = <<>>
      <4>1. Len(rows) \in Nat /\ after \in Nat /\ rows \in Seq(Messages)
        <5> HIDE DEF rows, after
        <5> QED BY <1>5, <3>1
      <4>2. log = <<>> => Len(log) = 0
        <5> HIDE DEF log
        <5> QED OBVIOUS
      <4>3. log = <<>> => Len(rows) = 0
        <5> HIDE DEF rows, log, after
        <5> QED BY <3>1, <4>1, <4>2
      <4> HIDE DEF rows, log
      <4> QED BY <4>1, <4>3
    <3> QED BY <3>1, <3>2
  <2>2. CASE ~(after <= Len(log))
    <3>1. log = <<>>
      <4> HIDE DEF s, after, log
      <4> QED BY <1>7, <1>8, <2>2
    <3>2. Min({0, after + BatchSize}) = 0
      <4>1. after + BatchSize \in Nat
        <5> HIDE DEF after
        <5> QED BY <1>5, UsageBounds
      <4>2. \A y \in {0, after + BatchSize} : 0 =< y
        BY <4>1
      <4>3. /\ Min({0, after + BatchSize}) \in {0, after + BatchSize}
            /\ \A y \in {0, after + BatchSize} : Min({0, after + BatchSize}) =< y
        <5> HIDE DEF after
        <5> QED BY <4>2 DEF Min
      <4> HIDE DEF after
      <4> QED BY <4>1, <4>3
    <3>3. rows = SubSeq(<<>>, after + 1, 0)
      <4>1. Len(<<>>) = 0
        OBVIOUS
      <4> HIDE DEF log, after
      <4> QED BY <3>1, <3>2, <4>1
    <3>4. rows = <<>>
      <4> HIDE DEF after, rows
      <4> QED BY <1>5, <3>3
    <3> HIDE DEF rows, log, after
    <3> QED BY <2>2, <3>4, UsageBounds
  <2> QED BY <2>1, <2>2
<1>10. page \in Pages
  <2> HIDE DEF s, after, rows
  <2> QED BY <1>3, <1>5, <1>9 DEF Pages, Cursor
<1>11. /\ fetched' \in [Helpers -> Pages] /\ fetched'[w] = page
       /\ \A v \in Helpers \ {w} : fetched'[v] = fetched[v]
  <2> HIDE DEF page
  <2> QED BY <1>1, <1>2, <1>10 DEF UsageTypeOK
<1>12. /\ page.session = s /\ page.after = after /\ page.rows = rows
       /\ page.from.session = progress.session /\ page.from.seq = progress.seq
  <2> HIDE DEF s, after, rows
  <2> QED BY DEF Cursor
<1>13. RowsAreStored(page)
  <2> HIDE DEF page, s, after, rows, log
  <2>1. s # 0 => s \in UsageIds /\ standing[s] # "new"
    BY <1>5
  <2>2. s \in UsageIds /\ standing[s] = "listed" => log = usageLog[s]
    BY DEF log
  <2> QED BY <1>7, <1>9, <1>12, <2>1, <2>2 DEF RowsAreStored
<1>14. FollowsOn(page)
  <2>1. moves <=> progress.session \notin Listed /\ next # 0
    BY DEF next
  <2> HIDE DEF page, s, after, rows, log, moves, next
  <2>2. 0 \notin UsageIds /\ \A r \in Listed : r \in UsageIds
    BY <1>1 DEF Listed
  <2>3. s = 0 => rows = <<>>
    BY <1>8, <1>9, <2>2
  <2>4. ASSUME NEW r \in Listed, s = 0 \/ (progress.session <= r /\ r < s)
        PROVE  FALSE
    <3>1. r \in Nat \ {0}
      BY <1>1, <2>2
    <3>2. CASE moves
      <4>1. s = next /\ s # 0 /\ progress.session \notin Listed
        BY <1>5, <2>1, <3>2
      <4> QED BY <1>3, <1>4, <2>4, <3>1, <4>1
    <3>3. CASE ~moves
      BY <1>3, <1>4, <1>5, <2>1, <2>2, <2>4, <3>1, <3>3
    <3> QED BY <3>2, <3>3
  <2>5. s = progress.session => after = progress.seq
    BY <1>3, <1>5
  <2>6. s # progress.session => after = 0 /\ progress.session < s
    BY <1>3, <1>5
  <2>7. Len(rows) <= BatchSize
    BY <1>9
  <2> QED BY <1>12, <2>3, <2>4, <2>5, <2>6, <2>7 DEF FollowsOn
<1>15. PageInv(fetched[w])'
  <2> HIDE DEF page
  <2> QED BY <1>2, <1>11, <1>13, <1>14 DEF PageInv, RowsAreStored, FollowsOn, Listed
<1> HIDE DEF page
<1> QED BY <1>2, <1>11, <1>15, PagesOnly


\* The session of a page, once the page is written.
LEMMA PageIsAccounted ==
    ASSUME UsageInv, NEW p \in Pages, p.session \in UsageIds, standing[p.session] = "listed",
           RowsAreStored(p), FollowsOn(p), p.from = Cursor, progress.complete = FALSE,
           NEW written \in [Messages -> Nat],
           Counting(written, p.rows, accounted[p.session], p.after, Len(p.rows))
    PROVE  /\ \A m \in Messages : written[m] \in Told(p.session, m)
           /\ \A j \in DOMAIN usageLog[p.session] :
                j <= p.after + Len(p.rows) \/ j > Len(OldUsage[p.session]) =>
                   j <= written[usageLog[p.session][j]]
<1> DEFINE s == p.session
           log == usageLog[s]
<1>1. /\ log \in Seq(Messages) /\ accounted[s] \in [Messages -> Nat]
      /\ p.after \in Nat /\ p.rows \in Seq(Messages) /\ s \in Nat \ {0}
      /\ progress.session \in Nat /\ progress.seq \in Nat
  BY UsageBounds, UsageTypes DEF UsageInv, Pages, UsageTypeOK, Progresses
<1>2. /\ p.after + Len(p.rows) <= Len(log)
      /\ \A i \in DOMAIN p.rows : log[p.after + i] = p.rows[i]
  BY <1>1 DEF RowsAreStored
<1>3. \A m \in Messages : accounted[s][m] \in Told(s, m)
  BY DEF UsageInv, AccountedIsTold
<1>4. \A j \in DOMAIN log : j <= p.after \/ j > Len(OldUsage[s]) => j <= accounted[s][log[j]]
  <2>1. AccountedTo(s, Came(s))
    BY DEF UsageInv, AccountedIsTold
  <2>2. CASE s = progress.session
    <3>1. p.after = progress.seq
      BY <2>2 DEF FollowsOn, Cursor
    <3>2. Came(s) = progress.seq
      BY <1>1, <2>2 DEF Came
    <3> QED BY <2>1, <3>1, <3>2 DEF AccountedTo
  <2>3. CASE s # progress.session
    <3>1. p.after = 0
      BY <2>3 DEF FollowsOn, Cursor
    <3>2. \A j \in DOMAIN log : ~(j <= 0)
      BY <1>1
    <3> QED BY <2>1, <3>1, <3>2 DEF AccountedTo
  <2> QED BY <2>2, <2>3
<1> HIDE DEF log, s
<1>0. /\ Len(p.rows) \in Nat /\ DOMAIN p.rows = 1 .. Len(p.rows)
      /\ Len(log) \in Nat /\ DOMAIN log = 1 .. Len(log)
  BY <1>1
<1>5. ASSUME NEW m \in Messages
      PROVE  written[m] \in Told(s, m)
  <2>1. written[m] \in {accounted[s][m]}
                       \cup {p.after + k : k \in {l \in 1 .. Len(p.rows) : p.rows[l] = m}}
    BY DEF Counting, s
  <2>2. ASSUME NEW k \in 1 .. Len(p.rows), p.rows[k] = m
        PROVE  p.after + k \in Told(s, m)
    <3>1. k \in DOMAIN p.rows /\ p.after + k \in DOMAIN log
      <4>1. p.after \in Nat
        BY <1>1
      <4> QED BY <1>0, <1>2, <4>1
    <3>2. log[p.after + k] = m
      BY <1>2, <2>2, <3>1
    <3> QED BY <3>1, <3>2 DEF Told, log
  <2> QED BY <1>3, <2>1, <2>2
<1>6. ASSUME NEW j \in DOMAIN log, j <= p.after + Len(p.rows) \/ j > Len(OldUsage[s])
      PROVE  j <= written[log[j]]
  <2>1. j \in Nat /\ log[j] \in Messages
    BY <1>1
  <2>2. /\ accounted[s][log[j]] <= written[log[j]]
        /\ \A k \in 1 .. Len(p.rows) : p.rows[k] = log[j] => p.after + k <= written[log[j]]
    BY <2>1 DEF Counting, s
  <2>3. written[log[j]] \in Nat /\ accounted[s][log[j]] \in Nat
    BY <1>1, <2>1
  <2>4. CASE j <= p.after \/ j > Len(OldUsage[s])
    BY <1>4, <2>1, <2>2, <2>3, <2>4
  <2>5. CASE p.after < j /\ j <= p.after + Len(p.rows)
    <3>1. j - p.after \in 1 .. Len(p.rows) /\ p.after + (j - p.after) = j
      <4>1. p.after \in Nat
        BY <1>1
      <4> QED BY <1>0, <2>1, <2>5, <4>1
    <3>2. p.rows[j - p.after] = log[j]
      BY <1>2, <3>1
    <3> QED BY <2>2, <3>1, <3>2
  <2> QED BY <1>1, <1>6, <2>1, <2>4, <2>5
<1> QED BY <1>5, <1>6 DEF log, s

\* A page is written where the backfill is, or dropped.
LEMMA CommitPageStep ==
    ASSUME UsageInv, NEW w \in Helpers, CommitPage(w)
    PROVE  UsageInv'
<1>1. UsageTypeOK
  BY DEF UsageInv
<1>2. PICK p \in Pages : p = fetched[w]
  BY <1>1 DEF UsageTypeOK
<1> DEFINE full == Len(p.rows) = BatchSize
           next == IF p.session # 0 /\ ~full THEN NextListed(p.session) ELSE 0
           writes == StillThere(p.session) /\ p.rows # <<>>
           moved == IF next # 0 THEN [session |-> next, seq |-> 0, complete |-> FALSE]
                    ELSE [session |-> p.session, seq |-> p.after + Len(p.rows),
                          complete |-> p.session = 0 \/ ~full]
<1>3. /\ p # NoPage /\ fetched' = [fetched EXCEPT ![w] = NoPage]
      /\ UNCHANGED <<standing, usageLog, rollup, consumed>>
      /\ IF progress.complete \/ p.from # Cursor
           THEN UNCHANGED <<accounted, totals, progress>>
           ELSE /\ IF writes
                     THEN /\ accounted' = [accounted EXCEPT ![p.session] = Added(p)]
                          /\ totals' = [totals EXCEPT ![p.session] = accounted'[p.session]]
                     ELSE UNCHANGED <<accounted, totals>>
                /\ progress' = moved
  BY <1>2 DEF CommitPage
<1>4. NoPage \in Pages
  BY DEF NoPage, Pages
<1>5. /\ fetched' \in [Helpers -> Pages] /\ fetched'[w] = NoPage
      /\ \A v \in Helpers \ {w} : fetched'[v] = fetched[v]
  BY <1>1, <1>3, <1>4 DEF UsageTypeOK
<1>6. PageInv(fetched[w])'
  BY <1>5 DEF PageInv
<1>7. CASE progress.complete \/ p.from # Cursor
  <2>1. UNCHANGED <<standing, usageLog, accounted, totals, progress, rollup, consumed>>
    <3> HIDE DEF writes, moved
    <3> QED BY <1>3, <1>7
  <2> QED BY <1>5, <1>6, <2>1, PagesOnly
<1>8. CASE ~(progress.complete \/ p.from # Cursor)
  <2> DEFINE s == p.session
             n == p.after + Len(p.rows)
  <2>1. /\ progress.complete = FALSE /\ p.from = Cursor
        /\ p.from.session = progress.session /\ p.from.seq = progress.seq
    BY <1>1, <1>8 DEF UsageTypeOK, Progresses, Cursor
  <2>2. RowsAreStored(p) /\ FollowsOn(p)
    BY <1>2, <1>3 DEF UsageInv, PageInv
  <2>3. /\ s \in Nat /\ p.after \in Nat /\ p.rows \in Seq(Messages) /\ n \in Nat
        /\ progress.session \in Nat /\ progress.seq \in Nat
        /\ progress.session <= s
    <3>1. /\ s \in Nat /\ p.after \in Nat /\ p.rows \in Seq(Messages) /\ n \in Nat
          /\ progress.session \in Nat /\ progress.seq \in Nat
      BY <1>1 DEF Pages, UsageTypeOK, Progresses
    <3> QED BY <2>1, <2>2, <3>1 DEF FollowsOn
  <2>4. /\ UsageIds \subseteq Nat \ {0}
        /\ \A r \in UsageIds : Len(OldUsage[r]) \in Nat
        /\ s # 0 => s \in UsageIds /\ standing[s] # "new"
    BY <2>2, UsageBounds DEF RowsAreStored
  <2>5. full /\ next = 0 => s # 0
    <3>1. s = 0 => Len(p.rows) = 0
      BY <2>2 DEF FollowsOn
    <3> QED BY <3>1, UsageBounds
  <2>6. ~full => Len(p.rows) < BatchSize
    BY <2>2, <2>3, UsageBounds DEF FollowsOn
  <2>7. /\ next \in Nat
        /\ s # 0 /\ ~full /\ next = 0 => \A r \in Listed : r <= s
        /\ next # 0 => /\ s # 0 /\ ~full /\ next \in Listed /\ s < next
                       /\ \A r \in Listed : s < r => next <= r
    BY <2>3, NextIsListed
  <2>8. /\ progress' = moved
        /\ IF writes
             THEN /\ accounted' = [accounted EXCEPT ![s] = Added(p)]
                  /\ totals' = [totals EXCEPT ![s] = accounted'[s]]
             ELSE UNCHANGED <<accounted, totals>>
    <3> HIDE DEF writes, moved
    <3> QED BY <1>3, <1>8
  <2>9. /\ next # 0 => progress'.session = next /\ progress'.seq = 0 /\ progress'.complete = FALSE
        /\ next = 0 => /\ progress'.session = s /\ progress'.seq = n
                       /\ progress'.complete = (s = 0 \/ ~full)
        /\ progress' \in Progresses
    <3> HIDE DEF next, full
    <3> QED BY <2>3, <2>7, <2>8 DEF Progresses
  <2> HIDE DEF next, moved
  <2>10. writes => s \in UsageIds /\ standing[s] = "listed"
    BY DEF StillThere, Listed
  <2>11. writes => /\ Added(p) \in [Messages -> Nat]
                   /\ Counting(Added(p), p.rows, accounted[s], p.after, Len(p.rows))
    <3> SUFFICES ASSUME writes
                 PROVE  /\ Added(p) \in [Messages -> Nat]
                        /\ Counting(Added(p), p.rows, accounted[s], p.after, Len(p.rows))
      OBVIOUS
    <3>1. accounted[p.session] \in [Messages -> Nat] /\ p.session \in UsageIds
      BY <1>1, <2>10, UsageTypes
    <3>2. p.rows \in Seq(Messages) /\ p.after \in Nat
      BY <2>3
    <3> HIDE DEF writes
    <3> QED BY <3>1, <3>2, AddedCounts
  <2>12. /\ accounted' \in [UsageIds -> [Messages -> Nat]]
         /\ totals' \in [UsageIds -> [Messages -> Nat]]
         /\ \A r \in UsageIds : r # s => accounted'[r] = accounted[r] /\ totals'[r] = totals[r]
    <3>1. CASE writes
      <4>1. /\ accounted' = [accounted EXCEPT ![s] = Added(p)]
            /\ totals' = [totals EXCEPT ![s] = accounted'[s]]
        BY <2>8, <3>1
      <4>2. accounted \in [UsageIds -> [Messages -> Nat]] /\ totals \in [UsageIds -> [Messages -> Nat]]
        BY <1>1 DEF UsageTypeOK
      <4>3. accounted' \in [UsageIds -> [Messages -> Nat]] /\ accounted'[s] = Added(p)
        BY <2>10, <2>11, <3>1, <4>1, <4>2
      <4>4. accounted'[s] \in [Messages -> Nat]
        BY <2>11, <3>1, <4>3
      <4> HIDE DEF s
      <4> QED BY <4>1, <4>2, <4>3, <4>4
    <3>2. CASE ~writes
      BY <1>1, <2>8, <3>2 DEF UsageTypeOK
    <3> QED BY <3>1, <3>2
  <2>13. UsageTypeOK'
    BY <1>1, <1>3, <1>5, <2>9, <2>12 DEF UsageTypeOK
  <2>14. ASSUME s \in UsageIds, standing[s] = "listed"
         PROVE  /\ \A m \in Messages : accounted'[s][m] \in Told(s, m)
                /\ \A j \in DOMAIN usageLog[s] :
                     j <= n \/ j > Len(OldUsage[s]) => j <= accounted'[s][usageLog[s][j]]
                /\ totals'[s] = accounted'[s]
    <3>1. accounted[s] \in [Messages -> Nat] /\ accounted'[s] \in [Messages -> Nat]
      BY <1>1, <2>12, <2>14, UsageTypes
    <3>2. totals[s] = accounted[s]
      BY <2>14 DEF UsageInv, AccountedIsTold
    <3>3. /\ Counting(accounted'[s], p.rows, accounted[s], p.after, Len(p.rows))
          /\ totals'[s] = accounted'[s]
      <4>1. CASE writes
        BY <1>1, <2>8, <2>11, <2>14, <4>1 DEF UsageTypeOK
      <4>2. CASE ~writes
        <5>1. p.rows = <<>>
          BY <2>14, <4>2 DEF StillThere, Listed
        <5>2. Len(p.rows) = 0
          BY <5>1
        <5>3. accounted' = accounted /\ totals' = totals
          BY <2>8, <4>2
        <5>4. Counting(accounted[s], p.rows, accounted[s], p.after, 0)
          BY <3>1, NoneCounted
        <5> QED BY <3>2, <5>2, <5>3, <5>4
      <4> QED BY <4>1, <4>2
    <3>4. PICK written \in [Messages -> Nat] : written = accounted'[s]
      BY <3>1
    <3>5. Counting(written, p.rows, accounted[p.session], p.after, Len(p.rows))
      BY <3>3, <3>4
    <3>6. /\ \A m \in Messages : written[m] \in Told(p.session, m)
          /\ \A j \in DOMAIN usageLog[p.session] :
               j <= p.after + Len(p.rows) \/ j > Len(OldUsage[p.session]) =>
                 j <= written[usageLog[p.session][j]]
      <4> HIDE DEF writes
      <4> QED BY <2>1, <2>2, <2>14, <3>5, PageIsAccounted
    <3> QED BY <3>3, <3>4, <3>6
  <2>15. ASSUME NEW r \in UsageIds, standing[r] = "listed", r < s \/ s = 0
         PROVE  AccountedTo(r, Len(OldUsage[r]))
    <3>1. r \in Listed /\ AccountedTo(r, Came(r)) /\ r \in Nat
      BY <2>4, <2>15 DEF UsageInv, AccountedIsTold, Listed
    <3>2. CASE r < progress.session
      BY <3>1, <3>2 DEF Came
    <3>3. CASE ~(r < progress.session)
      <4>1. OldUsage[r] = <<>>
        BY <2>1, <2>2, <2>3, <2>15, <3>1, <3>3 DEF FollowsOn
      <4>2. usageLog[r] \in Seq(Messages) /\ Len(OldUsage[r]) = 0
        BY <1>1, <4>1, UsageTypes
      <4>3. \A j \in DOMAIN usageLog[r] : j > Len(OldUsage[r])
        BY <4>2
      <4> QED BY <3>1, <4>3 DEF AccountedTo
    <3> QED BY <3>2, <3>3
  <2>16. ASSUME NEW r \in UsageIds, standing[r] = "listed", s < r, s # 0
         PROVE  Came(r)' = 0
    <3>1. r \in Nat /\ r \in Listed
      BY <2>4, <2>16 DEF Listed
    <3>2. CASE next # 0
      <4>1. next <= r
        BY <2>7, <2>16, <3>1, <3>2
      <4> QED BY <2>7, <2>9, <3>1, <3>2, <4>1 DEF Came
    <3>3. CASE next = 0
      <4>1. full
        BY <2>3, <2>7, <2>16, <3>1, <3>3
      <4>2. progress'.session = s /\ progress'.complete = FALSE
        BY <2>9, <2>16, <3>3, <4>1
      <4> QED BY <2>3, <2>16, <3>1, <4>2 DEF Came
    <3> QED BY <3>2, <3>3
  <2>17. ASSUME s \in UsageIds, standing[s] = "listed"
         PROVE  Came(s)' \in Nat /\ Came(s)' <= n
    <3>1. ~full => Len(OldUsage[s]) <= n
      BY <2>2, <2>4, <2>6, <2>17 DEF RowsAreStored
    <3>2. CASE next # 0
      <4>1. Came(s)' = Len(OldUsage[s])
        BY <2>7, <2>9, <3>2 DEF Came
      <4> QED BY <2>4, <2>7, <2>17, <3>1, <3>2, <4>1
    <3>3. CASE next = 0
      <4>1. s # 0 /\ progress'.session = s /\ progress'.seq = n
        BY <2>4, <2>9, <2>17, <3>3
      <4>2. CASE full
        <5>1. progress'.complete = FALSE
          BY <2>9, <3>3, <4>1, <4>2
        <5> QED BY <2>3, <4>1, <5>1 DEF Came
      <4>3. CASE ~full
        <5>1. progress'.complete = TRUE
          BY <2>9, <3>3, <4>1, <4>3
        <5>2. Came(s)' = Len(OldUsage[s])
          BY <5>1 DEF Came
        <5> QED BY <2>4, <2>17, <3>1, <4>3, <5>2
      <4> QED BY <4>2, <4>3
    <3> QED BY <3>2, <3>3
  <2>18. ASSUME NEW r \in UsageIds
         PROVE  AccountedIsTold(r)'
    <3>1. \A m \in Messages : Told(r, m)' = Told(r, m)
      BY <1>3 DEF Told
    <3>2. AccountedIsTold(r) /\ StandingTells(r)
      BY DEF UsageInv
    <3>3. r \in Nat /\ usageLog[r] \in Seq(Messages) /\ usageLog'[r] = usageLog[r]
      BY <1>1, <1>3, <2>4, UsageTypes
    <3>4. CASE r = s /\ standing[r] = "listed"
      <4>1. \A j \in DOMAIN usageLog[r] : j <= Came(r)' => j <= n
        BY <2>3, <2>17, <3>3, <3>4
      <4>2. AccountedTo(r, Came(r))'
        BY <2>14, <3>3, <3>4, <4>1 DEF AccountedTo
      <4> QED BY <2>14, <3>1, <3>4, <4>2 DEF AccountedIsTold
    <3>5. CASE r # s \/ standing[r] # "listed"
      <4>1. accounted'[r] = accounted[r] /\ totals'[r] = totals[r]
        BY <2>8, <2>10, <2>12, <3>5
      <4>2. AccountedTo(r, Came(r))'
        <5>1. CASE standing[r] # "listed"
          <6>1. DOMAIN usageLog'[r] = {}
            BY <3>2, <3>3, <5>1 DEF StandingTells
          <6> QED BY <6>1 DEF AccountedTo
        <5>2. CASE standing[r] = "listed" /\ (r < s \/ s = 0)
          <6>1. AccountedTo(r, Len(OldUsage[r]))
            BY <2>15, <5>2
          <6>2. AccountedTo(r, Came(r))
            BY <3>2 DEF AccountedIsTold
          <6>3. \A j \in DOMAIN usageLog[r] : j <= accounted[r][usageLog[r][j]]
            BY <2>4, <3>3, <6>1 DEF AccountedTo
          <6> QED BY <3>3, <4>1, <6>3 DEF AccountedTo
        <5>3. CASE standing[r] = "listed" /\ s < r /\ s # 0
          <6>1. Came(r)' = 0
            BY <2>16, <5>3
          <6>2. \A j \in DOMAIN usageLog[r] : ~(j <= 0)
            BY <3>3
          <6> QED BY <3>2, <3>3, <4>1, <6>1, <6>2 DEF AccountedIsTold, AccountedTo
        <5> QED BY <2>3, <3>3, <3>5, <5>1, <5>2, <5>3
      <4> QED BY <3>1, <3>2, <4>1, <4>2 DEF AccountedIsTold
    <3> QED BY <3>4, <3>5
  <2>19. ASSUME NEW r \in UsageIds
         PROVE  StandingTells(r)' /\ ConsumedIsLast(r)'
    <3>1. \A m \in Messages : Told(r, m)' = Told(r, m)
      BY <1>3 DEF Told
    <3>2. StandingTells(r) /\ ConsumedIsLast(r)
      BY DEF UsageInv
    <3>3. standing[r] # "listed" => accounted'[r] = accounted[r]
      BY <2>8, <2>10, <2>12
    <3>4. StandingTells(r)'
      BY <1>3, <3>2, <3>3 DEF StandingTells
    <3>5. ConsumedIsLast(r)'
      BY <1>3, <2>1, <3>1, <3>2 DEF ConsumedIsLast
    <3> QED BY <3>4, <3>5
  <2>20. ProgressIsListed'
    <3>1. CASE next # 0
      <4>1. next \in UsageIds /\ standing'[next] = "listed"
        BY <1>3, <2>7, <3>1 DEF Listed
      <4>2. usageLog'[next] \in Seq(Messages)
        BY <2>13, <4>1 DEF UsageTypeOK
      <4>3. progress'.seq <= Len(usageLog'[next])
        BY <2>9, <3>1, <4>2
      <4> QED BY <2>9, <3>1, <4>1, <4>3 DEF ProgressIsListed
    <3>2. CASE next = 0
      <4>1. progress'.session = s /\ progress'.seq = n
        BY <2>9, <3>2
      <4> QED BY <1>3, <2>2, <4>1 DEF ProgressIsListed, RowsAreStored
    <3> QED BY <3>1, <3>2
  <2>21. SessionsGoOn
    <3>1. \A r \in UsageIds : Len(usageLog[r]) <= Len(usageLog[r])
      BY <1>1, UsageTypes
    <3> QED BY <1>3, <3>1 DEF SessionsGoOn
  <2>22. ASSUME NEW v \in Helpers
         PROVE  PageInv(fetched[v])'
    <3>1. fetched'[v] \in {fetched[v], NoPage}
      BY <1>5
    <3> QED BY <1>1, <2>13, <2>21, <3>1, HelpersStay DEF UsageInv
  <2> QED BY <2>13, <2>18, <2>19, <2>20, <2>22 DEF UsageInv
<1> QED BY <1>7, <1>8

\* The upgrade leaves everything to be accounted.
LEMMA BackfillStart == BackfillInit => UsageInv
<1> SUFFICES ASSUME BackfillInit PROVE UsageInv
  OBVIOUS
<1>1. /\ UsageIds \subseteq Nat \ {0} /\ \A s \in UsageIds : OldUsage[s] \in Seq(Messages)
      /\ OldUsage = [s \in UsageIds |-> OldUsage[s]]
  BY UsageBounds, BackfillAssumption DEF UsageIds
<1>2. NoUsage \in [Messages -> Nat] /\ NoPage \in Pages
  BY DEF NoUsage, NoPage, Pages
<1>3. ASSUME NEW s \in UsageIds, NEW m \in Messages
      PROVE  LastTold(OldUsage[s])[m] \in Told(s, m)
             /\ \A j \in Told(s, m) : j <= LastTold(OldUsage[s])[m]
             /\ LastTold(OldUsage[s])[m] \in Nat
  <2> DEFINE S == {0} \cup {n \in DOMAIN OldUsage[s] : OldUsage[s][n] = m}
  <2>1. S = Told(s, m)
    BY DEF BackfillInit, Told
  <2>2. S \in SUBSET (0 .. Len(OldUsage[s])) /\ S # {} /\ Len(OldUsage[s]) \in Nat
    BY <1>1
  <2>3. PICK n \in S : \A k \in S : k <= n
    <3> HIDE DEF S
    <3> QED BY <2>2, GreatestOf
  <2>4. Max(S) = n
    <3>1. S \in SUBSET Nat
      BY <2>2
    <3> HIDE DEF S
    <3> QED BY <2>3, <3>1, MaxOf
  <2>5. LastTold(OldUsage[s])[m] = Max(S)
    BY DEF LastTold
  <2> HIDE DEF S
  <2> QED BY <2>1, <2>2, <2>3, <2>4, <2>5
<1>4. ASSUME NEW s \in UsageIds
      PROVE  LastTold(OldUsage[s]) \in [Messages -> Nat]
  <2>1. LastTold(OldUsage[s]) = [m \in Messages |-> LastTold(OldUsage[s])[m]]
    BY DEF LastTold
  <2> QED BY <1>3, <2>1
<1>5. UsageTypeOK
  <2>1. consumed \in [UsageIds -> [Messages -> Nat]]
    BY <1>4 DEF BackfillInit
  <2>2. usageLog \in [UsageIds -> Seq(Messages)]
    BY <1>1 DEF BackfillInit
  <2>3. progress \in Progresses
    BY DEF BackfillInit, Progresses
  <2>4. fetched \in [Helpers -> Pages]
    BY <1>2 DEF BackfillInit
  <2> QED BY <1>2, <2>1, <2>2, <2>3, <2>4 DEF BackfillInit, UsageTypeOK
<1>6. ProgressIsListed
  BY DEF BackfillInit, ProgressIsListed
<1>7. ASSUME NEW s \in UsageIds
      PROVE  StandingTells(s) /\ AccountedIsTold(s) /\ ConsumedIsLast(s)
  <2>1. /\ standing[s] = IF OldUsage[s] = <<>> THEN "new" ELSE "listed"
        /\ usageLog[s] = OldUsage[s] /\ accounted[s] = NoUsage /\ totals[s] = NoUsage
        /\ rollup[s] = NoUsage /\ consumed[s] = LastTold(OldUsage[s])
        /\ progress.session = 0 /\ progress.seq = 0
        /\ progress.complete = (\A r \in UsageIds : OldUsage[r] = <<>>)
    BY DEF BackfillInit
  <2>2. Len(OldUsage[s]) \in Nat
    BY <1>1
  <2>3. StandingTells(s)
    BY <2>1, <2>2 DEF StandingTells
  <2>4. \A m \in Messages : accounted[s][m] \in Told(s, m)
    BY <2>1 DEF NoUsage, Told
  <2>5. Came(s) = 0
    <3>1. s \in Nat \ {0}
      BY <1>1
    <3>2. CASE progress.complete
      <4>1. OldUsage[s] = <<>>
        BY <2>1, <3>2
      <4> QED BY <3>2, <4>1 DEF Came
    <3>3. CASE ~progress.complete
      BY <2>1, <3>1, <3>3 DEF Came
    <3> QED BY <3>2, <3>3
  <2>6. AccountedTo(s, 0)
    <3>1. \A j \in DOMAIN usageLog[s] : ~(j <= 0) /\ ~(j > Len(OldUsage[s]))
      BY <1>1, <2>1
    <3> QED BY <3>1 DEF AccountedTo
  <2>7. AccountedIsTold(s)
    BY <2>1, <2>4, <2>5, <2>6 DEF AccountedIsTold
  <2>8. ConsumedIsLast(s)
    BY <1>3, <2>1 DEF ConsumedIsLast
  <2> QED BY <2>3, <2>7, <2>8
<1>8. \A w \in Helpers : PageInv(fetched[w])
  BY DEF BackfillInit, PageInv
<1> QED BY <1>5, <1>6, <1>7, <1>8 DEF UsageInv

\* What is accounted was told, the last of each message as far as the backfill
\* came and since the upgrade, and the pages in the helpers' hands are still
\* good, in every reachable state (usage backfill, sqliteStore.ts).
THEOREM UsageInvariant ==
    ASSUME RowsReturn = FALSE
    PROVE  BackfillSpec => []UsageInv
<1>1. UsageInv /\ [BackfillNext]_backfillVars => UsageInv'
  <2> SUFFICES ASSUME UsageInv, [BackfillNext]_backfillVars PROVE UsageInv'
    OBVIOUS
  <2>1. CASE UNCHANGED backfillVars
    BY <2>1
       DEF backfillVars, UsageInv, UsageTypeOK, ProgressIsListed, StandingTells, AccountedIsTold,
       AccountedTo, Came, Told, ConsumedIsLast, PageInv, RowsAreStored, FollowsOn, Listed
  <2>2. ASSUME NEW s \in UsageIds, NEW m \in Messages, StoreUsage(s, m)
        PROVE  UsageInv'
    BY <2>2, StoreUsageStep
  <2>3. ASSUME NEW s \in UsageIds, ForgetUsage(s) \/ Retain(s)
        PROVE  UsageInv'
    BY <2>3, ForgetUsageStep, RetainStep
  <2>4. ASSUME NEW w \in Helpers, ReadPage(w) \/ CommitPage(w) \/ KillHelper(w)
        PROVE  UsageInv'
    BY <2>4, ReadPageStep, CommitPageStep, KillHelperStep
  <2> QED BY <2>1, <2>2, <2>3, <2>4 DEF BackfillNext
<1> QED BY <1>1, BackfillStart, PTL DEF BackfillSpec

\* Once the backfill is complete every message of every session counts once, by
\* its last record, and what was forgotten counts nowhere: for any sessions,
\* old usage, batches and helpers, that die or write a page another one has
\* written, if a forgotten session does not come back under its id.
THEOREM EveryMessageCountsOnce ==
    ASSUME RowsReturn = FALSE
    PROVE  BackfillSpec => []UsageCountsOnce
<1>1. UsageInv => UsageCountsOnce
  <2> SUFFICES ASSUME UsageInv, progress.complete, NEW s \in UsageIds
               PROVE  IF standing[s] = "retained"
                        THEN rollup[s] = consumed[s] /\ totals[s] = NoUsage
                        ELSE totals[s] = consumed[s] /\ rollup[s] = NoUsage
    BY DEF UsageCountsOnce
  <2>1. progress.complete = TRUE
    BY DEF UsageInv, UsageTypeOK, Progresses
  <2>2. CASE standing[s] = "retained"
    BY <2>2 DEF UsageInv, ConsumedIsLast, AccountedIsTold, StandingTells
  <2>3. CASE standing[s] # "retained"
    BY <2>1, <2>3, AllAccounted
  <2> QED BY <2>2, <2>3
<1> QED BY <1>1, UsageInvariant, PTL
=============================================================================
