---------------------------- MODULE IngestProofs ----------------------------
(***************************************************************************)
(* The theorems about Ingest, for any sessions, files, hook channels and   *)
(* bounds, as long as only the writes named by Healthy may fail: first     *)
(* what every step of SessionLog keeps, for any sessions, events and flush *)
(* threshold, with the inductive invariant SessionInv and one lemma for    *)
(* each action.  The runs evicted, forgotten and zombie show that the      *)
(* writes which Healthy leaves out are a real limit.                       *)
(***************************************************************************)
EXTENDS Ingest, FiniteSetTheorems, SequenceTheorems, TLAPS

Healthy == FaultyWrites \subseteq {"flush", "cursor", "forget"}

CheckpointType == [seq : Nat \cup {-1}, state : SUBSET Row]

-----------------------------------------------------------------------------
(* The inductive invariant, as predicates on one session's values          *)

\* Two rows of a log share neither their seq nor their id.
Distinct(R) == \A r, q \in R : r.seq = q.seq \/ r.id = q.id => r = q

LogOK(R) ==
    /\ R \subseteq Row
    /\ NextSeq(R) \in Nat
    /\ Seqs(R) = 0 .. (NextSeq(R) - 1)
    /\ Distinct(R)

CheckpointOK(R, k) ==
    /\ k \in CheckpointType
    /\ k.seq < NextSeq(R)
    /\ k.state = {r \in R : r.seq <= k.seq}

\* A loaded coordinator continues the log R: its queue is numbered from the
\* log's next sequence number on, its state is the log and the queue, and an
\* event it has seen is in one of them.
Continues(R, c) ==
    /\ ~c.closed
    /\ c.state = R \cup c.pend
    /\ NextSeq(R) <= c.next
    /\ Seqs(c.pend) = NextSeq(R) .. (c.next - 1)
    /\ Distinct(c.pend)
    /\ Ids(R) \cap Ids(c.pend) = {}
    /\ Ids(c.pend) \subseteq c.seen
    /\ c.seen \subseteq Ids(R) \cup Ids(c.pend)

SessionOK(c, R, k, e, t) ==
    /\ c \in CoordinatorType
    /\ LogOK(R)
    /\ CheckpointOK(R, k)
    /\ e \in BOOLEAN
    /\ t \in BOOLEAN
    /\ c.live => Continues(R, c)
    /\ t => R = {} /\ k = NoCheckpoint /\ ~e /\ ~c.live

SessionInv ==
    /\ co \in [Sessions -> CoordinatorType]
    /\ orphans = [s \in Sessions |-> {}]
    /\ rows \in [Sessions -> SUBSET Row]
    /\ cp \in [Sessions -> CheckpointType]
    /\ sess \in [Sessions -> BOOLEAN]
    /\ tomb \in [Sessions -> BOOLEAN]
    /\ \A s \in Sessions : SessionOK(co[s], rows[s], cp[s], sess[s], tomb[s])

-----------------------------------------------------------------------------
(* Numbering and inserting rows                                            *)

\* Adjacent intervals.
LEMMA IntervalUnion ==
    ASSUME NEW a \in Int, NEW b \in Int, NEW c \in Int, a <= b, b <= c
    PROVE  (a .. (b - 1)) \cup (b .. (c - 1)) = a .. (c - 1)
OBVIOUS

\* The greatest element of an interval.
LEMMA GreatestOfInterval ==
    ASSUME NEW S, NEW n \in Nat, n > 0, S = 0 .. (n - 1)
    PROVE  (CHOOSE k \in S : \A m \in S : m <= k) = n - 1
<1>1. n - 1 \in S /\ \A m \in S : m <= n - 1
  OBVIOUS
<1>2. ASSUME NEW k \in S, \A m \in S : m <= k
      PROVE  k = n - 1
  BY <1>1, <1>2
<1> QED
  BY <1>1, <1>2

\* A set of rows numbered 0 .. n - 1 has n as its next sequence number.
LEMMA DenseNextSeq ==
    ASSUME NEW R \in SUBSET Row, NEW n \in Nat, Seqs(R) = 0 .. (n - 1)
    PROVE  NextSeq(R) = n
<1>1. CASE n = 0
  <2>1. \A r \in R : r.seq \in 0 .. (n - 1)
    BY DEF Seqs
  <2>2. R = {}
    BY <1>1, <2>1
  <2> QED
    BY <1>1, <2>2 DEF NextSeq
<1>2. CASE n > 0
  <2>1. 0 \in Seqs(R)
    BY <1>2
  <2>2. R # {}
    BY <2>1 DEF Seqs
  <2>3. LastSeq(R) = n - 1
    BY <1>2, GreatestOfInterval DEF LastSeq
  <2> QED
    BY <2>2, <2>3 DEF NextSeq
<1> QED
  BY <1>1, <1>2

\* The empty log.
LEMMA EmptyLog == LogOK({}) /\ NextSeq({}) = 0 /\ CheckpointOK({}, NoCheckpoint)
BY DEF LogOK, NextSeq, Seqs, Distinct, CheckpointOK, NoCheckpoint, CheckpointType

\* A queue that continues the log is inserted whole, and the longer log is
\* what the coordinator continues once its queue is empty.
LEMMA InsertQueue ==
    ASSUME NEW R, NEW c \in CoordinatorType, LogOK(R), Continues(R, c)
    PROVE  /\ InsertOrIgnore(R, c.pend) = R \cup c.pend
           /\ LogOK(R \cup c.pend)
           /\ NextSeq(R \cup c.pend) = c.next
           /\ Flushed(c) \in CoordinatorType
           /\ Continues(R \cup c.pend, Flushed(c))
<1> DEFINE S == R \cup c.pend
<1>1. R \subseteq Row /\ c.pend \subseteq Row /\ S \subseteq Row
  BY DEF LogOK, CoordinatorType
<1>2. \A r \in R, b \in c.pend : r.seq # b.seq /\ r.id # b.id
  <2> SUFFICES ASSUME NEW r \in R, NEW b \in c.pend
               PROVE  r.seq # b.seq /\ r.id # b.id
    OBVIOUS
  <2>1. r.seq \in 0 .. (NextSeq(R) - 1)
    BY DEF LogOK, Seqs
  <2>2. b.seq \in NextSeq(R) .. (c.next - 1)
    BY DEF Continues, Seqs
  <2>3. r.id \in Ids(R) /\ b.id \in Ids(c.pend)
    BY DEF Ids
  <2> QED
    BY <2>1, <2>2, <2>3, <1>1 DEF Continues, LogOK, CoordinatorType
<1>3. InsertOrIgnore(R, c.pend) = S
  BY <1>2 DEF InsertOrIgnore
<1>4. Seqs(S) = 0 .. (c.next - 1)
  <2>1. Seqs(S) = Seqs(R) \cup Seqs(c.pend)
    BY DEF Seqs
  <2>2. Seqs(S) = (0 .. (NextSeq(R) - 1)) \cup (NextSeq(R) .. (c.next - 1))
    BY <2>1 DEF LogOK, Continues
  <2>3. NextSeq(R) \in Nat /\ c.next \in Nat /\ NextSeq(R) <= c.next
    BY DEF LogOK, Continues, CoordinatorType
  <2> HIDE DEF S
  <2> QED
    BY <2>2, <2>3
<1>5. NextSeq(S) = c.next
  BY <1>1, <1>4, DenseNextSeq DEF CoordinatorType
<1>6. Distinct(S)
  BY <1>2 DEF Distinct, LogOK, Continues
<1>7. LogOK(S)
  BY <1>1, <1>4, <1>5, <1>6 DEF LogOK, CoordinatorType
<1>8. /\ Flushed(c) \in CoordinatorType
      /\ Flushed(c).pend = {} /\ Flushed(c).closed = c.closed
      /\ Flushed(c).state = c.state /\ Flushed(c).next = c.next
      /\ Flushed(c).seen = c.seen
  BY DEF Flushed, CoordinatorType
<1>9. Continues(S, Flushed(c))
  <2>1. Seqs(Flushed(c).pend) = {} /\ Ids(Flushed(c).pend) = {}
    BY <1>8 DEF Seqs, Ids
  <2>2. Distinct(Flushed(c).pend)
    BY <1>8 DEF Distinct
  <2>3. NextSeq(S) .. (Flushed(c).next - 1) = {}
    BY <1>5, <1>8 DEF CoordinatorType
  <2>4. Flushed(c).state = S /\ ~Flushed(c).closed
    BY <1>8 DEF Continues
  <2>5. Flushed(c).seen \subseteq Ids(S)
    BY <1>8 DEF Continues, Ids
  <2>6. NextSeq(S) <= Flushed(c).next
    BY <1>5, <1>8 DEF CoordinatorType
  <2> HIDE DEF S
  <2> QED
    BY <1>8, <2>1, <2>2, <2>3, <2>4, <2>5, <2>6 DEF Continues
<1> QED
  BY <1>3, <1>5, <1>7, <1>8, <1>9

\* A checkpoint of the log is one of the longer log.
LEMMA CheckpointOfLonger ==
    ASSUME NEW R, NEW c \in CoordinatorType, NEW k,
           LogOK(R), Continues(R, c), CheckpointOK(R, k)
    PROVE  CheckpointOK(R \cup c.pend, k)
<1>1. NextSeq(R \cup c.pend) = c.next
  BY InsertQueue
<1>2. \A b \in c.pend : ~(b.seq <= k.seq)
  <2> SUFFICES ASSUME NEW b \in c.pend
               PROVE  ~(b.seq <= k.seq)
    OBVIOUS
  <2>1. b.seq \in NextSeq(R) .. (c.next - 1)
    BY DEF Continues, Seqs
  <2> QED
    BY <2>1 DEF CheckpointOK, CheckpointType, LogOK, CoordinatorType
<1>3. k.state = {r \in R \cup c.pend : r.seq <= k.seq}
  BY <1>2 DEF CheckpointOK
<1>4. k.seq < c.next
  BY DEF CheckpointOK, Continues, LogOK, CheckpointType, CoordinatorType
<1> QED
  BY <1>1, <1>3, <1>4 DEF CheckpointOK

\* A checkpoint taken after the queue was saved is the fold of the whole log.
LEMMA CheckpointSaved ==
    ASSUME NEW R, NEW c \in CoordinatorType, NEW k,
           LogOK(R), Continues(R, c), CheckpointOK(R, k)
    PROVE  CheckpointOK(R \cup c.pend, Checkpointed(c, k))
<1>1. CheckpointOK(R \cup c.pend, k)
  BY CheckpointOfLonger
<1>2. NextSeq(R \cup c.pend) = c.next /\ Seqs(R \cup c.pend) = 0 .. (c.next - 1)
  BY InsertQueue DEF LogOK
<1>3. CASE Checkpointed(c, k) # k
  <2>1. Checkpointed(c, k) = [seq |-> c.next - 1, state |-> c.state]
    BY <1>3 DEF Checkpointed
  <2>2. c.next \in Nat /\ c.state \subseteq Row
    BY DEF CoordinatorType
  <2>3. \A r \in R \cup c.pend : r.seq <= c.next - 1
    BY <1>2, <2>2 DEF Seqs
  <2>4. c.state = {r \in R \cup c.pend : r.seq <= c.next - 1}
    BY <2>3 DEF Continues
  <2>5. c.next - 1 \in Nat \cup {-1}
    BY <2>2
  <2> QED
    BY <1>2, <2>1, <2>2, <2>4, <2>5 DEF CheckpointOK, CheckpointType
<1> QED
  BY <1>1, <1>3

-----------------------------------------------------------------------------
(* Accepting events                                                        *)

\* The numbers a batch receives are those after the coordinator's last one,
\* each once.
LEMMA NumberedRows ==
    ASSUME NEW F \in SUBSET Events, NEW n \in Nat, NEW num \in Numberings(F, n)
    PROVE  /\ Cardinality(F) \in Nat
           /\ Numbered(F, num) \subseteq Row
           /\ Seqs(Numbered(F, num)) = n .. (n + Cardinality(F) - 1)
           /\ Ids(Numbered(F, num)) = F
           /\ Distinct(Numbered(F, num))
<1>1. IsFiniteSet(F)
  BY SessionLogAssumption, FS_Subset
<1>2. Cardinality(F) \in Nat
  BY <1>1, FS_CardinalityType
<1> DEFINE T == n .. (n + Cardinality(F) - 1)
<1>3. /\ num \in [F -> T]
      /\ \A a, b \in F : num[a] = num[b] => a = b
      /\ \A t \in T : \E e \in F : num[e] = t
  BY DEF Numberings, Bijection, Injection, Surjection, IsInjective
<1>4. T \subseteq Nat
  BY <1>2
<1> HIDE DEF T
<1>5. \A r \in Numbered(F, num) : \E e \in F : r = [seq |-> num[e], id |-> e]
  BY DEF Numbered
<1>6. \A e \in F : [seq |-> num[e], id |-> e] \in Numbered(F, num)
  BY DEF Numbered
<1> HIDE DEF Numbered
<1>7. \A r \in Numbered(F, num) : r.id \in F /\ r.seq = num[r.id] /\ r \in Row
  <2> SUFFICES ASSUME NEW r \in Numbered(F, num)
               PROVE  r.id \in F /\ r.seq = num[r.id] /\ r \in Row
    OBVIOUS
  <2>1. PICK e \in F : r = [seq |-> num[e], id |-> e]
    BY <1>5
  <2>2. num[e] \in Nat /\ e \in Events
    BY <1>3, <1>4
  <2> QED
    BY <2>1, <2>2 DEF Row
<1>8. Seqs(Numbered(F, num)) = T
  <2>1. ASSUME NEW x \in Seqs(Numbered(F, num))
        PROVE  x \in T
    BY <1>3, <1>7 DEF Seqs
  <2>2. ASSUME NEW x \in T
        PROVE  x \in Seqs(Numbered(F, num))
    <3>1. PICK e \in F : num[e] = x
      BY <1>3
    <3>2. [seq |-> num[e], id |-> e].seq = x
      BY <3>1
    <3> QED
      BY <1>6, <3>2 DEF Seqs
  <2> QED
    BY <2>1, <2>2
<1>9. Ids(Numbered(F, num)) = F
  <2>1. \A x \in Ids(Numbered(F, num)) : x \in F
    BY <1>7 DEF Ids
  <2>2. ASSUME NEW e \in F
        PROVE  e \in Ids(Numbered(F, num))
    <3>1. [seq |-> num[e], id |-> e].id = e
      OBVIOUS
    <3> QED
      BY <1>6, <3>1 DEF Ids
  <2> QED
    BY <2>1, <2>2
<1>10. Distinct(Numbered(F, num))
  <2> SUFFICES ASSUME NEW r \in Numbered(F, num), NEW q \in Numbered(F, num),
                      r.seq = q.seq \/ r.id = q.id
               PROVE  r = q
    BY DEF Distinct
  <2>1. r.id = q.id
    BY <1>3, <1>7
  <2>2. r.seq = q.seq
    BY <1>7, <2>1
  <2> QED
    BY <1>7, <2>1, <2>2 DEF Row
<1> QED
  BY <1>2, <1>7, <1>8, <1>9, <1>10 DEF T

\* A coordinator that accepts a fresh batch still continues its log.
LEMMA AcceptContinues ==
    ASSUME NEW R, NEW c \in CoordinatorType, LogOK(R), Continues(R, c),
           NEW F \in SUBSET Events, F \cap (c.seen \cup Ids(R)) = {},
           NEW num \in Numberings(F, c.next), NEW arm \in BOOLEAN
    PROVE  /\ Queued(c, F, num, arm) \in CoordinatorType
           /\ Continues(R, Queued(c, F, num, arm))
           /\ Queued(c, F, num, arm).live = c.live
           /\ Ids(Queued(c, F, num, arm).pend) = Ids(c.pend) \cup F
<1> DEFINE d == Queued(c, F, num, arm)
           N == Numbered(F, num)
           n == c.next + Cardinality(F)
<1>1. /\ Cardinality(F) \in Nat
      /\ N \subseteq Row
      /\ Seqs(N) = c.next .. (c.next + Cardinality(F) - 1)
      /\ Ids(N) = F
      /\ Distinct(N)
  BY NumberedRows DEF CoordinatorType
<1> HIDE DEF N
<1>2. /\ d.pend = c.pend \cup N
      /\ d.state = c.state \cup N
      /\ d.seen = c.seen \cup F
      /\ d.next = n
      /\ d.closed = c.closed
      /\ d.live = c.live
      /\ d \in CoordinatorType
  <2> DEFINE a == Applied(c, F, num)
  <2>1. n \in Nat
    BY <1>1 DEF CoordinatorType
  <2>2. a = [c EXCEPT !.state = @ \cup N, !.seen = @ \cup F, !.next = n]
    BY DEF Applied, N
  <2> HIDE DEF n, a
  <2>3. /\ a \in CoordinatorType
        /\ a.state = c.state \cup N /\ a.seen = c.seen \cup F /\ a.next = n
        /\ a.pend = c.pend /\ a.closed = c.closed /\ a.live = c.live
    BY <1>1, <2>1, <2>2 DEF CoordinatorType
  <2>4. d = [a EXCEPT !.pend = @ \cup N, !.timer = @ \/ arm]
    BY DEF a, N, Queued
  <2>5. /\ d.pend = a.pend \cup N /\ d.state = a.state /\ d.seen = a.seen
        /\ d.next = a.next /\ d.closed = a.closed /\ d.live = a.live
    BY <2>3, <2>4 DEF CoordinatorType
  <2>6. a.pend \cup N \in SUBSET Row /\ (a.timer \/ arm) \in BOOLEAN
    BY <1>1, <2>3 DEF CoordinatorType
  <2>7. d \in CoordinatorType
    BY <2>3, <2>4, <2>6 DEF CoordinatorType
  <2> QED
    BY <2>3, <2>5, <2>7
<1>3. /\ c.next \in Nat /\ NextSeq(R) \in Nat /\ NextSeq(R) <= c.next
      /\ Seqs(c.pend) = NextSeq(R) .. (c.next - 1)
  BY DEF CoordinatorType, LogOK, Continues
<1>4. Seqs(d.pend) = NextSeq(R) .. (d.next - 1)
  <2>1. Seqs(d.pend) = Seqs(c.pend) \cup Seqs(N)
    BY <1>2 DEF Seqs
  <2>2. n \in Nat /\ c.next <= n
    BY <1>1, <1>3
  <2>3. Seqs(N) = c.next .. (n - 1)
    BY <1>1, <1>3, <2>2
  <2> HIDE DEF n
  <2>4. (NextSeq(R) .. (c.next - 1)) \cup (c.next .. (n - 1)) = NextSeq(R) .. (n - 1)
    BY <1>3, <2>2, IntervalUnion
  <2>5. d.next = n
    BY <1>2
  <2> QED
    BY <1>3, <2>1, <2>3, <2>4, <2>5
<1>5. Ids(d.pend) = Ids(c.pend) \cup F
  BY <1>1, <1>2 DEF Ids
<1>6. Distinct(d.pend)
  <2>1. \A r \in c.pend, q \in N : r.seq # q.seq /\ r.id # q.id
    <3> SUFFICES ASSUME NEW r \in c.pend, NEW q \in N
                 PROVE  r.seq # q.seq /\ r.id # q.id
      OBVIOUS
    <3>1. r.seq \in Seqs(c.pend) /\ q.seq \in Seqs(N)
      BY DEF Seqs
    <3>2. r.id \in Ids(c.pend) /\ q.id \in Ids(N)
      BY DEF Ids
    <3>3. r.seq # q.seq
      BY <1>1, <1>3, <3>1
    <3>4. r.id # q.id
      BY <1>1, <3>2 DEF Continues
    <3> QED
      BY <3>3, <3>4
  <2> QED
    BY <1>1, <1>2, <2>1 DEF Distinct, Continues
<1>7. d.state = R \cup d.pend /\ ~d.closed /\ NextSeq(R) <= d.next
  BY <1>1, <1>2, <1>3 DEF Continues
<1>8. /\ Ids(R) \cap Ids(d.pend) = {} /\ Ids(d.pend) \subseteq d.seen
      /\ d.seen \subseteq Ids(R) \cup Ids(d.pend)
  BY <1>2, <1>5 DEF Continues
<1> HIDE DEF d
<1>9. d \in CoordinatorType /\ Continues(R, d) /\ d.live = c.live
  BY <1>2, <1>4, <1>6, <1>7, <1>8 DEF Continues
<1> QED
  BY <1>5, <1>9 DEF d

-----------------------------------------------------------------------------
(* Loading, and one lemma per action                                       *)

\* A step that touches one session keeps the invariant if it keeps it there.
LEMMA OneSession ==
    ASSUME SessionInv, NEW s \in Sessions,
           co' = [co EXCEPT ![s] = co'[s]],
           rows' = [rows EXCEPT ![s] = rows'[s]],
           cp' = [cp EXCEPT ![s] = cp'[s]],
           sess' = [sess EXCEPT ![s] = sess'[s]],
           tomb' = [tomb EXCEPT ![s] = tomb'[s]],
           orphans' = orphans,
           SessionOK(co'[s], rows'[s], cp'[s], sess'[s], tomb'[s])
    PROVE  SessionInv'
<1>1. /\ co'[s] \in CoordinatorType
      /\ rows'[s] \in SUBSET Row
      /\ cp'[s] \in CheckpointType
      /\ sess'[s] \in BOOLEAN
      /\ tomb'[s] \in BOOLEAN
  BY DEF SessionOK, LogOK, CheckpointOK
<1>2. /\ co' \in [Sessions -> CoordinatorType]
      /\ orphans' = [z \in Sessions |-> {}]
      /\ rows' \in [Sessions -> SUBSET Row]
      /\ cp' \in [Sessions -> CheckpointType]
      /\ sess' \in [Sessions -> BOOLEAN]
      /\ tomb' \in [Sessions -> BOOLEAN]
  BY <1>1 DEF SessionInv
<1>3. ASSUME NEW z \in Sessions
      PROVE  SessionOK(co'[z], rows'[z], cp'[z], sess'[z], tomb'[z])
  <2>1. CASE z = s
    BY <2>1
  <2>2. CASE z # s
    <3>1. /\ co'[z] = co[z] /\ rows'[z] = rows[z] /\ cp'[z] = cp[z]
          /\ sess'[z] = sess[z] /\ tomb'[z] = tomb[z]
      BY <2>2 DEF SessionInv
    <3> QED
      BY <3>1 DEF SessionInv
  <2> QED
    BY <2>1, <2>2
<1> QED
  BY <1>2, <1>3 DEF SessionInv

\* Loading a session gives the fold of its durable log, and the checkpoint a
\* load may write is one of that log.
LEMMA LoadOK ==
    ASSUME SessionInv, NEW s \in Sessions
    PROVE  /\ CheckpointOK(rows[s], CurrentCp(s))
           /\ Loaded(s) \in CoordinatorType
           /\ Loaded(s).live
           /\ Continues(rows[s], Loaded(s))
           /\ Current(s) \in CoordinatorType
           /\ Current(s).live
           /\ Continues(rows[s], Current(s))
<1>1. SessionOK(co[s], rows[s], cp[s], sess[s], tomb[s])
  BY DEF SessionInv
<1>2. /\ rows[s] \subseteq Row /\ NextSeq(rows[s]) \in Nat
      /\ cp[s] \in CheckpointType /\ cp[s].seq \in Nat \cup {-1}
  BY <1>1 DEF SessionOK, LogOK, CheckpointOK, CheckpointType
<1>3. Replayed(s) = rows[s]
  <2>1. \A r \in rows[s] : r.seq \in Nat
    BY <1>2 DEF Row
  <2> QED
    BY <1>1, <1>2, <2>1 DEF Replayed, SessionOK, CheckpointOK
<1>4. CheckpointOK(rows[s], CurrentCp(s))
  <2>1. CASE LoadCheckpoints(s)
    <3> DEFINE n == NextSeq(rows[s])
    <3>1. CurrentCp(s) = [seq |-> n - 1, state |-> rows[s]]
      BY <1>3, <2>1 DEF CurrentCp
    <3>2. \A r \in rows[s] : r.seq \in 0 .. (n - 1)
      BY <1>1 DEF SessionOK, LogOK, Seqs
    <3>3. rows[s] = {r \in rows[s] : r.seq <= n - 1}
      BY <1>2, <3>2
    <3>4. n - 1 \in Nat \cup {-1} /\ n - 1 < n
      BY <1>2
    <3> QED
      BY <1>2, <3>1, <3>3, <3>4 DEF CheckpointOK, CheckpointType
  <2>2. CASE ~LoadCheckpoints(s)
    BY <1>1, <2>2 DEF CurrentCp, SessionOK
  <2> QED
    BY <2>1, <2>2
<1>5. /\ Loaded(s) \in CoordinatorType
      /\ Loaded(s).live /\ ~Loaded(s).closed
      /\ Loaded(s).state = rows[s] /\ Loaded(s).pend = {}
      /\ Loaded(s).next = NextSeq(rows[s]) /\ Loaded(s).seen = {}
  <2>1. CurrentCp(s).seq \in Nat \cup {-1}
    BY <1>4 DEF CheckpointOK, CheckpointType
  <2> QED
    BY <1>2, <1>3, <2>1 DEF Loaded, NotLoaded, CoordinatorType
<1>6. Continues(rows[s], Loaded(s))
  <2>1. NextSeq(rows[s]) .. (NextSeq(rows[s]) - 1) = {}
    BY <1>2
  <2> QED
    BY <1>2, <1>5, <2>1 DEF Continues, Seqs, Ids, Distinct
<1>7. co[s] \in CoordinatorType /\ (co[s].live => Continues(rows[s], co[s]))
  BY <1>1 DEF SessionOK
<1> QED
  BY <1>4, <1>5, <1>6, <1>7 DEF Current

\* Saving a coordinator's queue, or failing to, keeps the session in order.
LEMMA PersistOK ==
    ASSUME NEW c \in CoordinatorType, NEW R, NEW k, NEW e \in BOOLEAN,
           c.live, LogOK(R), CheckpointOK(R, k), Continues(R, c)
    PROVE  /\ SessionOK(c, R, k, e, FALSE)
           /\ SessionOK(Flushed(c), InsertOrIgnore(R, c.pend), k, e, FALSE)
<1>1. SessionOK(c, R, k, e, FALSE)
  BY DEF SessionOK
<1>2. /\ InsertOrIgnore(R, c.pend) = R \cup c.pend
      /\ LogOK(R \cup c.pend)
      /\ Flushed(c) \in CoordinatorType
      /\ Continues(R \cup c.pend, Flushed(c))
      /\ CheckpointOK(R \cup c.pend, k)
  BY InsertQueue, CheckpointOfLonger
<1> QED
  BY <1>1, <1>2 DEF SessionOK

\* Persist applied to a coordinator that continues the log of s.
LEMMA PersistKeeps ==
    ASSUME SessionInv, NEW s \in Sessions, NEW c \in CoordinatorType,
           NEW ok \in BOOLEAN,
           c.live, Continues(rows[s], c), ~tomb[s],
           Persist(s, c, ok),
           cp' = [cp EXCEPT ![s] = cp'[s]], CheckpointOK(rows[s], cp'[s]),
           orphans' = orphans, tomb' = tomb
    PROVE  SessionInv'
<1>1. SessionOK(co[s], rows[s], cp[s], sess[s], tomb[s])
  BY DEF SessionInv
<1>2. /\ co' = [co EXCEPT ![s] = co'[s]]
      /\ rows' = [rows EXCEPT ![s] = rows'[s]]
      /\ sess' = [sess EXCEPT ![s] = sess'[s]]
      /\ tomb' = [tomb EXCEPT ![s] = tomb'[s]]
      /\ tomb'[s] = FALSE
      /\ sess'[s] \in BOOLEAN
  BY DEF Persist, SessionInv
<1>3. CASE ok
  <2>1. co'[s] = Flushed(c) /\ rows'[s] = InsertOrIgnore(rows[s], c.pend)
    BY <1>3 DEF Persist, SessionInv
  <2>2. SessionOK(co'[s], rows'[s], cp'[s], sess'[s], tomb'[s])
    BY <1>1, <1>2, <2>1, PersistOK DEF SessionOK
  <2> QED
    BY <1>2, <2>2, OneSession
<1>4. CASE ~ok
  <2>1. co'[s] = c /\ rows'[s] = rows[s]
    BY <1>4 DEF Persist, SessionInv
  <2>2. SessionOK(co'[s], rows'[s], cp'[s], sess'[s], tomb'[s])
    BY <1>1, <1>2, <2>1, PersistOK DEF SessionOK
  <2> QED
    BY <1>2, <2>2, OneSession
<1> QED
  BY <1>3, <1>4

\* registry.ingest of a batch of events.
LEMMA AcceptKeeps ==
    ASSUME SessionInv, NEW s \in Sessions, NEW F \in SUBSET Events,
           NEW sync \in BOOLEAN,
           NEW num \in Numberings(Fresh(s, F), Current(s).next),
           Accept(s, F, num, sync)
    PROVE  SessionInv'
<1> DEFINE fresh == Fresh(s, F)
           c == Current(s)
<1>1. /\ c \in CoordinatorType /\ c.live /\ Continues(rows[s], c)
      /\ CheckpointOK(rows[s], CurrentCp(s))
  BY LoadOK
<1>2. fresh \in SUBSET Events /\ fresh \cap (c.seen \cup Ids(rows[s])) = {}
  BY DEF Fresh
<1>3. SessionOK(co[s], rows[s], cp[s], sess[s], tomb[s]) /\ LogOK(rows[s])
  BY DEF SessionInv, SessionOK
<1>4. /\ ~tomb[s] /\ tomb' = tomb /\ orphans' = orphans
      /\ cp' = [cp EXCEPT ![s] = CurrentCp(s)]
  BY DEF Accept
<1>5. cp' = [cp EXCEPT ![s] = cp'[s]] /\ cp'[s] = CurrentCp(s)
  BY <1>4 DEF SessionInv
<1>6. PICK arm \in BOOLEAN :
        LET d == Queued(c, fresh, num, arm)
        IN IF sync \/ (fresh # {} /\ Cardinality(d.pend) >= FlushThreshold)
           THEN \E ok \in FlushOutcome(d) : Persist(s, d, ok)
           ELSE co' = [co EXCEPT ![s] = d] /\ UNCHANGED <<rows, sess>>
  BY DEF Accept
<1> DEFINE d == Queued(c, fresh, num, arm)
<1>7. d \in CoordinatorType /\ Continues(rows[s], d) /\ d.live
  <2>1. num \in Numberings(fresh, c.next) /\ arm \in BOOLEAN
    BY <1>6
  <2> HIDE DEF fresh, c
  <2>2. d \in CoordinatorType /\ Continues(rows[s], d) /\ d.live = c.live
    BY <1>1, <1>2, <1>3, <2>1, AcceptContinues
  <2> QED
    BY <1>1, <2>2
<1>8. \/ \E ok \in FlushOutcome(d) : Persist(s, d, ok)
      \/ co' = [co EXCEPT ![s] = d] /\ UNCHANGED <<rows, sess>>
  BY <1>6
<1> HIDE DEF fresh, c, d
<1>9. ASSUME NEW ok \in FlushOutcome(d), Persist(s, d, ok)
      PROVE  SessionInv'
  <2>1. ok \in BOOLEAN
    BY DEF FlushOutcome, Outcome
  <2> QED
    BY <1>1, <1>4, <1>5, <1>7, <1>9, <2>1, PersistKeeps
<1>10. CASE co' = [co EXCEPT ![s] = d] /\ UNCHANGED <<rows, sess>>
  <2>1. /\ co' = [co EXCEPT ![s] = co'[s]] /\ co'[s] = d
        /\ rows' = [rows EXCEPT ![s] = rows'[s]] /\ rows'[s] = rows[s]
        /\ sess' = [sess EXCEPT ![s] = sess'[s]] /\ sess'[s] = sess[s]
        /\ tomb' = [tomb EXCEPT ![s] = tomb'[s]] /\ tomb'[s] = FALSE
    BY <1>4, <1>10 DEF SessionInv
  <2>2. SessionOK(co'[s], rows'[s], cp'[s], sess'[s], tomb'[s])
    BY <1>1, <1>3, <1>5, <1>7, <2>1, PersistOK DEF SessionOK
  <2> QED
    BY <1>4, <1>5, <2>1, <2>2, OneSession
<1> QED
  BY <1>8, <1>9, <1>10

\* The flush timer, and the flush before a cursor moves.
LEMMA FlushKeeps ==
    ASSUME SessionInv, NEW s \in Sessions, NEW ok \in BOOLEAN,
           co[s].live, Persist(s, co[s], ok), UNCHANGED <<orphans, cp, tomb>>
    PROVE  SessionInv'
<1>1. SessionOK(co[s], rows[s], cp[s], sess[s], tomb[s])
  BY DEF SessionInv
<1>2. /\ co[s] \in CoordinatorType /\ Continues(rows[s], co[s])
      /\ ~tomb[s] /\ CheckpointOK(rows[s], cp[s])
  BY <1>1 DEF SessionOK
<1>3. cp' = [cp EXCEPT ![s] = cp'[s]] /\ cp'[s] = cp[s]
  BY DEF SessionInv
<1> QED
  BY <1>2, <1>3, PersistKeeps

\* The checkpoint timer: a flush, and a checkpoint if it got through.
LEMMA CheckpointTimerKeeps ==
    ASSUME SessionInv, NEW s \in Sessions, CheckpointTimer(s)
    PROVE  SessionInv'
<1> DEFINE c == [co[s] EXCEPT !.timer = FALSE]
           top == IF c.next - 1 > c.cpSeq THEN c.next - 1 ELSE c.cpSeq
<1>1. /\ co[s].live /\ orphans' = orphans /\ tomb' = tomb
      /\ \E ok \in FlushOutcome(c) :
           /\ Persist(s, IF ok THEN [c EXCEPT !.cpSeq = top] ELSE c, ok)
           /\ cp' = IF ok THEN [cp EXCEPT ![s] = Checkpointed(c, @)] ELSE cp
  BY DEF CheckpointTimer
<1>2. SessionOK(co[s], rows[s], cp[s], sess[s], tomb[s])
  BY DEF SessionInv
<1>3. /\ co[s] \in CoordinatorType /\ Continues(rows[s], co[s]) /\ ~tomb[s]
      /\ LogOK(rows[s]) /\ CheckpointOK(rows[s], cp[s])
  BY <1>1, <1>2 DEF SessionOK
<1>4. PICK ok \in FlushOutcome(c) :
         /\ Persist(s, IF ok THEN [c EXCEPT !.cpSeq = top] ELSE c, ok)
         /\ cp' = IF ok THEN [cp EXCEPT ![s] = Checkpointed(c, @)] ELSE cp
  BY <1>1
<1>5. /\ c \in CoordinatorType /\ c.live /\ c.pend = co[s].pend
      /\ c.state = co[s].state /\ c.next = co[s].next /\ c.cpSeq = co[s].cpSeq
      /\ c.seen = co[s].seen /\ c.closed = co[s].closed
  BY <1>1, <1>3 DEF CoordinatorType
<1>6. ok \in BOOLEAN
  BY <1>4 DEF FlushOutcome, Outcome
<1> DEFINE d == [c EXCEPT !.cpSeq = top]
<1>7. top \in Nat \cup {-1}
  BY <1>5 DEF CoordinatorType
<1> HIDE DEF c, top
<1>8. Continues(rows[s], c)
  BY <1>3, <1>5 DEF Continues
<1>9. /\ d \in CoordinatorType /\ d.live /\ d.pend = c.pend
      /\ d.state = c.state /\ d.next = c.next
      /\ d.seen = c.seen /\ d.closed = c.closed
  BY <1>5, <1>7 DEF CoordinatorType
<1> HIDE DEF d
<1>10. Continues(rows[s], d)
  BY <1>8, <1>9 DEF Continues
<1>11. CASE ~ok
  <2>1. Persist(s, c, ok) /\ cp' = cp
    BY <1>4, <1>11
  <2>2. cp' = [cp EXCEPT ![s] = cp'[s]] /\ cp'[s] = cp[s]
    BY <2>1 DEF SessionInv
  <2> QED
    BY <1>1, <1>3, <1>5, <1>6, <1>8, <2>1, <2>2, PersistKeeps
<1>12. CASE ok
  <2>1. Persist(s, d, TRUE) /\ cp' = [cp EXCEPT ![s] = Checkpointed(c, cp[s])]
    BY <1>4, <1>12 DEF d
  <2>2. /\ co' = [co EXCEPT ![s] = Flushed(d)]
        /\ rows' = [rows EXCEPT ![s] = InsertOrIgnore(rows[s], d.pend)]
        /\ sess' = [sess EXCEPT ![s] = sess'[s]] /\ sess'[s] \in BOOLEAN
    BY <2>1 DEF Persist, SessionInv
  <2>3. /\ co' = [co EXCEPT ![s] = co'[s]] /\ co'[s] = Flushed(d)
        /\ rows' = [rows EXCEPT ![s] = rows'[s]]
        /\ rows'[s] = InsertOrIgnore(rows[s], d.pend)
        /\ cp' = [cp EXCEPT ![s] = cp'[s]] /\ cp'[s] = Checkpointed(c, cp[s])
        /\ tomb' = [tomb EXCEPT ![s] = tomb'[s]] /\ tomb'[s] = FALSE
    BY <1>1, <1>3, <2>1, <2>2 DEF SessionInv
  <2>4. rows'[s] = rows[s] \cup c.pend /\ CheckpointOK(rows[s] \cup c.pend, cp'[s])
    <3>1. InsertOrIgnore(rows[s], d.pend) = rows[s] \cup d.pend
      BY <1>3, <1>9, <1>10, InsertQueue
    <3>2. CheckpointOK(rows[s] \cup c.pend, Checkpointed(c, cp[s]))
      BY <1>3, <1>5, <1>8, CheckpointSaved
    <3> QED
      BY <1>9, <2>3, <3>1, <3>2
  <2>5. /\ LogOK(rows'[s])
        /\ Flushed(d) \in CoordinatorType /\ Continues(rows'[s], Flushed(d))
    BY <1>3, <1>9, <1>10, <2>4, InsertQueue
  <2>6. SessionOK(co'[s], rows'[s], cp'[s], sess'[s], tomb'[s])
    BY <2>2, <2>3, <2>4, <2>5 DEF SessionOK
  <2> QED
    BY <1>1, <2>2, <2>3, <2>6, OneSession
<1> QED
  BY <1>6, <1>11, <1>12

\* registry.get without events.
LEMMA OpenKeeps ==
    ASSUME SessionInv, NEW s \in Sessions, Open(s)
    PROVE  SessionInv'
<1>1. SessionOK(co[s], rows[s], cp[s], sess[s], tomb[s])
  BY DEF SessionInv
<1>2. /\ co' = [co EXCEPT ![s] = co'[s]] /\ co'[s] = Loaded(s)
      /\ cp' = [cp EXCEPT ![s] = cp'[s]] /\ cp'[s] = CurrentCp(s)
      /\ rows' = [rows EXCEPT ![s] = rows'[s]] /\ rows'[s] = rows[s]
      /\ sess' = [sess EXCEPT ![s] = sess'[s]] /\ sess'[s] = sess[s]
      /\ tomb' = [tomb EXCEPT ![s] = tomb'[s]] /\ tomb'[s] = tomb[s]
      /\ orphans' = orphans /\ sess[s]
  BY DEF Open, SessionInv
<1>3. SessionOK(co'[s], rows'[s], cp'[s], sess'[s], tomb'[s])
  BY <1>1, <1>2, LoadOK DEF SessionOK
<1> QED
  BY <1>2, <1>3, OneSession

\* The empty slot of the registry.
LEMMA NotLoadedType == NotLoaded \in CoordinatorType /\ ~NotLoaded.live
BY DEF NotLoaded, CoordinatorType

\* Idle eviction, and the close of a session that could not be erased: only a
\* close whose flush fails leaves a queue behind.
LEMMA EvictKeeps ==
    ASSUME Healthy, SessionInv, NEW s \in Sessions, Evict(s)
    PROVE  SessionInv'
<1> DEFINE c == co[s]
<1>1. SessionOK(co[s], rows[s], cp[s], sess[s], tomb[s])
  BY DEF SessionInv
<1>2. /\ c.live /\ c \in CoordinatorType /\ Continues(rows[s], c) /\ ~tomb[s]
      /\ LogOK(rows[s]) /\ CheckpointOK(rows[s], cp[s])
  BY <1>1 DEF Evict, SessionOK
<1>3. CloseOutcome(c) = {TRUE}
  BY DEF CloseOutcome, Outcome, Healthy
<1>4. /\ co' = [co EXCEPT ![s] = NotLoaded]
      /\ rows' = [rows EXCEPT ![s] = InsertOrIgnore(@, c.pend)]
      /\ sess' = [sess EXCEPT ![s] = @ \/ c.pend # {}]
      /\ cp' = [cp EXCEPT ![s] = Checkpointed(c, @)]
      /\ orphans' = orphans
      /\ tomb' = tomb
  BY <1>3 DEF Evict
<1> HIDE DEF c
<1>5. /\ co' = [co EXCEPT ![s] = co'[s]] /\ co'[s] = NotLoaded
      /\ rows' = [rows EXCEPT ![s] = rows'[s]]
      /\ rows'[s] = InsertOrIgnore(rows[s], c.pend)
      /\ sess' = [sess EXCEPT ![s] = sess'[s]] /\ sess'[s] \in BOOLEAN
      /\ cp' = [cp EXCEPT ![s] = cp'[s]] /\ cp'[s] = Checkpointed(c, cp[s])
      /\ tomb' = [tomb EXCEPT ![s] = tomb'[s]] /\ tomb'[s] = FALSE
  BY <1>2, <1>4 DEF SessionInv
<1>6. LogOK(rows'[s]) /\ CheckpointOK(rows'[s], cp'[s])
  <2>1. /\ InsertOrIgnore(rows[s], c.pend) = rows[s] \cup c.pend
        /\ LogOK(rows[s] \cup c.pend)
    BY <1>2, InsertQueue
  <2>2. CheckpointOK(rows[s] \cup c.pend, Checkpointed(c, cp[s]))
    BY <1>2, CheckpointSaved
  <2> QED
    BY <1>5, <2>1, <2>2
<1>7. SessionOK(co'[s], rows'[s], cp'[s], sess'[s], tomb'[s])
  BY <1>5, <1>6, NotLoadedType DEF SessionOK
<1> QED
  BY <1>4, <1>5, <1>7, OneSession

\* registry.forget.
LEMMA ForgetKeeps ==
    ASSUME Healthy, SessionInv, NEW s \in Sessions, Forget(s)
    PROVE  SessionInv'
<1>1. CASE ForgetClean(s)
  <2>1. /\ co' = [co EXCEPT ![s] = co'[s]] /\ co'[s] = NotLoaded
        /\ rows' = [rows EXCEPT ![s] = rows'[s]] /\ rows'[s] = {}
        /\ cp' = [cp EXCEPT ![s] = cp'[s]] /\ cp'[s] = NoCheckpoint
        /\ sess' = [sess EXCEPT ![s] = sess'[s]] /\ sess'[s] = FALSE
        /\ tomb' = [tomb EXCEPT ![s] = tomb'[s]] /\ tomb'[s] = TRUE
        /\ orphans' = orphans
    BY <1>1 DEF ForgetClean, Erase, SessionInv
  <2>2. SessionOK(co'[s], rows'[s], cp'[s], sess'[s], tomb'[s])
    BY <2>1, EmptyLog, NotLoadedType DEF SessionOK
  <2> QED
    BY <2>1, <2>2, OneSession
<1>2. CASE ForgetRefused(s)
  BY <1>2, EvictKeeps DEF ForgetRefused
<1>3. CASE ForgetDirty(s)
  BY <1>3 DEF ForgetDirty, CloseOutcome, Outcome, Healthy
<1>4. CASE ForgetThrows(s)
  BY <1>4 DEF ForgetThrows, Healthy
<1> QED
  BY <1>1, <1>2, <1>3, <1>4 DEF Forget

\* registry.applyRetention: it flushes the loaded sessions and erases only
\* sessions that are not loaded.
LEMMA ApplyRetentionKeeps ==
    ASSUME SessionInv, ApplyRetention
    PROVE  SessionInv'
<1> DEFINE loaded == {s \in Sessions : co[s].live}
<1>1. PICK gone \in SUBSET Retirable,
           failed \in SUBSET {s \in loaded : FALSE \in FlushOutcome(co[s])} :
        LET saved == loaded \ failed IN
        /\ co' = [s \in Sessions |-> IF s \in saved THEN Flushed(co[s]) ELSE co[s]]
        /\ rows' = [s \in Sessions |->
                       CASE s \in gone -> {}
                         [] s \in saved \ gone -> InsertOrIgnore(rows[s], co[s].pend)
                         [] OTHER -> rows[s]]
        /\ cp' = [s \in Sessions |-> IF s \in gone THEN NoCheckpoint ELSE cp[s]]
        /\ sess' = [s \in Sessions |->
                       s \notin gone /\ (sess[s] \/ (s \in saved /\ co[s].pend # {}))]
        /\ tomb' = [s \in Sessions |-> tomb[s] \/ s \in gone]
        /\ UNCHANGED orphans
  BY DEF ApplyRetention
<1> DEFINE saved == loaded \ failed
<1>2. ASSUME NEW s \in Sessions
      PROVE  SessionOK(co'[s], rows'[s], cp'[s], sess'[s], tomb'[s])
  <2>1. SessionOK(co[s], rows[s], cp[s], sess[s], tomb[s])
    BY DEF SessionInv
  <2>2. CASE s \in gone
    <3>1. ~co[s].live
      BY <2>2 DEF Retirable
    <3>2. /\ co'[s] = co[s] /\ rows'[s] = {} /\ cp'[s] = NoCheckpoint
          /\ sess'[s] = FALSE /\ tomb'[s] = TRUE
      BY <1>1, <2>2, <3>1
    <3> QED
      BY <2>1, <3>1, <3>2, EmptyLog DEF SessionOK
  <2>3. CASE s \in saved /\ s \notin gone
    <3>1. co[s].live /\ tomb[s] = FALSE
      BY <2>1, <2>3 DEF SessionOK
    <3>2. /\ co'[s] = Flushed(co[s])
          /\ rows'[s] = InsertOrIgnore(rows[s], co[s].pend)
          /\ cp'[s] = cp[s] /\ tomb'[s] = FALSE /\ sess'[s] \in BOOLEAN
      BY <1>1, <2>3, <3>1
    <3>3. /\ co[s] \in CoordinatorType /\ LogOK(rows[s])
          /\ CheckpointOK(rows[s], cp[s]) /\ Continues(rows[s], co[s])
      BY <2>1, <3>1 DEF SessionOK
    <3>4. SessionOK(Flushed(co[s]), InsertOrIgnore(rows[s], co[s].pend),
                    cp[s], sess'[s], FALSE)
      BY <3>1, <3>2, <3>3, PersistOK
    <3> QED
      BY <3>2, <3>4
  <2>4. CASE s \notin saved /\ s \notin gone
    <3>1. /\ co'[s] = co[s] /\ rows'[s] = rows[s] /\ cp'[s] = cp[s]
          /\ sess'[s] = sess[s] /\ tomb'[s] = tomb[s]
      BY <1>1, <2>1, <2>4 DEF SessionOK
    <3> QED
      BY <2>1, <3>1
  <2> QED
    BY <2>2, <2>3, <2>4
<1>3. /\ co' \in [Sessions -> CoordinatorType]
      /\ rows' \in [Sessions -> SUBSET Row]
      /\ cp' \in [Sessions -> CheckpointType]
      /\ sess' \in [Sessions -> BOOLEAN]
      /\ tomb' \in [Sessions -> BOOLEAN]
  <2>1. \A s \in Sessions : /\ co'[s] \in CoordinatorType
                            /\ rows'[s] \in SUBSET Row
                            /\ cp'[s] \in CheckpointType
                            /\ sess'[s] \in BOOLEAN
                            /\ tomb'[s] \in BOOLEAN
    BY <1>2 DEF SessionOK, LogOK, CheckpointOK
  <2> QED
    BY <1>1, <2>1
<1> QED
  BY <1>1, <1>2, <1>3 DEF SessionInv

\* A new process starts with no coordinator loaded.
LEMMA RestartKeeps ==
    ASSUME SessionInv, Restart
    PROVE  SessionInv'
<1>1. ASSUME NEW s \in Sessions
      PROVE  SessionOK(co'[s], rows'[s], cp'[s], sess'[s], tomb'[s])
  <2>1. SessionOK(co[s], rows[s], cp[s], sess[s], tomb[s])
    BY DEF SessionInv
  <2>2. co'[s] = NotLoaded /\ UNCHANGED store
    BY DEF Restart
  <2> QED
    BY <2>1, <2>2, NotLoadedType DEF SessionOK, store
<1> QED
  BY <1>1, NotLoadedType DEF SessionInv, Restart, store

\* Timers and API calls of one session; no coordinator is ever orphaned.
LEMMA BackgroundKeeps ==
    ASSUME SessionInv, NEW s \in Sessions, Background(s)
    PROVE  SessionInv'
<1>1. CASE Flush(s)
  <2>1. PICK ok \in FlushOutcome(co[s]) : Persist(s, co[s], ok)
    BY <1>1 DEF Flush
  <2>2. ok \in BOOLEAN
    BY DEF FlushOutcome, Outcome
  <2> QED
    BY <1>1, <2>1, <2>2, FlushKeeps DEF Flush
<1>2. CASE CheckpointTimer(s)
  BY <1>2, CheckpointTimerKeeps
<1>3. CASE Open(s)
  BY <1>3, OpenKeeps
<1>4. orphans[s] = {}
  BY DEF SessionInv
<1>5. CASE OrphanFlush(s)
  BY <1>4, <1>5 DEF OrphanFlush
<1>6. CASE OrphanCheckpoint(s)
  BY <1>4, <1>6 DEF OrphanCheckpoint
<1> QED
  BY <1>1, <1>2, <1>3, <1>5, <1>6 DEF Background

\* A step that leaves every session variable alone.
LEMMA StutterKeeps ==
    ASSUME SessionInv, UNCHANGED sessionVars
    PROVE  SessionInv'
BY DEF SessionInv, sessionVars, SessionOK, LogOK, CheckpointOK, Continues

\* The empty store.
LEMMA SessionInitOK == SessionInit => SessionInv
<1> SUFFICES ASSUME SessionInit PROVE SessionInv
  OBVIOUS
<1>1. ASSUME NEW s \in Sessions
      PROVE  SessionOK(co[s], rows[s], cp[s], sess[s], tomb[s])
  BY EmptyLog, NotLoadedType DEF SessionInit, SessionOK
<1>2. NoCheckpoint \in CheckpointType
  BY EmptyLog DEF CheckpointOK
<1> QED
  BY <1>1, <1>2, NotLoadedType DEF SessionInit, SessionInv

-----------------------------------------------------------------------------
(* An accepted event is never lost while the process lives, and a durable  *)
(* one never                                                               *)

\* e is in the durable log of s, or s is gone for good.
Durable(s, e) == tomb[s] \/ e \in Ids(rows[s])

\* e is durable, or a loaded coordinator will still write it.
Safe(s, e) == Durable(s, e) \/ (co[s].live /\ e \in Ids(co[s].pend))

DurableKept == \A s \in Sessions, e \in Events : Durable(s, e) => Durable(s, e)'

SafeKept == \A s \in Sessions, e \in Events : Safe(s, e) => Safe(s, e)'

\* A step that touches one session loses nothing if it loses nothing there.
LEMMA OneSessionSafe ==
    ASSUME SessionInv, NEW s \in Sessions,
           co' = [co EXCEPT ![s] = co'[s]],
           rows' = [rows EXCEPT ![s] = rows'[s]],
           tomb' = [tomb EXCEPT ![s] = tomb'[s]],
           \A e \in Events : /\ Durable(s, e) => Durable(s, e)'
                             /\ Safe(s, e) => Safe(s, e)'
    PROVE  DurableKept /\ SafeKept
<1>1. ASSUME NEW z \in Sessions, NEW e \in Events
      PROVE  (Durable(z, e) => Durable(z, e)') /\ (Safe(z, e) => Safe(z, e)')
  <2>1. CASE z = s
    BY <2>1
  <2>2. CASE z # s
    <3>1. co'[z] = co[z] /\ rows'[z] = rows[z] /\ tomb'[z] = tomb[z]
      BY <2>2 DEF SessionInv
    <3> QED
      BY <3>1 DEF Durable, Safe
  <2> QED
    BY <2>1, <2>2
<1> QED
  BY <1>1 DEF DurableKept, SafeKept

\* Persist loses nothing of the coordinator it is given, and a successful one
\* makes all of it durable.
LEMMA PersistSafe ==
    ASSUME SessionInv, NEW s \in Sessions, NEW c \in CoordinatorType,
           NEW ok \in BOOLEAN,
           c.live, Continues(rows[s], c),
           co[s].live => Ids(co[s].pend) \subseteq Ids(c.pend),
           Persist(s, c, ok), tomb' = tomb
    PROVE  /\ DurableKept
           /\ SafeKept
           /\ \A e \in Ids(rows[s]) \cup Ids(c.pend) : Safe(s, e)'
           /\ ok => \A e \in Ids(rows[s]) \cup Ids(c.pend) : Durable(s, e)'
<1>1. /\ co' = [co EXCEPT ![s] = co'[s]]
      /\ rows' = [rows EXCEPT ![s] = rows'[s]]
      /\ tomb' = [tomb EXCEPT ![s] = tomb'[s]] /\ tomb'[s] = tomb[s]
  BY DEF Persist, SessionInv
<1>2. CASE ok
  <2>1. rows'[s] = InsertOrIgnore(rows[s], c.pend)
    BY <1>2 DEF Persist, SessionInv
  <2>2. LogOK(rows[s])
    BY DEF SessionInv, SessionOK
  <2>3. rows'[s] = rows[s] \cup c.pend
    BY <2>1, <2>2, InsertQueue
  <2>4. Ids(rows'[s]) = Ids(rows[s]) \cup Ids(c.pend)
    BY <2>3 DEF Ids
  <2>5. \A e \in Ids(rows[s]) \cup Ids(c.pend) : Durable(s, e)' /\ Safe(s, e)'
    BY <2>4 DEF Durable, Safe
  <2>6. \A e \in Events : /\ Durable(s, e) => Durable(s, e)'
                          /\ Safe(s, e) => Safe(s, e)'
    BY <1>1, <2>4 DEF Durable, Safe
  <2> QED
    BY <1>1, <2>5, <2>6, OneSessionSafe
<1>3. CASE ~ok
  <2>1. co'[s] = c /\ rows'[s] = rows[s]
    BY <1>3 DEF Persist, SessionInv
  <2>2. \A e \in Ids(rows[s]) \cup Ids(c.pend) : Safe(s, e)'
    BY <2>1 DEF Durable, Safe
  <2>3. \A e \in Events : /\ Durable(s, e) => Durable(s, e)'
                          /\ Safe(s, e) => Safe(s, e)'
    BY <1>1, <2>1 DEF Durable, Safe
  <2> QED
    BY <1>1, <1>3, <2>2, <2>3, OneSessionSafe
<1> QED
  BY <1>2, <1>3

\* After registry.ingest every event of the batch is safe, the ones it
\* refused as duplicates included.
LEMMA AcceptSafe ==
    ASSUME SessionInv, NEW s \in Sessions, NEW F \in SUBSET Events,
           NEW sync \in BOOLEAN,
           NEW num \in Numberings(Fresh(s, F), Current(s).next),
           Accept(s, F, num, sync)
    PROVE  DurableKept /\ SafeKept /\ \A e \in F : Safe(s, e)'
<1> DEFINE fresh == Fresh(s, F)
           c == Current(s)
<1>1. c \in CoordinatorType /\ c.live /\ Continues(rows[s], c) /\ LogOK(rows[s])
  BY LoadOK DEF SessionInv, SessionOK
<1>2. /\ fresh \in SUBSET Events /\ fresh \cap (c.seen \cup Ids(rows[s])) = {}
      /\ \A e \in F : e \in fresh \/ e \in c.seen \/ e \in Ids(rows[s])
  BY <1>1 DEF Fresh, Continues
<1>3. co[s].live => c = co[s]
  BY DEF Current
<1>4. PICK arm \in BOOLEAN :
        LET d == Queued(c, fresh, num, arm)
        IN IF sync \/ (fresh # {} /\ Cardinality(d.pend) >= FlushThreshold)
           THEN \E ok \in FlushOutcome(d) : Persist(s, d, ok)
           ELSE co' = [co EXCEPT ![s] = d] /\ UNCHANGED <<rows, sess>>
  BY DEF Accept
<1> DEFINE d == Queued(c, fresh, num, arm)
<1>5. /\ d \in CoordinatorType /\ Continues(rows[s], d) /\ d.live
      /\ Ids(d.pend) = Ids(c.pend) \cup fresh
  <2>1. num \in Numberings(fresh, c.next) /\ arm \in BOOLEAN
    BY <1>4
  <2> HIDE DEF fresh, c
  <2> QED
    BY <1>1, <1>2, <2>1, AcceptContinues
<1>6. \/ \E ok \in FlushOutcome(d) : Persist(s, d, ok)
      \/ co' = [co EXCEPT ![s] = d] /\ UNCHANGED <<rows, sess>>
  BY <1>4
<1> HIDE DEF fresh, c, d
<1>7. F \subseteq Ids(rows[s]) \cup Ids(d.pend)
  BY <1>1, <1>2, <1>5 DEF Continues
<1>8. tomb' = tomb
  BY DEF Accept
<1>9. ASSUME NEW ok \in FlushOutcome(d), Persist(s, d, ok)
      PROVE  DurableKept /\ SafeKept /\ \A e \in F : Safe(s, e)'
  <2>1. ok \in BOOLEAN
    BY DEF FlushOutcome, Outcome
  <2> QED
    BY <1>3, <1>5, <1>7, <1>8, <1>9, <2>1, PersistSafe
<1>10. CASE co' = [co EXCEPT ![s] = d] /\ UNCHANGED <<rows, sess>>
  <2>1. /\ co' = [co EXCEPT ![s] = co'[s]] /\ co'[s] = d
        /\ rows' = [rows EXCEPT ![s] = rows'[s]] /\ rows'[s] = rows[s]
        /\ tomb' = [tomb EXCEPT ![s] = tomb'[s]] /\ tomb'[s] = tomb[s]
    BY <1>8, <1>10 DEF SessionInv
  <2>2. \A e \in F : Safe(s, e)'
    BY <1>5, <1>7, <2>1 DEF Durable, Safe
  <2>3. \A e \in Events : /\ Durable(s, e) => Durable(s, e)'
                          /\ Safe(s, e) => Safe(s, e)'
    BY <1>3, <1>5, <2>1 DEF Durable, Safe
  <2> QED
    BY <2>1, <2>2, <2>3, OneSessionSafe
<1> QED
  BY <1>6, <1>9, <1>10

\* The timers lose nothing.
LEMMA BackgroundSafe ==
    ASSUME SessionInv, NEW s \in Sessions, Background(s)
    PROVE  DurableKept /\ SafeKept
<1>1. SessionOK(co[s], rows[s], cp[s], sess[s], tomb[s])
  BY DEF SessionInv
<1>2. CASE Flush(s)
  <2>1. PICK ok \in FlushOutcome(co[s]) : Persist(s, co[s], ok)
    BY <1>2 DEF Flush
  <2>2. ok \in BOOLEAN
    BY DEF FlushOutcome, Outcome
  <2>3. /\ co[s] \in CoordinatorType /\ co[s].live
        /\ Continues(rows[s], co[s]) /\ tomb' = tomb
    BY <1>1, <1>2 DEF Flush, SessionOK
  <2> QED
    BY <2>1, <2>2, <2>3, PersistSafe
<1>3. CASE CheckpointTimer(s)
  <2> DEFINE c == [co[s] EXCEPT !.timer = FALSE]
             top == IF c.next - 1 > c.cpSeq THEN c.next - 1 ELSE c.cpSeq
             d(ok) == IF ok THEN [c EXCEPT !.cpSeq = top] ELSE c
  <2>1. PICK ok \in FlushOutcome(c) : Persist(s, d(ok), ok)
    BY <1>3 DEF CheckpointTimer
  <2>2. co[s].live /\ tomb' = tomb
    BY <1>3 DEF CheckpointTimer
  <2>3. co[s] \in CoordinatorType /\ Continues(rows[s], co[s])
    BY <1>1, <2>2 DEF SessionOK
  <2>4. ok \in BOOLEAN
    BY <2>1 DEF FlushOutcome, Outcome
  <2>5. c \in CoordinatorType
    BY <2>3 DEF CoordinatorType
  <2>6. top \in Nat \cup {-1}
    BY <2>5 DEF CoordinatorType
  <2> HIDE DEF top
  <2>7. /\ d(ok) \in CoordinatorType /\ d(ok).live
        /\ d(ok).pend = co[s].pend /\ d(ok).state = co[s].state
        /\ d(ok).next = co[s].next /\ d(ok).seen = co[s].seen
        /\ d(ok).closed = co[s].closed
    BY <2>2, <2>3, <2>4, <2>5, <2>6 DEF CoordinatorType
  <2> HIDE DEF d, c
  <2>8. Continues(rows[s], d(ok))
    BY <2>3, <2>7 DEF Continues
  <2> QED
    BY <2>1, <2>2, <2>4, <2>7, <2>8, PersistSafe
<1>4. CASE Open(s)
  <2>1. /\ co' = [co EXCEPT ![s] = co'[s]]
        /\ rows' = [rows EXCEPT ![s] = rows'[s]] /\ rows'[s] = rows[s]
        /\ tomb' = [tomb EXCEPT ![s] = tomb'[s]] /\ tomb'[s] = tomb[s]
        /\ ~co[s].live
    BY <1>4 DEF Open, SessionInv
  <2>2. \A e \in Events : /\ Durable(s, e) => Durable(s, e)'
                          /\ Safe(s, e) => Safe(s, e)'
    BY <2>1 DEF Durable, Safe
  <2> QED
    BY <2>1, <2>2, OneSessionSafe
<1>5. orphans[s] = {}
  BY DEF SessionInv
<1>6. CASE OrphanFlush(s)
  BY <1>5, <1>6 DEF OrphanFlush
<1>7. CASE OrphanCheckpoint(s)
  BY <1>5, <1>7 DEF OrphanCheckpoint
<1> QED
  BY <1>2, <1>3, <1>4, <1>6, <1>7 DEF Background

\* A close that cannot fail loses nothing.
LEMMA EvictSafe ==
    ASSUME Healthy, SessionInv, NEW s \in Sessions, Evict(s)
    PROVE  DurableKept /\ SafeKept
<1> DEFINE c == co[s]
<1>1. SessionOK(co[s], rows[s], cp[s], sess[s], tomb[s])
  BY DEF SessionInv
<1>2. c.live /\ c \in CoordinatorType /\ Continues(rows[s], c) /\ LogOK(rows[s])
  BY <1>1 DEF Evict, SessionOK
<1>3. CloseOutcome(c) = {TRUE}
  BY DEF CloseOutcome, Outcome, Healthy
<1>4. /\ co' = [co EXCEPT ![s] = co'[s]]
      /\ rows' = [rows EXCEPT ![s] = rows'[s]]
      /\ rows'[s] = InsertOrIgnore(rows[s], c.pend)
      /\ tomb' = [tomb EXCEPT ![s] = tomb'[s]] /\ tomb'[s] = tomb[s]
  BY <1>3 DEF Evict, SessionInv
<1>5. rows'[s] = rows[s] \cup c.pend
  BY <1>2, <1>4, InsertQueue
<1>6. \A e \in Events : /\ Durable(s, e) => Durable(s, e)'
                        /\ Safe(s, e) => Safe(s, e)'
  BY <1>4, <1>5 DEF Durable, Safe, Ids
<1> QED
  BY <1>4, <1>6, OneSessionSafe

\* Forget loses nothing that is not forgotten.
LEMMA ForgetSafe ==
    ASSUME Healthy, SessionInv, NEW s \in Sessions, Forget(s)
    PROVE  DurableKept /\ SafeKept
<1>1. CASE ForgetClean(s)
  <2>1. /\ co' = [co EXCEPT ![s] = co'[s]]
        /\ rows' = [rows EXCEPT ![s] = rows'[s]]
        /\ tomb' = [tomb EXCEPT ![s] = tomb'[s]] /\ tomb'[s] = TRUE
    BY <1>1 DEF ForgetClean, Erase, SessionInv
  <2>2. \A e \in Events : /\ Durable(s, e) => Durable(s, e)'
                          /\ Safe(s, e) => Safe(s, e)'
    BY <2>1 DEF Durable, Safe
  <2> QED
    BY <2>1, <2>2, OneSessionSafe
<1>2. CASE ForgetRefused(s)
  BY <1>2, EvictSafe DEF ForgetRefused
<1>3. CASE ForgetDirty(s)
  BY <1>3 DEF ForgetDirty, CloseOutcome, Outcome, Healthy
<1>4. CASE ForgetThrows(s)
  BY <1>4 DEF ForgetThrows, Healthy
<1> QED
  BY <1>1, <1>2, <1>3, <1>4 DEF Forget

\* Retention loses nothing of the sessions it keeps.
LEMMA ApplyRetentionSafe ==
    ASSUME SessionInv, ApplyRetention
    PROVE  DurableKept /\ SafeKept
<1> DEFINE loaded == {s \in Sessions : co[s].live}
<1>1. PICK gone \in SUBSET Retirable,
           failed \in SUBSET {s \in loaded : FALSE \in FlushOutcome(co[s])} :
        LET saved == loaded \ failed IN
        /\ co' = [s \in Sessions |-> IF s \in saved THEN Flushed(co[s]) ELSE co[s]]
        /\ rows' = [s \in Sessions |->
                       CASE s \in gone -> {}
                         [] s \in saved \ gone -> InsertOrIgnore(rows[s], co[s].pend)
                         [] OTHER -> rows[s]]
        /\ tomb' = [s \in Sessions |-> tomb[s] \/ s \in gone]
  BY DEF ApplyRetention
<1> DEFINE saved == loaded \ failed
<1>2. ASSUME NEW s \in Sessions, NEW e \in Events
      PROVE  (Durable(s, e) => Durable(s, e)') /\ (Safe(s, e) => Safe(s, e)')
  <2>1. SessionOK(co[s], rows[s], cp[s], sess[s], tomb[s])
    BY DEF SessionInv
  <2>2. CASE s \in gone
    <3>1. tomb'[s]
      BY <1>1, <2>2
    <3> QED
      BY <3>1 DEF Durable, Safe
  <2>3. CASE s \in saved /\ s \notin gone
    <3>1. /\ co[s] \in CoordinatorType /\ LogOK(rows[s])
          /\ Continues(rows[s], co[s])
      BY <2>1, <2>3 DEF SessionOK
    <3>2. rows'[s] = InsertOrIgnore(rows[s], co[s].pend) /\ (tomb[s] => tomb'[s])
      BY <1>1, <2>3
    <3>3. rows'[s] = rows[s] \cup co[s].pend
      BY <3>1, <3>2, InsertQueue
    <3> QED
      BY <3>2, <3>3 DEF Durable, Safe, Ids
  <2>4. CASE s \notin saved /\ s \notin gone
    <3>1. co'[s] = co[s] /\ rows'[s] = rows[s] /\ (tomb[s] => tomb'[s])
      BY <1>1, <2>4
    <3> QED
      BY <3>1 DEF Durable, Safe
  <2> QED
    BY <2>2, <2>3, <2>4
<1> QED
  BY <1>2 DEF DurableKept, SafeKept

\* A restart loses the queues, and nothing durable.
LEMMA RestartDurable ==
    ASSUME Restart
    PROVE  DurableKept
BY DEF Restart, store, DurableKept, Durable

\* A step that leaves the session log alone.
LEMMA StutterSafe ==
    ASSUME UNCHANGED sessionVars
    PROVE  DurableKept /\ SafeKept
BY DEF sessionVars, DurableKept, SafeKept, Durable, Safe

-----------------------------------------------------------------------------
(* What a step can do to the events a session has, durable or queued       *)

\* The events of s, as its state has them.
Known(s) == rows[s] \cup (IF co[s].live THEN co[s].pend ELSE {})

\* No event is taken in: the log and the state stay, or one becomes the
\* other, or the session is erased.
Quiet(s) ==
    \/ /\ rows'[s] \in {rows[s], Known(s)}
       /\ Known(s)' \in {rows[s], Known(s)}
       /\ tomb'[s] = tomb[s]
    \/ /\ rows'[s] = {}
       /\ Known(s)' = {}
       /\ tomb'[s]

AllQuiet == \A s \in Sessions : Quiet(s)

\* The rows N are taken in, and perhaps stored with those before them.
Takes(s, N) ==
    /\ ~tomb[s]
    /\ tomb'[s] = tomb[s]
    /\ Known(s)' = Known(s) \cup N
    /\ rows'[s] \in {rows[s], Known(s)'}

\* Nothing happens to a session whose values stay.
LEMMA StillQuiet ==
    ASSUME NEW s, UNCHANGED <<co[s], rows[s], tomb[s]>>
    PROVE  Quiet(s)
BY DEF Quiet, Known

\* A step that touches one session is quiet for the others.
LEMMA OthersQuiet ==
    ASSUME SessionInv, NEW s \in Sessions,
           co' = [co EXCEPT ![s] = co'[s]],
           rows' = [rows EXCEPT ![s] = rows'[s]],
           tomb' = [tomb EXCEPT ![s] = tomb'[s]]
    PROVE  \A z \in Sessions \ {s} : Quiet(z)
<1> SUFFICES ASSUME NEW z \in Sessions, z # s
             PROVE  Quiet(z)
  OBVIOUS
<1>1. UNCHANGED <<co[z], rows[z], tomb[z]>>
  BY DEF SessionInv
<1> QED
  BY <1>1, StillQuiet

\* Persist makes the state of the coordinator it is given the session's
\* state, and the log as well if it gets through.
LEMMA PersistKnown ==
    ASSUME SessionInv, NEW s \in Sessions, NEW c \in CoordinatorType,
           NEW ok \in BOOLEAN,
           c.live, Continues(rows[s], c), Persist(s, c, ok), tomb' = tomb
    PROVE  /\ Known(s)' = rows[s] \cup c.pend
           /\ rows'[s] \in {rows[s], rows[s] \cup c.pend}
           /\ \A z \in Sessions \ {s} : Quiet(z)
<1>1. /\ co' = [co EXCEPT ![s] = co'[s]]
      /\ rows' = [rows EXCEPT ![s] = rows'[s]]
      /\ tomb' = [tomb EXCEPT ![s] = tomb'[s]]
  BY DEF Persist, SessionInv
<1>2. \A z \in Sessions \ {s} : Quiet(z)
  BY <1>1, OthersQuiet
<1>3. CASE ok
  <2>1. LogOK(rows[s])
    BY DEF SessionInv, SessionOK
  <2>2. rows'[s] = rows[s] \cup c.pend /\ co'[s] = Flushed(c)
    BY <1>3, <2>1, InsertQueue DEF Persist, SessionInv
  <2>3. Flushed(c).pend = {}
    BY DEF Flushed, CoordinatorType
  <2> QED
    BY <1>2, <2>2, <2>3 DEF Known
<1>4. CASE ~ok
  <2>1. rows'[s] = rows[s] /\ co'[s] = c
    BY <1>4 DEF Persist, SessionInv
  <2> QED
    BY <1>2, <2>1 DEF Known
<1> QED
  BY <1>3, <1>4

\* The timers of a session take nothing in.
LEMMA BackgroundQuiet ==
    ASSUME SessionInv, NEW s \in Sessions, Background(s)
    PROVE  AllQuiet
<1>1. SessionOK(co[s], rows[s], cp[s], sess[s], tomb[s])
  BY DEF SessionInv
<1>2. ASSUME NEW c \in CoordinatorType, NEW ok \in BOOLEAN,
             co[s].live, c.live, Continues(rows[s], c), c.pend = co[s].pend,
             Persist(s, c, ok), tomb' = tomb
      PROVE  AllQuiet
  <2>1. /\ Known(s)' = rows[s] \cup c.pend
        /\ rows'[s] \in {rows[s], rows[s] \cup c.pend}
        /\ \A z \in Sessions \ {s} : Quiet(z)
    BY <1>2, PersistKnown
  <2>2. Known(s) = rows[s] \cup c.pend
    BY <1>2 DEF Known
  <2>3. Quiet(s)
    BY <1>2, <2>1, <2>2 DEF Quiet
  <2> QED
    BY <2>1, <2>3 DEF AllQuiet
<1>3. CASE Flush(s)
  <2>1. PICK ok \in FlushOutcome(co[s]) : Persist(s, co[s], ok)
    BY <1>3 DEF Flush
  <2>2. ok \in BOOLEAN
    BY DEF FlushOutcome, Outcome
  <2>3. /\ co[s] \in CoordinatorType /\ co[s].live
        /\ Continues(rows[s], co[s]) /\ tomb' = tomb
    BY <1>1, <1>3 DEF Flush, SessionOK
  <2> QED
    BY <1>2, <2>1, <2>2, <2>3
<1>4. CASE CheckpointTimer(s)
  <2> DEFINE c == [co[s] EXCEPT !.timer = FALSE]
             top == IF c.next - 1 > c.cpSeq THEN c.next - 1 ELSE c.cpSeq
             d(ok) == IF ok THEN [c EXCEPT !.cpSeq = top] ELSE c
  <2>1. PICK ok \in FlushOutcome(c) : Persist(s, d(ok), ok)
    BY <1>4 DEF CheckpointTimer
  <2>2. co[s].live /\ tomb' = tomb
    BY <1>4 DEF CheckpointTimer
  <2>3. co[s] \in CoordinatorType /\ Continues(rows[s], co[s])
    BY <1>1, <2>2 DEF SessionOK
  <2>4. ok \in BOOLEAN
    BY <2>1 DEF FlushOutcome, Outcome
  <2>5. c \in CoordinatorType
    BY <2>3 DEF CoordinatorType
  <2>6. top \in Nat \cup {-1}
    BY <2>5 DEF CoordinatorType
  <2> HIDE DEF top
  <2>7. /\ d(ok) \in CoordinatorType /\ d(ok).live
        /\ d(ok).pend = co[s].pend /\ d(ok).state = co[s].state
        /\ d(ok).next = co[s].next /\ d(ok).seen = co[s].seen
        /\ d(ok).closed = co[s].closed
    BY <2>2, <2>3, <2>4, <2>5, <2>6 DEF CoordinatorType
  <2> HIDE DEF d, c
  <2>8. Continues(rows[s], d(ok))
    BY <2>3, <2>7 DEF Continues
  <2> QED
    BY <1>2, <2>1, <2>2, <2>4, <2>7, <2>8
<1>5. CASE Open(s)
  <2>1. /\ co' = [co EXCEPT ![s] = co'[s]] /\ co'[s] = Loaded(s)
        /\ rows' = [rows EXCEPT ![s] = rows'[s]] /\ rows'[s] = rows[s]
        /\ tomb' = [tomb EXCEPT ![s] = tomb'[s]] /\ tomb'[s] = tomb[s]
    BY <1>5 DEF Open, SessionInv
  <2>2. Loaded(s).pend = {}
    BY DEF Loaded, NotLoaded
  <2>3. Quiet(s)
    BY <2>1, <2>2 DEF Quiet, Known
  <2> QED
    BY <2>1, <2>3, OthersQuiet DEF AllQuiet
<1>6. orphans[s] = {}
  BY DEF SessionInv
<1>7. CASE OrphanFlush(s)
  BY <1>6, <1>7 DEF OrphanFlush
<1>8. CASE OrphanCheckpoint(s)
  BY <1>6, <1>8 DEF OrphanCheckpoint
<1> QED
  BY <1>3, <1>4, <1>5, <1>7, <1>8 DEF Background

\* Neither does closing an idle session, ...
LEMMA EvictQuiet ==
    ASSUME Healthy, SessionInv, NEW s \in Sessions, Evict(s)
    PROVE  AllQuiet
<1> DEFINE c == co[s]
<1>1. SessionOK(co[s], rows[s], cp[s], sess[s], tomb[s])
  BY DEF SessionInv
<1>2. c.live /\ c \in CoordinatorType /\ Continues(rows[s], c) /\ LogOK(rows[s])
  BY <1>1 DEF Evict, SessionOK
<1>3. CloseOutcome(c) = {TRUE}
  BY DEF CloseOutcome, Outcome, Healthy
<1>4. /\ co' = [co EXCEPT ![s] = co'[s]] /\ co'[s] = NotLoaded
      /\ rows' = [rows EXCEPT ![s] = rows'[s]]
      /\ rows'[s] = InsertOrIgnore(rows[s], c.pend)
      /\ tomb' = [tomb EXCEPT ![s] = tomb'[s]] /\ tomb'[s] = tomb[s]
  BY <1>3 DEF Evict, SessionInv
<1>5. rows'[s] = rows[s] \cup c.pend
  BY <1>2, <1>4, InsertQueue
<1>6. Quiet(s)
  BY <1>2, <1>4, <1>5, NotLoadedType DEF Quiet, Known
<1> QED
  BY <1>4, <1>6, OthersQuiet DEF AllQuiet

\* ... forgetting one, ...
LEMMA ForgetQuiet ==
    ASSUME Healthy, SessionInv, NEW s \in Sessions, Forget(s)
    PROVE  AllQuiet
<1>1. CASE ForgetClean(s)
  <2>1. /\ co' = [co EXCEPT ![s] = co'[s]] /\ co'[s] = NotLoaded
        /\ rows' = [rows EXCEPT ![s] = rows'[s]] /\ rows'[s] = {}
        /\ tomb' = [tomb EXCEPT ![s] = tomb'[s]] /\ tomb'[s] = TRUE
    BY <1>1 DEF ForgetClean, Erase, SessionInv
  <2>2. Quiet(s)
    BY <2>1, NotLoadedType DEF Quiet, Known
  <2> QED
    BY <2>1, <2>2, OthersQuiet DEF AllQuiet
<1>2. CASE ForgetRefused(s)
  BY <1>2, EvictQuiet DEF ForgetRefused
<1>3. CASE ForgetDirty(s)
  BY <1>3 DEF ForgetDirty, CloseOutcome, Outcome, Healthy
<1>4. CASE ForgetThrows(s)
  BY <1>4 DEF ForgetThrows, Healthy
<1> QED
  BY <1>1, <1>2, <1>3, <1>4 DEF Forget

\* ... retention ...
LEMMA ApplyRetentionQuiet ==
    ASSUME SessionInv, ApplyRetention
    PROVE  AllQuiet
<1> DEFINE loaded == {s \in Sessions : co[s].live}
<1>1. PICK gone \in SUBSET Retirable,
           failed \in SUBSET {s \in loaded : FALSE \in FlushOutcome(co[s])} :
        LET saved == loaded \ failed IN
        /\ co' = [s \in Sessions |-> IF s \in saved THEN Flushed(co[s]) ELSE co[s]]
        /\ rows' = [s \in Sessions |->
                       CASE s \in gone -> {}
                         [] s \in saved \ gone -> InsertOrIgnore(rows[s], co[s].pend)
                         [] OTHER -> rows[s]]
        /\ tomb' = [s \in Sessions |-> tomb[s] \/ s \in gone]
  BY DEF ApplyRetention
<1> DEFINE saved == loaded \ failed
<1>2. ASSUME NEW s \in Sessions
      PROVE  Quiet(s)
  <2>1. SessionOK(co[s], rows[s], cp[s], sess[s], tomb[s]) /\ tomb[s] \in BOOLEAN
    BY DEF SessionInv
  <2>2. CASE s \in gone
    <3>1. ~co[s].live
      BY <2>2 DEF Retirable
    <3>2. rows'[s] = {} /\ tomb'[s] /\ co'[s] = co[s]
      BY <1>1, <2>2, <3>1
    <3> QED
      BY <3>1, <3>2 DEF Quiet, Known
  <2>3. CASE s \in saved /\ s \notin gone
    <3>1. /\ co[s] \in CoordinatorType /\ LogOK(rows[s]) /\ co[s].live
          /\ Continues(rows[s], co[s])
      BY <2>1, <2>3 DEF SessionOK
    <3>2. /\ rows'[s] = InsertOrIgnore(rows[s], co[s].pend)
          /\ co'[s] = Flushed(co[s])
      BY <1>1, <2>3
    <3>3. rows'[s] = rows[s] \cup co[s].pend /\ Flushed(co[s]).pend = {}
      BY <3>1, <3>2, InsertQueue DEF Flushed, CoordinatorType
    <3>4. tomb'[s] = tomb[s]
      BY <1>1, <2>1, <2>3
    <3> QED
      BY <3>1, <3>2, <3>3, <3>4 DEF Quiet, Known
  <2>4. CASE s \notin saved /\ s \notin gone
    <3>1. co'[s] = co[s] /\ rows'[s] = rows[s]
      BY <1>1, <2>4
    <3>2. tomb'[s] = tomb[s]
      BY <1>1, <2>1, <2>4
    <3> QED
      BY <3>1, <3>2, StillQuiet
  <2> QED
    BY <2>2, <2>3, <2>4
<1> QED
  BY <1>2 DEF AllQuiet

\* ... or a restart, which loses the queues.
LEMMA RestartQuiet ==
    ASSUME Restart
    PROVE  AllQuiet
BY NotLoadedType DEF Restart, store, AllQuiet, Quiet, Known

LEMMA StutterQuiet ==
    ASSUME UNCHANGED sessionVars
    PROVE  AllQuiet
BY StillQuiet DEF sessionVars, AllQuiet

\* registry.ingest takes in what of the batch the session does not know, with
\* numbers above all it has.
LEMMA AcceptTakes ==
    ASSUME SessionInv, NEW s \in Sessions, NEW F \in SUBSET Events,
           NEW sync \in BOOLEAN,
           NEW num \in Numberings(Fresh(s, F), Current(s).next),
           Accept(s, F, num, sync)
    PROVE  /\ Takes(s, Numbered(Fresh(s, F), num))
           /\ \A z \in Sessions \ {s} : Quiet(z)
           /\ Fresh(s, F) = F \ Ids(Known(s))
           /\ \A r \in Known(s) : r.seq \in Nat /\ r.seq < Current(s).next
<1> DEFINE fresh == Fresh(s, F)
           c == Current(s)
           N == Numbered(fresh, num)
<1>1. c \in CoordinatorType /\ c.live /\ Continues(rows[s], c) /\ LogOK(rows[s])
  BY LoadOK DEF SessionInv, SessionOK
<1>2. fresh \in SUBSET Events /\ fresh \cap (c.seen \cup Ids(rows[s])) = {}
  BY <1>1 DEF Fresh, Continues
<1>3. Known(s) = rows[s] \cup c.pend
  <2>1. Loaded(s).pend = {}
    BY DEF Loaded, NotLoaded
  <2> QED
    BY <2>1 DEF Known, Current
<1>4. fresh = F \ Ids(Known(s))
  <2>1. Ids(Known(s)) = Ids(rows[s]) \cup Ids(c.pend)
    BY <1>3 DEF Ids
  <2>2. ~c.closed /\ c.seen \cup Ids(rows[s]) = Ids(rows[s]) \cup Ids(c.pend)
    BY <1>1 DEF Continues
  <2> QED
    BY <2>1, <2>2 DEF Fresh
<1>5. \A r \in Known(s) : r.seq \in Nat /\ r.seq < c.next
  <2>1. \A r \in rows[s] : r.seq \in 0 .. (NextSeq(rows[s]) - 1)
    BY <1>1 DEF LogOK, Seqs
  <2>2. \A r \in c.pend : r.seq \in NextSeq(rows[s]) .. (c.next - 1)
    BY <1>1 DEF Continues, Seqs
  <2>3. NextSeq(rows[s]) \in Nat /\ c.next \in Nat /\ NextSeq(rows[s]) <= c.next
    BY <1>1 DEF LogOK, Continues, CoordinatorType
  <2> QED
    BY <1>3, <2>1, <2>2, <2>3
<1>6. PICK arm \in BOOLEAN :
        LET d == Queued(c, fresh, num, arm)
        IN IF sync \/ (fresh # {} /\ Cardinality(d.pend) >= FlushThreshold)
           THEN \E ok \in FlushOutcome(d) : Persist(s, d, ok)
           ELSE co' = [co EXCEPT ![s] = d] /\ UNCHANGED <<rows, sess>>
  BY DEF Accept
<1> DEFINE d == Queued(c, fresh, num, arm)
<1>7. /\ d \in CoordinatorType /\ Continues(rows[s], d) /\ d.live
      /\ d.pend = c.pend \cup N
  <2>1. num \in Numberings(fresh, c.next) /\ arm \in BOOLEAN
    BY <1>6
  <2>2. d.pend = c.pend \cup N
    BY <1>1 DEF Queued, Applied, CoordinatorType
  <2> HIDE DEF fresh, c, N
  <2> QED
    BY <1>1, <1>2, <2>1, <2>2, AcceptContinues
<1>8. \/ \E ok \in FlushOutcome(d) : Persist(s, d, ok)
      \/ co' = [co EXCEPT ![s] = d] /\ UNCHANGED <<rows, sess>>
  BY <1>6
<1>9. tomb' = tomb /\ ~tomb[s]
  BY DEF Accept
<1> HIDE DEF fresh, c, d, N
<1>10. /\ Known(s)' = Known(s) \cup N
       /\ rows'[s] \in {rows[s], Known(s) \cup N}
       /\ \A z \in Sessions \ {s} : Quiet(z)
  <2>1. ASSUME NEW ok \in FlushOutcome(d), Persist(s, d, ok)
        PROVE  /\ Known(s)' = Known(s) \cup N
               /\ rows'[s] \in {rows[s], Known(s) \cup N}
               /\ \A z \in Sessions \ {s} : Quiet(z)
    <3>1. ok \in BOOLEAN
      BY DEF FlushOutcome, Outcome
    <3>2. /\ Known(s)' = rows[s] \cup d.pend
          /\ rows'[s] \in {rows[s], rows[s] \cup d.pend}
          /\ \A z \in Sessions \ {s} : Quiet(z)
      BY <1>7, <1>9, <2>1, <3>1, PersistKnown
    <3> QED
      BY <1>3, <1>7, <3>2
  <2>2. CASE co' = [co EXCEPT ![s] = d] /\ UNCHANGED <<rows, sess>>
    <3>1. /\ co' = [co EXCEPT ![s] = co'[s]] /\ co'[s] = d
          /\ rows' = [rows EXCEPT ![s] = rows'[s]] /\ rows'[s] = rows[s]
          /\ tomb' = [tomb EXCEPT ![s] = tomb'[s]]
      BY <1>9, <2>2 DEF SessionInv
    <3>2. Known(s)' = rows[s] \cup d.pend
      BY <1>7, <3>1 DEF Known
    <3>3. \A z \in Sessions \ {s} : Quiet(z)
      BY <3>1, OthersQuiet
    <3> QED
      BY <1>3, <1>7, <3>1, <3>2, <3>3
  <2> QED
    BY <1>8, <2>1, <2>2
<1>11. Takes(s, N)
  BY <1>9, <1>10 DEF Takes
<1> QED
  BY <1>4, <1>5, <1>10, <1>11 DEF fresh, c, N

-----------------------------------------------------------------------------
(* The durable log keeps the promise of EventLog                           *)

\* A session's log only grows, or is erased for good.
Promising(s) ==
    \/ rows[s] \subseteq rows'[s] /\ tomb'[s] = tomb[s]
    \/ rows'[s] = {} /\ tomb'[s] = TRUE

\* The sequence the rows R make.
Sequence(R) == [i \in 1 .. Cardinality(R) |-> (CHOOSE r \in R : r.seq = i - 1).id]

\* A log has as many rows as sequence numbers, and its sequence lists the
\* events of its rows in their order.
LEMMA SequenceOf ==
    ASSUME NEW R, LogOK(R)
    PROVE  /\ NextSeq(R) \in Nat
           /\ Cardinality(R) = NextSeq(R)
           /\ Sequence(R) \in [1 .. NextSeq(R) -> Events]
           /\ \A r \in R : r.seq + 1 \in 1 .. NextSeq(R) /\ Sequence(R)[r.seq + 1] = r.id
           /\ \A i \in 1 .. NextSeq(R) :
                \E r \in R : r.seq = i - 1 /\ Sequence(R)[i] = r.id
<1> DEFINE n == NextSeq(R)
           row == [i \in 1 .. n |-> CHOOSE r \in R : r.seq = i - 1]
<1>1. R \subseteq Row /\ n \in Nat /\ Seqs(R) = 0 .. (n - 1) /\ Distinct(R)
  BY DEF LogOK
<1>2. \A i \in 1 .. n : \E r \in R : r.seq = i - 1
  <2> SUFFICES ASSUME NEW i \in 1 .. n PROVE \E r \in R : r.seq = i - 1
    OBVIOUS
  <2>1. i - 1 \in Seqs(R)
    BY <1>1
  <2> QED
    BY <2>1 DEF Seqs
<1>3. \A i \in 1 .. n : row[i] \in R /\ row[i].seq = i - 1
  BY <1>2
<1> HIDE DEF row
<1>4. \A r \in R : r.seq + 1 \in 1 .. n /\ row[r.seq + 1] = r
  <2> SUFFICES ASSUME NEW r \in R
               PROVE  r.seq + 1 \in 1 .. n /\ row[r.seq + 1] = r
    OBVIOUS
  <2>1. r.seq \in 0 .. (n - 1)
    BY <1>1 DEF Seqs
  <2>2. r.seq + 1 \in 1 .. n
    BY <1>1, <2>1
  <2>3. row[r.seq + 1] \in R /\ row[r.seq + 1].seq = (r.seq + 1) - 1
    BY <1>3, <2>2
  <2>4. row[r.seq + 1].seq = r.seq
    BY <2>1, <2>3
  <2> QED
    BY <1>1, <2>2, <2>3, <2>4 DEF Distinct
<1>5. Cardinality(R) = n
  <2>1. row \in [1 .. n -> R]
    BY <1>3 DEF row
  <2>2. row \in Bijection(1 .. n, R)
    <3>1. \A i, j \in 1 .. n : row[i] = row[j] => i = j
      BY <1>3
    <3>2. \A r \in R : \E i \in 1 .. n : row[i] = r
      BY <1>4
    <3> QED
      BY <2>1, <3>1, <3>2 DEF Bijection, Injection, Surjection, IsInjective
  <2>3. ExistsBijection(1 .. n, R)
    BY <2>2 DEF ExistsBijection
  <2> QED
    BY <1>1, <2>3, FS_CountingElements
<1>6. Sequence(R) = [i \in 1 .. n |-> row[i].id]
  BY <1>5 DEF Sequence, row
<1>7. \A i \in 1 .. n : row[i].id \in Events
  BY <1>1, <1>3 DEF Row
<1>8. \A r \in R : Sequence(R)[r.seq + 1] = r.id
  BY <1>4, <1>6
<1>9. \A i \in 1 .. n : \E r \in R : r.seq = i - 1 /\ Sequence(R)[i] = r.id
  BY <1>3, <1>6
<1> QED
  BY <1>1, <1>4, <1>5, <1>6, <1>7, <1>8, <1>9

\* The numbers of the rows that a longer log has more are the last ones.
LEMMA LongerLog ==
    ASSUME NEW R, NEW S, LogOK(R), LogOK(S), R \subseteq S
    PROVE  /\ NextSeq(R) <= NextSeq(S)
           /\ \A i \in 1 .. NextSeq(R) : Sequence(S)[i] = Sequence(R)[i]
           /\ \A r \in S \ R : r.seq >= NextSeq(R)
           /\ \A r \in S : r.seq >= NextSeq(R) => r \notin R
<1>1. /\ NextSeq(R) \in Nat /\ NextSeq(S) \in Nat /\ S \subseteq Row
      /\ Seqs(R) = 0 .. (NextSeq(R) - 1) /\ Seqs(S) = 0 .. (NextSeq(S) - 1)
      /\ Distinct(S)
  BY DEF LogOK
<1>2. Seqs(R) \subseteq Seqs(S)
  BY DEF Seqs
<1>3. NextSeq(R) <= NextSeq(S)
  <2>1. CASE NextSeq(R) = 0
    BY <1>1, <2>1
  <2>2. CASE NextSeq(R) > 0
    <3>1. NextSeq(R) - 1 \in 0 .. (NextSeq(S) - 1)
      BY <1>1, <1>2, <2>2
    <3> QED
      BY <1>1, <3>1
  <2> QED
    BY <1>1, <2>1, <2>2
<1>4. ASSUME NEW i \in 1 .. NextSeq(R)
      PROVE  Sequence(S)[i] = Sequence(R)[i]
  <2>1. PICK r \in R : r.seq = i - 1 /\ Sequence(R)[i] = r.id
    BY SequenceOf
  <2>2. r \in S /\ r.seq + 1 = i
    BY <1>1, <2>1
  <2>3. Sequence(S)[r.seq + 1] = r.id
    BY <2>2, SequenceOf
  <2> QED
    BY <2>1, <2>2, <2>3
<1>5. ASSUME NEW r \in S \ R
      PROVE  r.seq >= NextSeq(R)
  <2> SUFFICES ASSUME r.seq < NextSeq(R)
               PROVE  FALSE
    BY <1>1 DEF Row
  <2>1. r.seq \in Seqs(R)
    BY <1>1 DEF Row
  <2>2. PICK q \in R : q.seq = r.seq
    BY <2>1 DEF Seqs
  <2> QED
    BY <1>1, <2>2 DEF Distinct
<1>6. ASSUME NEW r \in S, r.seq >= NextSeq(R)
      PROVE  r \notin R
  <2> SUFFICES ASSUME r \in R
               PROVE  FALSE
    OBVIOUS
  <2>1. r.seq \in 0 .. (NextSeq(R) - 1)
    BY <1>1 DEF Seqs
  <2> QED
    BY <1>1, <1>6, <2>1
<1> QED
  BY <1>3, <1>4, <1>5, <1>6

\* A sequence that agrees with a and then with b is a followed by b.
LEMMA Appended ==
    ASSUME NEW T, NEW a \in Seq(T), NEW b \in Seq(T), NEW c \in Seq(T),
           Len(c) = Len(a) + Len(b),
           \A i \in 1 .. Len(a) : c[i] = a[i],
           \A i \in 1 .. Len(b) : c[Len(a) + i] = b[i]
    PROVE  c = a \o b
<1>1. Len(a) \in Nat /\ Len(b) \in Nat
  BY LenProperties
<1>2. /\ a \o b \in Seq(T)
      /\ Len(a \o b) = Len(a) + Len(b)
      /\ \A i \in 1 .. Len(a) + Len(b) :
           (a \o b)[i] = IF i <= Len(a) THEN a[i] ELSE b[i - Len(a)]
  BY ConcatProperties
<1>3. ASSUME NEW i \in 1 .. Len(c)
      PROVE  c[i] = (a \o b)[i]
  <2>1. CASE i <= Len(a)
    BY <1>1, <1>2, <2>1
  <2>2. CASE i > Len(a)
    <3> DEFINE j == i - Len(a)
    <3>1. j \in 1 .. Len(b) /\ Len(a) + j = i
      BY <1>1, <2>2
    <3>2. (a \o b)[i] = b[j]
      BY <1>1, <1>2, <2>2
    <3> HIDE DEF j
    <3> QED
      BY <3>1, <3>2
  <2> QED
    BY <1>1, <2>1, <2>2
<1> QED
  BY <1>2, <1>3, SeqEqual

\* The sequence of a longer log is the shorter one's with the events of its
\* further rows appended, each once.
LEMMA SequenceExtends ==
    ASSUME NEW R, NEW S, LogOK(R), LogOK(S), R \subseteq S, R # S
    PROVE  \E new \in (SUBSET (Events \ Range(Sequence(R)))) \ {{}} :
             \E order \in Bijection(1 .. Cardinality(new), new) :
               Sequence(S) = Sequence(R) \o order
<1> DEFINE m == NextSeq(R)
           n == NextSeq(S)
           k == n - m
           order == [i \in 1 .. k |-> Sequence(S)[m + i]]
           new == Ids(S \ R)
<1>1. /\ m \in Nat /\ n \in Nat /\ m <= n /\ k \in Nat /\ S \subseteq Row
      /\ \A i \in 1 .. m : Sequence(S)[i] = Sequence(R)[i]
      /\ Distinct(S)
  BY LongerLog DEF LogOK
<1>2. /\ Sequence(R) \in [1 .. m -> Events] /\ Sequence(S) \in [1 .. n -> Events]
      /\ \A r \in R : r.seq + 1 \in 1 .. m /\ Sequence(R)[r.seq + 1] = r.id
      /\ \A r \in S : r.seq + 1 \in 1 .. n /\ Sequence(S)[r.seq + 1] = r.id
      /\ \A i \in 1 .. m : \E r \in R : r.seq = i - 1 /\ Sequence(R)[i] = r.id
      /\ \A i \in 1 .. n : \E r \in S : r.seq = i - 1 /\ Sequence(S)[i] = r.id
  BY SequenceOf
<1>3. /\ \A r \in S \ R : r.seq >= m
      /\ \A r \in S : r.seq >= m => r \notin R
  BY LongerLog
<1> HIDE DEF m, n
<1>4. \A i \in 1 .. k : m + i \in 1 .. n
  BY <1>1
<1>5. \A i \in 1 .. k : \E r \in S \ R : r.seq = m + i - 1 /\ order[i] = r.id
  <2> SUFFICES ASSUME NEW i \in 1 .. k
               PROVE  \E r \in S \ R : r.seq = m + i - 1 /\ order[i] = r.id
    OBVIOUS
  <2> DEFINE p == m + i
  <2>1. p \in 1 .. n /\ order[i] = Sequence(S)[p]
    BY <1>4
  <2>2. p - 1 >= m /\ p - 1 = m + i - 1
    BY <1>1
  <2> HIDE DEF p
  <2>3. PICK r \in S : r.seq = p - 1 /\ Sequence(S)[p] = r.id
    BY <1>2, <2>1
  <2> QED
    BY <1>3, <2>1, <2>2, <2>3
<1>6. \A e \in new : \E i \in 1 .. k : order[i] = e
  <2> SUFFICES ASSUME NEW e \in new
               PROVE  \E i \in 1 .. k : order[i] = e
    OBVIOUS
  <2>1. PICK r \in S \ R : r.id = e
    BY DEF Ids
  <2>2. r.seq \in Nat /\ r.seq >= m /\ r.seq + 1 \in 1 .. n /\ Sequence(S)[r.seq + 1] = e
    BY <1>1, <1>2, <1>3, <2>1 DEF Row
  <2> DEFINE i == r.seq + 1 - m
  <2>3. i \in 1 .. k /\ m + i = r.seq + 1
    BY <1>1, <2>2
  <2> HIDE DEF i
  <2>4. order[i] = Sequence(S)[m + i]
    BY <2>3
  <2> QED
    BY <2>2, <2>3, <2>4
<1>7. \A i \in 1 .. k : order[i] \in new
  BY <1>5 DEF Ids
<1> HIDE DEF order
<1>8. \A i, j \in 1 .. k : order[i] = order[j] => i = j
  <2> SUFFICES ASSUME NEW i \in 1 .. k, NEW j \in 1 .. k, order[i] = order[j]
               PROVE  i = j
    OBVIOUS
  <2>1. PICK r \in S \ R : r.seq = m + i - 1 /\ order[i] = r.id
    BY <1>5
  <2>2. PICK q \in S \ R : q.seq = m + j - 1 /\ order[j] = q.id
    BY <1>5
  <2>3. r = q
    BY <1>1, <2>1, <2>2 DEF Distinct
  <2> QED
    BY <1>1, <2>1, <2>2, <2>3
<1>9. order \in [1 .. k -> new]
  BY <1>7 DEF order
<1>10. order \in Bijection(1 .. k, new)
  BY <1>6, <1>8, <1>9 DEF Bijection, Injection, Surjection, IsInjective
<1>11. Cardinality(new) = k
  <2>1. ExistsBijection(1 .. k, new)
    BY <1>10 DEF ExistsBijection
  <2> HIDE DEF new, k
  <2> QED
    BY <1>1, <2>1, FS_CountingElements
<1>12. new \subseteq Events \ Range(Sequence(R))
  <2> SUFFICES ASSUME NEW e \in new
               PROVE  e \in Events /\ e \notin Range(Sequence(R))
    OBVIOUS
  <2>1. PICK r \in S \ R : r.id = e
    BY DEF Ids
  <2>2. e \in Events
    BY <1>1, <2>1 DEF Row
  <2>3. ASSUME NEW i \in 1 .. m, Sequence(R)[i] = e
        PROVE  FALSE
    <3>1. PICK q \in R : q.id = e
      BY <1>2, <2>3
    <3>2. q = r
      BY <1>1, <2>1, <3>1 DEF Distinct
    <3> QED
      BY <2>1, <3>1, <3>2
  <2>4. DOMAIN Sequence(R) = 1 .. m
    BY <1>2
  <2> QED
    BY <2>2, <2>3, <2>4 DEF Range
<1>13. new # {}
  <2>1. S \ R # {}
    OBVIOUS
  <2> QED
    BY <2>1 DEF Ids
<1>14. Sequence(S) = Sequence(R) \o order
  <2>1. \A i \in 1 .. k : Sequence(S)[m + i] = order[i]
    BY DEF order
  <2>2. k = n - m /\ new \subseteq Events
    BY <1>12
  <2> HIDE DEF k, new
  <2>3. Sequence(R) \in Seq(Events) /\ Len(Sequence(R)) = m
    BY <1>1, <1>2
  <2>4. Sequence(S) \in Seq(Events) /\ Len(Sequence(S)) = n
    BY <1>1, <1>2
  <2>5. order \in [1 .. k -> Events]
    BY <1>9, <2>2
  <2>6. order \in Seq(Events) /\ Len(order) = k
    BY <1>1, <2>5
  <2>7. Len(Sequence(S)) = Len(Sequence(R)) + Len(order)
    BY <1>1, <2>2, <2>3, <2>4, <2>6
  <2>8. /\ \A i \in 1 .. Len(Sequence(R)) : Sequence(S)[i] = Sequence(R)[i]
        /\ \A i \in 1 .. Len(order) : Sequence(S)[Len(Sequence(R)) + i] = order[i]
    BY <1>1, <2>1, <2>3, <2>6
  <2> QED
    BY <2>3, <2>4, <2>6, <2>7, <2>8, Appended
<1> HIDE DEF new, k
<1> DEFINE free == Events \ Range(Sequence(R))
<1> HIDE DEF free
<1>15. new \in (SUBSET free) \ {{}}
  BY <1>12, <1>13 DEF free
<1>16. order \in Bijection(1 .. Cardinality(new), new)
  BY <1>10, <1>11
<1> QED
  BY <1>14, <1>15, <1>16 DEF free

\* EventLog's instance has the operators of this module's libraries.
LEMMA PromisedOperators ==
    ASSUME NEW s
    PROVE  /\ \A S : Promised(s)!Cardinality(S) = Cardinality(S)
           /\ \A S : Promised(s)!Range(S) = Range(S)
           /\ \A S, T : Promised(s)!Bijection(S, T) = Bijection(S, T)
<1>1. \A S : Promised(s)!Cardinality(S) = Cardinality(S)
  BY DEF Promised!Cardinality, Cardinality
<1>2. \A S : Promised(s)!Range(S) = Range(S)
  BY DEF Promised!Range, Range
<1>3. \A S, T : Promised(s)!Bijection(S, T) = Bijection(S, T)
  BY DEF Promised!Bijection, Bijection, Promised!Injection, Injection,
     Promised!Surjection, Surjection, Promised!IsInjective, IsInjective
<1> QED
  BY <1>1, <1>2, <1>3

\* A step that only extends or erases logs is a step of EventLog for each
\* session, or none.
LEMMA PromisingStep ==
    ASSUME SessionInv, SessionInv', NEW s \in Sessions, Promising(s)
    PROVE  [Promised(s)!Next]_<<DurableLog(s), tomb[s]>>
<1>1. /\ LogOK(rows[s]) /\ LogOK(rows'[s])
      /\ tomb[s] \in BOOLEAN /\ (tomb[s] => rows[s] = {}) /\ (tomb'[s] => rows'[s] = {})
  BY DEF SessionInv, SessionOK
<1>2. /\ DurableLog(s) = Sequence(rows[s])
      /\ DurableLog(s)' = Sequence(rows'[s])
  BY DEF DurableLog, Sequence
<1>3. Sequence({}) = << >>
  <2>1. Cardinality({}) = 0
    BY FS_EmptySet
  <2> QED
    BY <2>1 DEF Sequence
<1>4. CASE rows'[s] = rows[s] /\ tomb'[s] = tomb[s]
  BY <1>2, <1>4
<1>5. CASE rows'[s] = {} /\ tomb'[s] = TRUE
  <2>1. Promised(s)!Forget
    BY <1>2, <1>3, <1>5 DEF Promised!Forget
  <2> QED
    BY <2>1 DEF Promised!Next
<1>6. CASE rows[s] \subseteq rows'[s] /\ rows'[s] # rows[s] /\ tomb'[s] = tomb[s]
  <2>1. tomb[s] = FALSE
    BY <1>1, <1>6
  <2>2. \E new \in (SUBSET (Events \ Range(DurableLog(s)))) \ {{}} :
          \E order \in Bijection(1 .. Cardinality(new), new) :
             DurableLog(s)' = DurableLog(s) \o order
    BY <1>1, <1>2, <1>6, SequenceExtends
  <2>3. \E new \in (SUBSET (Events \ Promised(s)!Range(DurableLog(s)))) \ {{}} :
          \E order \in Promised(s)!Bijection(1 .. Promised(s)!Cardinality(new), new) :
             DurableLog(s)' = DurableLog(s) \o order
    <3>1. Promised(s)!Range(DurableLog(s)) = Range(DurableLog(s))
      BY PromisedOperators
    <3>2. ASSUME NEW new
          PROVE  Promised(s)!Bijection(1 .. Promised(s)!Cardinality(new), new)
                   = Bijection(1 .. Cardinality(new), new)
      BY PromisedOperators
    <3> QED
      BY <2>2, <3>1, <3>2
  <2>4. Promised(s)!Extend
    BY <1>6, <2>1, <2>3, Zenon DEF Promised!Extend
  <2> QED
    BY <2>4 DEF Promised!Next
<1> QED
  BY <1>4, <1>5, <1>6 DEF Promising

\* A step that takes nothing in only keeps, extends or erases a log, ...
LEMMA QuietPromises ==
    ASSUME SessionInv', NEW s \in Sessions, Quiet(s)
    PROVE  Promising(s)
<1>1. tomb'[s] \in BOOLEAN
  BY DEF SessionInv
<1> QED
  BY <1>1 DEF Quiet, Known, Promising

\* ... and one that takes events in only extends it.
LEMMA TakingPromises ==
    ASSUME NEW s, NEW N, Takes(s, N)
    PROVE  Promising(s)
BY DEF Takes, Known, Promising

-----------------------------------------------------------------------------
(* The inductive invariant: what a source has read is safe                 *)

\* A file, or a snapshot of one: its records are events.
ContentOK(c) ==
    /\ c \in ContentType
    /\ c.ino > 0
    /\ c.first > 0
    /\ c.first + c.n + Half(c) <= MaxRecords + 1

\* b is a later content of the file a is a content of, unless it was replaced.
Grown(a, b) ==
    a.ino = b.ino => a.first = b.first /\ a.n <= b.n /\ Size(a) <= Size(b)

\* A source: an inode that is the file's or an earlier one; only a parser
\* that starts at byte 0 is in step with its file.
SourceOK(c, s) ==
    /\ s \in SourceType
    /\ s.ino <= c.ino
    /\ s.ino = 0 => s.off = 0
    /\ s.synced => s.base = 0

\* A source and its read, idle or with a snapshot of the file.
ReadOK(c, s, r) ==
    /\ r \in ReadType
    /\ r.busy => /\ ContentOK(r.snap)
                 /\ r.snap.ino <= c.ino
                 /\ Grown(r.snap, c)
                 /\ s.synced
                 /\ s.ino = r.snap.ino
                 /\ s.off <= Size(r.snap)
    /\ ~r.busy => /\ r = NotReading
                  /\ s.synced /\ s.ino = c.ino => s.off <= Size(c)

\* The records that lie before a source's offset.
ReadSoFar(f, c, s, r) ==
    IF r.busy THEN RecordsIn(f, r.snap, 0, s.off)
    ELSE IF s.synced /\ s.ino = c.ino THEN RecordsIn(f, c, 0, s.off)
    ELSE {}

FileOK(c, s, r, k) ==
    /\ ContentOK(c)
    /\ SourceOK(c, s)
    /\ ReadOK(c, s, r)
    /\ k \in CursorType
    /\ k.ino <= c.ino

TailerInv ==
    /\ file \in [Files -> ContentType]
    /\ src \in [Files -> SourceType]
    /\ rd \in [Files -> ReadType]
    /\ cursor \in [Files -> CursorType]
    /\ \A f \in Files :
         /\ FileOK(file[f], src[f], rd[f], cursor[f])
         /\ \A e \in ReadSoFar(f, file[f], src[f], rd[f]) : Safe(SessionOf[f], e)

\* What was promised to outlive the process.
PromiseInv ==
    /\ covered \subseteq Events
    /\ \A e \in covered : Durable(SessionOf[e[1]], e)
    /\ hook \in [Hooks -> [fired : 0 .. MaxFired, acked : SUBSET Events]]
    /\ \A h \in Hooks : \A e \in hook[h].acked : Durable(SessionOf[h], e)
    /\ torn = {}

ControlInv ==
    /\ job \in [Files -> JobStatus]
    /\ tried \subseteq Files
    /\ paused \in BOOLEAN /\ stopping \in BOOLEAN
    /\ budget \in [rotations : Int, restarts : Int, forgets : Int, pauses : Int]

IngestInv == SessionInv /\ TailerInv /\ PromiseInv /\ ControlInv

-----------------------------------------------------------------------------
(* Records and offsets                                                     *)

\* The length of a content.
LEMMA SizeType ==
    ASSUME NEW c \in ContentType
    PROVE  Size(c) \in Nat /\ Half(c) \in 0 .. 1 /\ Size(c) <= 2 * c.n + 1 /\ 2 * c.n <= Size(c)
BY DEF Size, Half, ContentType

\* Which records end after offset a and not after b.
LEMMA RecordsMember ==
    ASSUME NEW f, NEW c \in ContentType, NEW a, NEW b, NEW e
    PROVE  e \in RecordsIn(f, c, a, b) <=>
             \E j \in 1 .. c.n : a < 2 * j /\ 2 * j <= b /\ e = <<f, c.first + j - 1>>
BY DEF RecordsIn

\* Records are events of their file.
LEMMA RecordsAreEvents ==
    ASSUME NEW f \in Files, NEW c, ContentOK(c), NEW a, NEW b
    PROVE  /\ RecordsIn(f, c, a, b) \in SUBSET Events
           /\ \A e \in RecordsIn(f, c, a, b) : e[1] = f
<1> SUFFICES ASSUME NEW e \in RecordsIn(f, c, a, b)
             PROVE  e \in Events /\ e[1] = f
  OBVIOUS
<1>1. c \in ContentType
  BY DEF ContentOK
<1>2. PICK j \in 1 .. c.n : e = <<f, c.first + j - 1>>
  BY <1>1, RecordsMember
<1>3. c.first + j - 1 \in 1 .. MaxRecords
  BY <1>1, SizeType, IngestAssumption DEF ContentOK, ContentType
<1> QED
  BY <1>2, <1>3, IngestAssumption

\* Reading on from a to b.
LEMMA RecordsSplit ==
    ASSUME NEW f, NEW c \in ContentType, NEW a \in Nat, NEW b \in Nat, a <= b
    PROVE  RecordsIn(f, c, 0, b) = RecordsIn(f, c, 0, a) \cup RecordsIn(f, c, a, b)
<1>1. ASSUME NEW e
      PROVE  e \in RecordsIn(f, c, 0, b) <=>
               e \in RecordsIn(f, c, 0, a) \/ e \in RecordsIn(f, c, a, b)
  <2>1. c.n \in Nat
    BY DEF ContentType
  <2>2. \A j \in 1 .. c.n :
          (0 < 2 * j /\ 2 * j <= b) <=>
             (0 < 2 * j /\ 2 * j <= a) \/ (a < 2 * j /\ 2 * j <= b)
    BY <2>1
  <2>3. e \in RecordsIn(f, c, 0, b) <=>
          \E j \in 1 .. c.n : 0 < 2 * j /\ 2 * j <= b /\ e = <<f, c.first + j - 1>>
    BY DEF RecordsIn
  <2>4. e \in RecordsIn(f, c, 0, a) <=>
          \E j \in 1 .. c.n : 0 < 2 * j /\ 2 * j <= a /\ e = <<f, c.first + j - 1>>
    BY DEF RecordsIn
  <2>5. e \in RecordsIn(f, c, a, b) <=>
          \E j \in 1 .. c.n : a < 2 * j /\ 2 * j <= b /\ e = <<f, c.first + j - 1>>
    BY DEF RecordsIn
  <2> QED
    BY <2>2, <2>3, <2>4, <2>5
<1> QED
  BY <1>1

\* A file that has grown has the same records up to an offset it had before.
LEMMA RecordsGrown ==
    ASSUME NEW f, NEW c \in ContentType, NEW d \in ContentType, NEW b \in Nat,
           c.ino = d.ino, Grown(c, d), b <= Size(c)
    PROVE  RecordsIn(f, d, 0, b) = RecordsIn(f, c, 0, b)
<1>1. /\ c.n \in Nat /\ d.n \in Nat /\ c.n <= d.n /\ c.first = d.first
      /\ b <= 2 * c.n + 1
  BY SizeType DEF Grown, ContentType
<1>2. ASSUME NEW e
      PROVE  e \in RecordsIn(f, d, 0, b) <=> e \in RecordsIn(f, c, 0, b)
  <2>1. \A j : (j \in 1 .. d.n /\ 2 * j <= b) <=> (j \in 1 .. c.n /\ 2 * j <= b)
    BY <1>1
  <2> QED
    BY <1>1, <2>1, RecordsMember
<1> QED
  BY <1>2

\* Nothing ends at offset 0.
LEMMA NoRecords ==
    ASSUME NEW f, NEW c \in ContentType
    PROVE  RecordsIn(f, c, 0, 0) = {}
<1>1. ASSUME NEW e \in RecordsIn(f, c, 0, 0)
      PROVE  FALSE
  <2>1. PICK j \in 1 .. c.n : 2 * j <= 0
    BY RecordsMember
  <2> QED
    BY <2>1 DEF ContentType
<1> QED
  BY <1>1

-----------------------------------------------------------------------------
(* Steps of one file, and steps of none                                    *)

\* The session of a channel.
LEMMA SessionOfChannel ==
    /\ \A f \in Files : SessionOf[f] \in Sessions
    /\ \A h \in Hooks : SessionOf[h] \in Sessions
BY IngestAssumption DEF Channels

\* What a source has read are events.
LEMMA ReadSoFarEvents ==
    ASSUME NEW f \in Files, NEW c, NEW s, NEW r, NEW k, FileOK(c, s, r, k)
    PROVE  ReadSoFar(f, c, s, r) \in SUBSET Events
BY RecordsAreEvents DEF ReadSoFar, FileOK, ReadOK

\* What was read stays safe when the files and their reads stay as they are.
LEMMA NoFileKept ==
    ASSUME TailerInv, SafeKept, UNCHANGED <<file, src, rd, cursor>>
    PROVE  TailerInv'
<1>1. ASSUME NEW f \in Files
      PROVE  /\ FileOK(file'[f], src'[f], rd'[f], cursor'[f])
             /\ \A e \in ReadSoFar(f, file'[f], src'[f], rd'[f]) :
                  Safe(SessionOf[f], e)'
  <2>1. /\ file'[f] = file[f] /\ src'[f] = src[f]
        /\ rd'[f] = rd[f] /\ cursor'[f] = cursor[f]
    OBVIOUS
  <2>2. /\ FileOK(file[f], src[f], rd[f], cursor[f])
        /\ \A e \in ReadSoFar(f, file[f], src[f], rd[f]) : Safe(SessionOf[f], e)
    BY DEF TailerInv
  <2> QED
    BY <2>1, <2>2, ReadSoFarEvents, SessionOfChannel DEF SafeKept
<1> QED
  BY <1>1 DEF TailerInv

\* A step of one file keeps the invariant of the others.
LEMMA OneFileKept ==
    ASSUME TailerInv, SafeKept, NEW f \in Files,
           file' = [file EXCEPT ![f] = file'[f]],
           src' = [src EXCEPT ![f] = src'[f]],
           rd' = [rd EXCEPT ![f] = rd'[f]],
           cursor' = [cursor EXCEPT ![f] = cursor'[f]],
           FileOK(file'[f], src'[f], rd'[f], cursor'[f]),
           \A e \in ReadSoFar(f, file'[f], src'[f], rd'[f]) : Safe(SessionOf[f], e)'
    PROVE  TailerInv'
<1>1. ASSUME NEW g \in Files
      PROVE  /\ FileOK(file'[g], src'[g], rd'[g], cursor'[g])
             /\ \A e \in ReadSoFar(g, file'[g], src'[g], rd'[g]) :
                  Safe(SessionOf[g], e)'
  <2>1. CASE g = f
    BY <2>1
  <2>2. CASE g # f
    <3>1. /\ file'[g] = file[g] /\ src'[g] = src[g]
          /\ rd'[g] = rd[g] /\ cursor'[g] = cursor[g]
      BY <2>2 DEF TailerInv
    <3>2. /\ FileOK(file[g], src[g], rd[g], cursor[g])
          /\ \A e \in ReadSoFar(g, file[g], src[g], rd[g]) : Safe(SessionOf[g], e)
      BY DEF TailerInv
    <3> QED
      BY <3>1, <3>2, ReadSoFarEvents, SessionOfChannel DEF SafeKept
  <2> QED
    BY <2>1, <2>2
<1>2. /\ file'[f] \in ContentType /\ src'[f] \in SourceType
      /\ rd'[f] \in ReadType /\ cursor'[f] \in CursorType
  BY DEF FileOK, ContentOK, SourceOK, ReadOK
<1>3. /\ file' \in [Files -> ContentType] /\ src' \in [Files -> SourceType]
      /\ rd' \in [Files -> ReadType] /\ cursor' \in [Files -> CursorType]
  BY <1>2 DEF TailerInv
<1> QED
  BY <1>1, <1>3 DEF TailerInv

\* Promises outlive a step that makes no new one.
LEMMA PromiseKept ==
    ASSUME PromiseInv, DurableKept, UNCHANGED <<covered, torn>>,
           hook' \in [Hooks -> [fired : 0 .. MaxFired, acked : SUBSET Events]],
           \A h \in Hooks : hook'[h].acked = hook[h].acked
    PROVE  PromiseInv'
<1>1. \A e \in covered : e[1] \in Files \cup Hooks
  BY IngestAssumption DEF PromiseInv
<1>2. \A e \in covered : SessionOf[e[1]] \in Sessions
  BY <1>1, SessionOfChannel
<1>3. \A e \in covered : Durable(SessionOf[e[1]], e)'
  BY <1>2 DEF PromiseInv, DurableKept
<1>4. \A h \in Hooks : hook[h].acked \in SUBSET Events
  BY DEF PromiseInv
<1>5. \A h \in Hooks : \A e \in hook'[h].acked : Durable(SessionOf[h], e)'
  BY <1>4, SessionOfChannel DEF PromiseInv, DurableKept
<1> QED
  BY <1>3, <1>5 DEF PromiseInv

-----------------------------------------------------------------------------
(* The provider's steps                                                    *)

\* A file that grows leaves its source in order and what was read unchanged.
LEMMA GrowFile ==
    ASSUME NEW f \in Files, NEW c, NEW d, NEW s, NEW r, NEW k,
           FileOK(c, s, r, k), ContentOK(d), d.ino = c.ino, Grown(c, d)
    PROVE  FileOK(d, s, r, k) /\ ReadSoFar(f, d, s, r) = ReadSoFar(f, c, s, r)
<1>1. /\ c \in ContentType /\ d \in ContentType /\ s \in SourceType
      /\ c.first = d.first /\ c.n <= d.n /\ Size(c) <= Size(d)
      /\ Size(c) \in Nat /\ Size(d) \in Nat /\ s.off \in Nat
  BY SizeType DEF FileOK, ContentOK, SourceOK, SourceType, Grown
<1>2. ReadOK(d, s, r)
  <2>1. CASE r.busy
    <3>1. r.snap \in ContentType /\ Size(r.snap) \in Nat
      BY <2>1, SizeType DEF FileOK, ReadOK, ContentOK
    <3> QED
      BY <1>1, <2>1, <3>1 DEF FileOK, ReadOK, Grown, ContentType
  <2>2. CASE ~r.busy
    BY <1>1, <2>2 DEF FileOK, ReadOK
  <2> QED
    BY <2>1, <2>2
<1>3. FileOK(d, s, r, k)
  BY <1>2 DEF FileOK, SourceOK
<1>4. CASE ~r.busy /\ s.synced /\ s.ino = c.ino
  <2>1. s.off <= Size(c)
    BY <1>4 DEF FileOK, ReadOK
  <2>2. RecordsIn(f, d, 0, s.off) = RecordsIn(f, c, 0, s.off)
    BY <1>1, <2>1, RecordsGrown
  <2> QED
    BY <1>3, <1>4, <2>2 DEF ReadSoFar
<1>5. CASE ~(~r.busy /\ s.synced /\ s.ino = c.ino)
  BY <1>3, <1>5 DEF ReadSoFar
<1> QED
  BY <1>4, <1>5

\* A file that is replaced has an inode its source has never seen.
LEMMA ReplaceFile ==
    ASSUME NEW f \in Files, NEW c, NEW d, NEW s, NEW r, NEW k,
           FileOK(c, s, r, k), ContentOK(d), d.ino = c.ino + 1
    PROVE  FileOK(d, s, r, k) /\ ReadSoFar(f, d, s, r) \subseteq ReadSoFar(f, c, s, r)
<1>1. /\ c.ino \in Nat /\ s.ino \in Nat /\ k.ino \in Nat
      /\ s.ino <= c.ino /\ k.ino <= c.ino
  BY DEF FileOK, ContentOK, ContentType, SourceOK, SourceType, CursorType
<1>2. ReadOK(d, s, r)
  <2>1. CASE r.busy
    <3>1. r.snap.ino \in Nat
      BY <2>1 DEF FileOK, ReadOK, ContentOK, ContentType
    <3> QED
      BY <1>1, <2>1, <3>1 DEF FileOK, ReadOK, Grown
  <2>2. CASE ~r.busy
    BY <1>1, <2>2 DEF FileOK, ReadOK
  <2> QED
    BY <2>1, <2>2
<1> QED
  BY <1>1, <1>2 DEF FileOK, SourceOK, ReadSoFar

\* StartRecord, EndRecord and Rotate: what was read before stays read.
LEMMA ProviderKeeps ==
    ASSUME TailerInv, SafeKept, NEW f \in Files,
           StartRecord(f) \/ EndRecord(f) \/ Rotate(f)
    PROVE  TailerInv'
<1>1. FileOK(file[f], src[f], rd[f], cursor[f])
  BY DEF TailerInv
<1>2. /\ ContentOK(file[f]) /\ file[f] \in ContentType
      /\ file[f].ino \in Nat /\ file[f].first \in Nat /\ file[f].n \in Nat
      /\ file[f].half \in BOOLEAN /\ file[f].ino > 0 /\ file[f].first > 0
  BY <1>1 DEF FileOK, ContentOK, ContentType
<1>3. /\ file' = [file EXCEPT ![f] = file'[f]]
      /\ src' = [src EXCEPT ![f] = src'[f]] /\ src'[f] = src[f]
      /\ rd' = [rd EXCEPT ![f] = rd'[f]] /\ rd'[f] = rd[f]
      /\ cursor' = [cursor EXCEPT ![f] = cursor'[f]] /\ cursor'[f] = cursor[f]
  BY DEF StartRecord, EndRecord, Rotate, TailerInv
<1>4. MaxRecords \in Nat
  BY IngestAssumption
<1>5. CASE StartRecord(f)
  <2>1. /\ file'[f] = [file[f] EXCEPT !.half = TRUE] /\ ~file[f].half
        /\ file[f].first + file[f].n <= MaxRecords
    BY <1>5 DEF StartRecord, TailerInv
  <2>2. ContentOK(file'[f]) /\ file'[f].ino = file[f].ino /\ Grown(file[f], file'[f])
    <3>1. /\ file'[f] \in ContentType
          /\ file'[f].ino = file[f].ino /\ file'[f].first = file[f].first
          /\ file'[f].n = file[f].n /\ file'[f].half = TRUE
      BY <1>2, <2>1 DEF ContentType
    <3>2. Half(file[f]) = 0 /\ Half(file'[f]) = 1
      BY <2>1, <3>1 DEF Half
    <3>3. file[f].first + file[f].n + Half(file[f]) <= MaxRecords + 1
      BY <1>2 DEF ContentOK
    <3>4. ContentOK(file'[f])
      BY <1>2, <1>4, <2>1, <3>1, <3>2, <3>3 DEF ContentOK
    <3> QED
      BY <1>2, <3>1, <3>2, <3>4 DEF Grown, Size
  <2>3. /\ FileOK(file'[f], src[f], rd[f], cursor[f])
        /\ ReadSoFar(f, file'[f], src[f], rd[f]) = ReadSoFar(f, file[f], src[f], rd[f])
    BY <1>1, <2>2, GrowFile
  <2> QED
    BY <1>1, <1>3, <2>3, OneFileKept, ReadSoFarEvents, SessionOfChannel
       DEF TailerInv, SafeKept
<1>6. CASE EndRecord(f)
  <2>1. /\ file'[f] = [file[f] EXCEPT !.half = FALSE, !.n = file[f].n + 1]
        /\ file[f].half
    BY <1>6 DEF EndRecord, TailerInv
  <2>2. ContentOK(file'[f]) /\ file'[f].ino = file[f].ino /\ Grown(file[f], file'[f])
    <3>1. /\ file'[f] \in ContentType
          /\ file'[f].ino = file[f].ino /\ file'[f].first = file[f].first
          /\ file'[f].n = file[f].n + 1 /\ file'[f].half = FALSE
      <4> DEFINE m == file[f].n + 1
      <4>1. m \in Nat
        BY <1>2
      <4>2. file'[f] = [file[f] EXCEPT !.half = FALSE, !.n = m]
        BY <2>1
      <4> HIDE DEF m
      <4>3. /\ file'[f] \in ContentType
            /\ file'[f].ino = file[f].ino /\ file'[f].first = file[f].first
            /\ file'[f].n = m /\ file'[f].half = FALSE
        BY <1>2, <4>1, <4>2 DEF ContentType
      <4> QED
        BY <4>3 DEF m
    <3>2. Half(file[f]) = 1 /\ Half(file'[f]) = 0
      BY <2>1, <3>1 DEF Half
    <3>3. file[f].first + file[f].n + Half(file[f]) <= MaxRecords + 1
      BY <1>2 DEF ContentOK
    <3>4. ContentOK(file'[f])
      BY <1>2, <1>4, <2>1, <3>1, <3>2, <3>3 DEF ContentOK
    <3> QED
      BY <1>2, <3>1, <3>2, <3>4 DEF Grown, Size
  <2>3. /\ FileOK(file'[f], src[f], rd[f], cursor[f])
        /\ ReadSoFar(f, file'[f], src[f], rd[f]) = ReadSoFar(f, file[f], src[f], rd[f])
    BY <1>1, <2>2, GrowFile
  <2> QED
    BY <1>1, <1>3, <2>3, OneFileKept, ReadSoFarEvents, SessionOfChannel
       DEF TailerInv, SafeKept
<1>7. CASE Rotate(f)
  <2>1. PICK drop \in 0 .. file[f].n :
          file'[f] = [file[f] EXCEPT !.ino = file[f].ino + 1,
                                     !.first = file[f].first + drop,
                                     !.n = file[f].n - drop]
    BY <1>7 DEF Rotate, TailerInv
  <2>2. ContentOK(file'[f]) /\ file'[f].ino = file[f].ino + 1
    <3>1. /\ file'[f] \in ContentType
          /\ file'[f].ino = file[f].ino + 1
          /\ file'[f].first = file[f].first + drop
          /\ file'[f].n = file[f].n - drop /\ file'[f].half = file[f].half
      <4> DEFINE m == file[f].n - drop
                 i == file[f].ino + 1
                 p == file[f].first + drop
      <4>1. m \in Nat /\ i \in Nat /\ p \in Nat
        BY <1>2
      <4>2. file'[f] = [file[f] EXCEPT !.ino = i, !.first = p, !.n = m]
        BY <2>1
      <4> HIDE DEF m, i, p
      <4>3. /\ file'[f] \in ContentType
            /\ file'[f].ino = i /\ file'[f].first = p
            /\ file'[f].n = m /\ file'[f].half = file[f].half
        BY <1>2, <4>1, <4>2 DEF ContentType
      <4> QED
        BY <4>3 DEF m, i, p
    <3>2. Half(file'[f]) = Half(file[f]) /\ Half(file[f]) \in Nat
      BY <3>1 DEF Half
    <3>3. file[f].first + file[f].n + Half(file[f]) <= MaxRecords + 1
      BY <1>2 DEF ContentOK
    <3> QED
      BY <1>2, <1>4, <3>1, <3>2, <3>3 DEF ContentOK
  <2>3. /\ FileOK(file'[f], src[f], rd[f], cursor[f])
        /\ ReadSoFar(f, file'[f], src[f], rd[f]) \subseteq ReadSoFar(f, file[f], src[f], rd[f])
    BY <1>1, <2>2, ReplaceFile
  <2> QED
    BY <1>1, <1>3, <2>3, OneFileKept, ReadSoFarEvents, SessionOfChannel
       DEF TailerInv, SafeKept
<1> QED
  BY <1>5, <1>6, <1>7

-----------------------------------------------------------------------------
(* The tailer's steps                                                      *)

\* The records a source has read of the file as it is now.
ReadOf(f, s) ==
    IF s.synced /\ s.ino = file[f].ino THEN RecordsIn(f, file[f], 0, s.off) ELSE {}

\* Opening a file: a source that is about to read is in step with it, and
\* counts as read only what it had read of this very file.
LEMMA OpenedOK ==
    ASSUME NEW f \in Files, NEW s, ContentOK(file[f]), SourceOK(file[f], s)
    PROVE  /\ Opened(f, s) \in SourceType
           /\ Opened(f, s).ino = file[f].ino
           /\ Opened(f, s).off <= Size(file[f])
           /\ Opened(f, s).synced => Opened(f, s).base = 0
           /\ Opened(f, s).off # Size(file[f]) => Opened(f, s).synced
           /\ Opened(f, s).synced =>
                RecordsIn(f, file[f], 0, Opened(f, s).off) \subseteq ReadOf(f, s)
<1> DEFINE c == file[f]
           rotated == (s.ino # 0 /\ s.ino # c.ino) \/ Size(c) < s.off
           u == IF rotated THEN FromStart(s) ELSE s
           t == [u EXCEPT !.ino = c.ino, !.dirty = FALSE]
<1>1. /\ c \in ContentType /\ Size(c) \in Nat /\ c.ino \in Nat /\ s \in SourceType
      /\ s.off \in Nat /\ (s.ino = 0 => s.off = 0) /\ (s.synced => s.base = 0)
  BY SizeType DEF ContentOK, ContentType, SourceOK, SourceType
<1>2. Opened(f, s) = IF Size(c) # t.off /\ ~t.synced THEN FromStart(t) ELSE t
  BY DEF Opened
<1>3. \A v \in SourceType :
        /\ FromStart(v) \in SourceType /\ FromStart(v).ino = v.ino
        /\ FromStart(v).off = 0 /\ FromStart(v).base = 0 /\ FromStart(v).synced
  BY DEF FromStart, SourceType
<1>4. u \in SourceType /\ (rotated => u.off = 0 /\ u.base = 0 /\ u.synced)
  BY <1>1, <1>3
<1>5. /\ t \in SourceType /\ t.ino = c.ino
      /\ t.off = u.off /\ t.base = u.base /\ t.synced = u.synced
  BY <1>1, <1>4 DEF SourceType
<1>6. t.off <= Size(c) /\ (t.synced => t.base = 0)
  BY <1>1, <1>4, <1>5
<1>7. ASSUME t.synced
      PROVE  RecordsIn(f, c, 0, t.off) \subseteq ReadOf(f, s)
  <2>1. CASE t.off = 0
    BY <1>1, <2>1, NoRecords
  <2>2. CASE t.off # 0
    <3>1. ~rotated /\ u = s
      BY <1>4, <1>5, <2>2
    <3>2. s.ino = c.ino
      BY <1>1, <1>5, <2>2, <3>1
    <3> QED
      BY <1>5, <1>7, <3>1, <3>2 DEF ReadOf
  <2> QED
    BY <2>1, <2>2
<1> HIDE DEF t
<1>8. CASE Size(c) # t.off /\ ~t.synced
  <2>1. Opened(f, s) = FromStart(t)
    BY <1>2, <1>8
  <2>2. RecordsIn(f, c, 0, 0) = {}
    BY <1>1, NoRecords
  <2> QED
    BY <1>1, <1>3, <1>5, <2>1, <2>2
<1>9. CASE ~(Size(c) # t.off /\ ~t.synced)
  <2>1. Opened(f, s) = t
    BY <1>2, <1>9
  <2> QED
    BY <1>5, <1>6, <1>7, <1>9, <2>1
<1> QED
  BY <1>8, <1>9

\* The read that an opened source begins, or the idleness it returns to.
NewRead(f, t, r) ==
    \/ t.off = Size(file[f]) /\ r = NotReading
    \/ /\ t.off # Size(file[f])
       /\ \E j, k \in BOOLEAN :
            r = [busy |-> TRUE, job |-> j, complete |-> k, snap |-> file[f]]

\* The idle read.
LEMMA NotReadingType == NotReading \in ReadType /\ ~NotReading.busy
BY DEF NotReading, ReadType, ContentType

\* A read that begins is in order, and has read nothing its source had not.
LEMMA NewReadOK ==
    ASSUME NEW f \in Files, NEW s, NEW r, ContentOK(file[f]), SourceOK(file[f], s),
           NEW k \in CursorType, k.ino <= file[f].ino,
           NewRead(f, Opened(f, s), r)
    PROVE  /\ FileOK(file[f], Opened(f, s), r, k)
           /\ ReadSoFar(f, file[f], Opened(f, s), r) \subseteq ReadOf(f, s)
<1> DEFINE t == Opened(f, s)
           c == file[f]
<1>1. /\ t \in SourceType /\ t.ino = c.ino /\ t.off <= Size(c)
      /\ (t.synced => t.base = 0) /\ (t.off # Size(c) => t.synced)
      /\ (t.synced => RecordsIn(f, c, 0, t.off) \subseteq ReadOf(f, s))
  BY OpenedOK
<1>2. /\ c \in ContentType /\ c.ino \in Nat /\ c.ino > 0 /\ c.n \in Nat
      /\ Size(c) \in Nat
  BY SizeType DEF ContentOK, ContentType
<1> HIDE DEF t
<1>3. SourceOK(c, t)
  BY <1>1, <1>2 DEF SourceOK
<1>4. CASE t.off = Size(c) /\ r = NotReading
  BY <1>1, <1>3, <1>4, NotReadingType DEF FileOK, ReadOK, ReadSoFar, t
<1>5. CASE t.off # Size(c) /\ \E j, m \in BOOLEAN :
             r = [busy |-> TRUE, job |-> j, complete |-> m, snap |-> c]
  <2>1. r \in ReadType /\ r.busy /\ r.snap = c
    BY <1>2, <1>5 DEF ReadType
  <2>2. ReadOK(c, t, r)
    BY <1>1, <1>2, <1>5, <2>1 DEF ReadOK, Grown
  <2> QED
    BY <1>1, <1>3, <1>5, <2>1, <2>2 DEF FileOK, ReadSoFar, t
<1> QED
  BY <1>4, <1>5 DEF NewRead, t

\* A source created for a file counts nothing as read.
LEMMA TrackedOK ==
    ASSUME NEW f \in Files, NEW force \in BOOLEAN,
           FileOK(file[f], src[f], rd[f], cursor[f]), ~rd[f].busy
    PROVE  /\ SourceOK(file[f], Tracked(f, force))
           /\ ReadOf(f, Tracked(f, force)) \subseteq ReadSoFar(f, file[f], src[f], rd[f])
<1> DEFINE t == Tracked(f, force)
           at == IF AlreadyIngested(f) /\ ~force THEN cursor[f].off ELSE 0
<1>1. /\ file[f] \in ContentType /\ file[f].ino \in Nat /\ file[f].ino > 0
      /\ SourceOK(file[f], src[f])
      /\ cursor[f] \in CursorType /\ cursor[f].ino \in Nat /\ cursor[f].off \in Nat
      /\ cursor[f].ino <= file[f].ino
  BY DEF FileOK, ContentOK, ContentType, CursorType
<1>2. CASE src[f].tracked /\ ~force
  BY <1>1, <1>2 DEF Tracked, ReadOf, ReadSoFar
<1>3. CASE ~(src[f].tracked /\ ~force)
  <2>1. t = [tracked |-> TRUE, off |-> at, ino |-> cursor[f].ino, base |-> at,
             synced |-> ~AlreadyIngested(f) \/ force, dirty |-> FALSE]
    BY <1>3 DEF Tracked
  <2>2. at \in Nat /\ (at # 0 => cursor[f].ino = file[f].ino)
    BY <1>1 DEF AlreadyIngested
  <2>3. (~AlreadyIngested(f) \/ force) \in BOOLEAN
    OBVIOUS
  <2>4. (~AlreadyIngested(f) \/ force) => at = 0
    OBVIOUS
  <2> HIDE DEF at
  <2>5. /\ t \in SourceType /\ t.ino = cursor[f].ino /\ t.off = at /\ t.base = at
        /\ (t.synced => at = 0)
    BY <1>1, <2>1, <2>2, <2>3, <2>4 DEF SourceType
  <2>6. SourceOK(file[f], t)
    BY <1>1, <2>2, <2>5 DEF SourceOK
  <2>7. ReadOf(f, t) = {}
    BY <1>1, <2>5, NoRecords DEF ReadOf
  <2> QED
    BY <2>6, <2>7
<1> QED
  BY <1>2, <1>3

\* The session log as a tailer step that only opens a file leaves it.
LEMMA OpenStep ==
    ASSUME TailerInv, NEW f \in Files, UNCHANGED <<sessionVars, file, cursor>>,
           src' = [src EXCEPT ![f] = src'[f]], rd' = [rd EXCEPT ![f] = rd'[f]],
           FileOK(file[f], src'[f], rd'[f], cursor[f]),
           ReadSoFar(f, file[f], src'[f], rd'[f])
               \subseteq ReadSoFar(f, file[f], src[f], rd[f])
    PROVE  TailerInv'
<1>1. /\ file' = [file EXCEPT ![f] = file'[f]] /\ file'[f] = file[f]
      /\ cursor' = [cursor EXCEPT ![f] = cursor'[f]] /\ cursor'[f] = cursor[f]
  BY DEF TailerInv
<1>2. SafeKept
  BY StutterSafe
<1>3. \A e \in ReadSoFar(f, file[f], src[f], rd[f]) : Safe(SessionOf[f], e)'
  BY <1>2, ReadSoFarEvents, SessionOfChannel DEF TailerInv, SafeKept
<1> QED
  BY <1>1, <1>2, <1>3, OneFileKept

\* What BeginRead does to the source and the read.
LEMMA BeginReadIs ==
    ASSUME TailerInv, NEW f \in Files, NEW s, NEW isJob \in BOOLEAN,
           NEW complete \in BOOLEAN, BeginRead(f, s, isJob, complete)
    PROVE  /\ src' = [src EXCEPT ![f] = src'[f]] /\ src'[f] = Opened(f, s)
           /\ rd' = [rd EXCEPT ![f] = rd'[f]] /\ NewRead(f, Opened(f, s), rd'[f])
<1>1. src' = [src EXCEPT ![f] = src'[f]] /\ src'[f] = Opened(f, s)
  BY DEF BeginRead, TailerInv
<1>2. CASE Opened(f, s).off = Size(file[f])
  BY <1>1, <1>2 DEF BeginRead, StopReading, NewRead, TailerInv
<1>3. CASE Opened(f, s).off # Size(file[f])
  BY <1>1, <1>3 DEF BeginRead, NewRead, TailerInv
<1> QED
  BY <1>1, <1>2, <1>3

\* readNow, of a new source, an idle one and one that is being read.
LEMMA ReadNowKeeps ==
    ASSUME TailerInv, NEW f \in Files, ReadNow(f)
    PROVE  TailerInv'
<1>1. FileOK(file[f], src[f], rd[f], cursor[f])
  BY DEF TailerInv
<1>2. UNCHANGED <<sessionVars, file, cursor>>
  BY DEF ReadNow
<1>3. CASE rd[f].busy
  <2>1. /\ src' = [src EXCEPT ![f] = src'[f]]
        /\ src'[f] = [src[f] EXCEPT !.dirty = TRUE]
        /\ rd' = [rd EXCEPT ![f] = rd'[f]] /\ rd'[f] = rd[f]
    BY <1>3 DEF ReadNow, TailerInv
  <2>2. /\ src'[f] \in SourceType /\ src'[f].off = src[f].off
        /\ src'[f].ino = src[f].ino /\ src'[f].synced = src[f].synced
        /\ src'[f].base = src[f].base
    BY <1>1, <2>1 DEF FileOK, SourceOK, SourceType
  <2>3. FileOK(file[f], src'[f], rd'[f], cursor[f])
    BY <1>1, <2>1, <2>2 DEF FileOK, SourceOK, ReadOK
  <2>4. ReadSoFar(f, file[f], src'[f], rd'[f]) = ReadSoFar(f, file[f], src[f], rd[f])
    BY <2>1, <2>2 DEF ReadSoFar
  <2> QED
    BY <1>2, <2>1, <2>3, <2>4, OpenStep
<1>4. CASE ~rd[f].busy
  <2> DEFINE s == Tracked(f, FALSE)
  <2>1. BeginRead(f, s, FALSE, TRUE)
    BY <1>4 DEF ReadNow
  <2>2. /\ src' = [src EXCEPT ![f] = src'[f]] /\ src'[f] = Opened(f, s)
        /\ rd' = [rd EXCEPT ![f] = rd'[f]] /\ NewRead(f, Opened(f, s), rd'[f])
    BY <2>1, BeginReadIs
  <2>3. /\ SourceOK(file[f], s)
        /\ ReadOf(f, s) \subseteq ReadSoFar(f, file[f], src[f], rd[f])
    BY <1>1, <1>4, TrackedOK
  <2> HIDE DEF s
  <2>4. /\ FileOK(file[f], src'[f], rd'[f], cursor[f])
        /\ ReadSoFar(f, file[f], src'[f], rd'[f]) \subseteq ReadOf(f, s)
    BY <1>1, <2>2, <2>3, NewReadOK DEF FileOK
  <2> QED
    BY <1>2, <2>2, <2>3, <2>4, OpenStep
<1> QED
  BY <1>3, <1>4

\* A re-ingest job starts over from byte 0 and claims nothing as read.
LEMMA StartJobKeeps ==
    ASSUME TailerInv, NEW f \in Files, StartJob(f)
    PROVE  TailerInv'
<1>1. FileOK(file[f], src[f], rd[f], cursor[f])
  BY DEF TailerInv
<1>2. UNCHANGED <<sessionVars, file, cursor>>
  BY DEF StartJob
<1>3. CASE rd[f].busy
  BY <1>2, <1>3, StutterSafe, NoFileKept DEF StartJob
<1>4. CASE ~rd[f].busy
  <2> DEFINE s == Tracked(f, TRUE)
  <2>1. /\ src' = [src EXCEPT ![f] = src'[f]] /\ src'[f] = Opened(f, s)
        /\ rd' = [rd EXCEPT ![f] = rd'[f]] /\ NewRead(f, Opened(f, s), rd'[f])
    <3>1. src' = [src EXCEPT ![f] = src'[f]] /\ src'[f] = Opened(f, s)
      BY <1>4 DEF StartJob, TailerInv
    <3>2. CASE Opened(f, s).off = Size(file[f])
      BY <1>4, <3>1, <3>2 DEF StartJob, StopReading, NewRead, TailerInv
    <3>3. CASE Opened(f, s).off # Size(file[f])
      BY <1>4, <3>1, <3>3 DEF StartJob, NewRead, TailerInv
    <3> QED
      BY <3>1, <3>2, <3>3
  <2>2. /\ SourceOK(file[f], s)
        /\ ReadOf(f, s) \subseteq ReadSoFar(f, file[f], src[f], rd[f])
    BY <1>1, <1>4, TrackedOK
  <2> HIDE DEF s
  <2>3. /\ FileOK(file[f], src'[f], rd'[f], cursor[f])
        /\ ReadSoFar(f, file[f], src'[f], rd'[f]) \subseteq ReadOf(f, s)
    BY <1>1, <2>1, <2>2, NewReadOK DEF FileOK
  <2> QED
    BY <1>2, <2>1, <2>2, <2>3, OpenStep
<1> QED
  BY <1>3, <1>4

\* A source that is dropped claims nothing.
LEMMA EvictSourceKeeps ==
    ASSUME TailerInv, NEW f \in Files, EvictSource(f)
    PROVE  TailerInv'
<1>1. FileOK(file[f], src[f], rd[f], cursor[f])
  BY DEF TailerInv
<1>2. /\ UNCHANGED <<sessionVars, file, cursor>> /\ ~rd[f].busy
      /\ src' = [src EXCEPT ![f] = src'[f]] /\ src'[f] = NoSource
      /\ rd' = [rd EXCEPT ![f] = rd'[f]] /\ rd'[f] = rd[f]
  BY DEF EvictSource, TailerInv
<1>3. /\ NoSource \in SourceType /\ NoSource.ino = 0 /\ NoSource.off = 0
      /\ ~NoSource.synced
  BY DEF NoSource, SourceType
<1>4. file[f].ino \in Nat
  BY <1>1 DEF FileOK, ContentOK, ContentType
<1>5. FileOK(file[f], src'[f], rd'[f], cursor[f])
  BY <1>1, <1>2, <1>3, <1>4 DEF FileOK, SourceOK, ReadOK
<1>6. ReadSoFar(f, file[f], src'[f], rd'[f]) = {}
  BY <1>2, <1>3 DEF ReadSoFar
<1> QED
  BY <1>2, <1>5, <1>6, OpenStep

\* A chunk read: what ended in it is safe, and no event is torn.
LEMMA ReadChunkKeeps ==
    ASSUME Healthy, SessionInv, TailerInv, NEW f \in Files, ReadChunk(f)
    PROVE  /\ SessionInv' /\ TailerInv' /\ DurableKept
           /\ UNCHANGED <<covered, hook, torn>>
<1> DEFINE s == SessionOf[f]
           c == rd[f].snap
<1>1. PICK p \in src[f].off + 1 .. Size(c) :
        LET ended == RecordsIn(f, c, src[f].off, p)
            inFileOrder(num) == \A a, b \in DOMAIN num : a[2] < b[2] => num[a] < num[b]
        IN
        /\ rd[f].busy
        /\ src' = [src EXCEPT ![f].off = p]
        /\ UNCHANGED <<file, cursor, hook, covered>>
        /\ \/ /\ ended = {} \/ tomb[s]
              /\ UNCHANGED <<sessionVars, rd, torn>>
           \/ /\ \E num \in Numberings(Fresh(s, ended), Current(s).next) :
                   inFileOrder(num) /\ Accept(s, ended, num, FALSE)
              /\ torn' = IF src[f].base = 0 THEN torn ELSE torn \cup Fresh(s, ended)
              /\ UNCHANGED rd
           \/ \/ LoadThrows(s)
              \/ \E known \in ended :
                   FingerprintThrows(s, known, {e \in Fresh(s, ended) : e[2] < known[2]})
  BY DEF ReadChunk
<1> DEFINE ended == RecordsIn(f, c, src[f].off, p)
<1>2. /\ FileOK(file[f], src[f], rd[f], cursor[f]) /\ rd[f].busy
      /\ \A e \in ReadSoFar(f, file[f], src[f], rd[f]) : Safe(s, e)
  BY <1>1 DEF TailerInv
<1>3. /\ ContentOK(c) /\ c \in ContentType /\ Size(c) \in Nat
      /\ src[f] \in SourceType /\ src[f].off \in Nat /\ src[f].base = 0
      /\ p \in Nat /\ src[f].off <= p /\ p <= Size(c)
  BY <1>1, <1>2, SizeType DEF FileOK, ReadOK, SourceOK, ContentOK, SourceType
<1>4. /\ ended \in SUBSET Events /\ s \in Sessions
      /\ ReadSoFar(f, file[f], src[f], rd[f]) \in SUBSET Events
  BY <1>2, <1>3, RecordsAreEvents, ReadSoFarEvents, SessionOfChannel
<1>5. /\ SessionInv' /\ DurableKept /\ SafeKept
      /\ \A e \in ended : Safe(s, e)'
      /\ rd' = rd /\ torn' = torn
  <2>1. CASE (ended = {} \/ tomb[s]) /\ UNCHANGED <<sessionVars, rd, torn>>
    <3>1. \A e \in ended : Safe(s, e)'
      BY <2>1 DEF sessionVars, Safe, Durable
    <3> QED
      BY <2>1, <3>1, StutterKeeps, StutterSafe
  <2>2. CASE /\ \E num \in Numberings(Fresh(s, ended), Current(s).next) :
                  Accept(s, ended, num, FALSE)
             /\ torn' = IF src[f].base = 0 THEN torn ELSE torn \cup Fresh(s, ended)
             /\ UNCHANGED rd
    BY <1>3, <1>4, <2>2, AcceptKeeps, AcceptSafe
  <2>3. ~LoadThrows(s)
    BY DEF LoadThrows, Healthy
  <2>4. \A known, before : ~FingerprintThrows(s, known, before)
    BY DEF FingerprintThrows, Healthy
  <2> QED
    BY <1>1, <2>1, <2>2, <2>3, <2>4
<1>6. /\ src' = [src EXCEPT ![f] = src'[f]] /\ src'[f] = [src[f] EXCEPT !.off = p]
      /\ rd' = [rd EXCEPT ![f] = rd'[f]] /\ rd'[f] = rd[f]
      /\ file' = [file EXCEPT ![f] = file'[f]] /\ file'[f] = file[f]
      /\ cursor' = [cursor EXCEPT ![f] = cursor'[f]] /\ cursor'[f] = cursor[f]
  BY <1>1, <1>5 DEF TailerInv
<1>7. /\ src'[f] \in SourceType /\ src'[f].off = p /\ src'[f].ino = src[f].ino
      /\ src'[f].synced = src[f].synced /\ src'[f].base = src[f].base
  BY <1>3, <1>6 DEF SourceType
<1>8. FileOK(file'[f], src'[f], rd'[f], cursor'[f])
  <2>1. c.ino \in Nat /\ c.ino > 0
    BY <1>3 DEF ContentOK, ContentType
  <2>2. SourceOK(file[f], src'[f])
    BY <1>2, <1>7, <2>1 DEF FileOK, SourceOK, ReadOK
  <2>3. ReadOK(file[f], src'[f], rd[f])
    BY <1>2, <1>3, <1>7 DEF FileOK, ReadOK
  <2> QED
    BY <1>2, <1>6, <2>2, <2>3 DEF FileOK
<1>9. \A e \in ReadSoFar(f, file'[f], src'[f], rd'[f]) : Safe(s, e)'
  <2>1. RecordsIn(f, c, 0, p) = RecordsIn(f, c, 0, src[f].off) \cup ended
    BY <1>3, RecordsSplit
  <2>2. /\ ReadSoFar(f, file'[f], src'[f], rd'[f]) = RecordsIn(f, c, 0, p)
        /\ ReadSoFar(f, file[f], src[f], rd[f]) = RecordsIn(f, c, 0, src[f].off)
    BY <1>2, <1>6, <1>7 DEF ReadSoFar
  <2>3. \A e \in RecordsIn(f, c, 0, src[f].off) : Safe(s, e)'
    BY <1>2, <1>4, <1>5, <2>2 DEF SafeKept
  <2> QED
    BY <1>5, <2>1, <2>2, <2>3
<1>10. TailerInv'
  BY <1>5, <1>6, <1>8, <1>9, OneFileKept
<1> QED
  BY <1>1, <1>5, <1>10

\* The flush that ends a read makes durable what the read was given.
LEMMA FinishFlush ==
    ASSUME SessionInv, TailerInv, NEW f \in Files, NEW ok \in BOOLEAN, rd[f].busy,
           IF co[SessionOf[f]].live THEN Persist(SessionOf[f], co[SessionOf[f]], ok)
                                    ELSE UNCHANGED <<co, rows, sess>>,
           UNCHANGED <<orphans, cp, tomb>>
    PROVE  /\ SessionInv' /\ DurableKept /\ SafeKept
           /\ ok => \A e \in RecordsIn(f, rd[f].snap, 0, src[f].off) :
                      Durable(SessionOf[f], e)'
<1> DEFINE s == SessionOf[f]
           read == RecordsIn(f, rd[f].snap, 0, src[f].off)
<1>1. /\ s \in Sessions /\ read \in SUBSET Events
      /\ \A e \in read : Safe(s, e)
  BY SessionOfChannel, ReadSoFarEvents DEF TailerInv, ReadSoFar
<1>2. SessionOK(co[s], rows[s], cp[s], sess[s], tomb[s])
  BY <1>1 DEF SessionInv
<1>3. CASE co[s].live
  <2>1. /\ co[s] \in CoordinatorType /\ Continues(rows[s], co[s])
        /\ Persist(s, co[s], ok) /\ tomb' = tomb /\ ~tomb[s]
    BY <1>2, <1>3 DEF SessionOK
  <2>2. SessionInv'
    BY <1>1, <1>3, <2>1, FlushKeeps
  <2>3. /\ DurableKept /\ SafeKept
        /\ ok => \A e \in Ids(rows[s]) \cup Ids(co[s].pend) : Durable(s, e)'
    BY <1>1, <1>3, <2>1, PersistSafe
  <2>4. \A e \in read : e \in Ids(rows[s]) \cup Ids(co[s].pend)
    BY <1>1, <2>1 DEF Safe, Durable
  <2> QED
    BY <2>2, <2>3, <2>4
<1>4. CASE ~co[s].live
  <2>1. UNCHANGED sessionVars
    BY <1>4 DEF sessionVars
  <2>2. \A e \in read : Durable(s, e)'
    BY <1>1, <1>4 DEF Safe, Durable
  <2> QED
    BY <2>1, <2>2, StutterKeeps, StutterSafe
<1> QED
  BY <1>3, <1>4

\* The end of a read: the cursor passes only what is durable, and the read
\* that a poke asked for begins with what was read of the same file.
LEMMA FinishReadKeeps ==
    ASSUME SessionInv, TailerInv, PromiseInv, NEW f \in Files, FinishRead(f)
    PROVE  SessionInv' /\ TailerInv' /\ PromiseInv'
<1> DEFINE s == SessionOf[f]
           c == rd[f].snap
           read == RecordsIn(f, c, 0, src[f].off)
           whole == src[f].off >= Size(c)
           complete(ok) == rd[f].complete /\ ok /\ whole
<1>1. PICK ok \in BOOLEAN, wrote \in BOOLEAN :
        /\ wrote => ok
        /\ IF co[s].live THEN Persist(s, co[s], ok) ELSE UNCHANGED <<co, rows, sess>>
        /\ IF wrote
           THEN /\ cursor' = [cursor EXCEPT ![f] = [ino |-> src[f].ino, off |-> src[f].off]]
                /\ covered' = covered \cup read
           ELSE UNCHANGED <<cursor, covered>>
        /\ IF src[f].dirty /\ Running /\ ok = wrote
           THEN BeginRead(f, src[f], rd[f].job, complete(wrote))
           ELSE StopReading(f) /\ UNCHANGED src
  <2>1. \A d : FlushOutcome(d) \in SUBSET BOOLEAN /\ Outcome("cursor") \in SUBSET BOOLEAN
    BY DEF FlushOutcome, Outcome
  <2> QED
    BY <2>1 DEF FinishRead
<1>2. /\ rd[f].busy /\ UNCHANGED <<orphans, cp, tomb, file, hook, torn>>
  BY DEF FinishRead
<1>3. /\ SessionInv' /\ DurableKept /\ SafeKept
      /\ ok => \A e \in read : Durable(s, e)'
  BY <1>1, <1>2, FinishFlush
<1>4. /\ FileOK(file[f], src[f], rd[f], cursor[f])
      /\ ContentOK(file[f]) /\ ContentOK(c)
      /\ SourceOK(file[f], src[f]) /\ rd[f] \in ReadType
      /\ src[f].synced /\ src[f].ino = c.ino /\ c.ino <= file[f].ino
      /\ src[f].off <= Size(c) /\ Grown(c, file[f])
  BY <1>2 DEF TailerInv, FileOK, ReadOK
<1>5. /\ c \in ContentType /\ file[f] \in ContentType /\ src[f] \in SourceType
      /\ src[f].off \in Nat /\ src[f].ino \in Nat
      /\ Size(c) \in Nat /\ Size(file[f]) \in Nat
      /\ s \in Sessions /\ read \in SUBSET Events /\ \A e \in read : e[1] = f
  BY <1>4, SizeType, SessionOfChannel, RecordsAreEvents
     DEF ContentOK, SourceOK, SourceType
<1>6. PromiseInv'
  <2>1. covered \in SUBSET Events /\ \A e \in covered : SessionOf[e[1]] \in Sessions
    BY SessionOfChannel, IngestAssumption DEF PromiseInv
  <2>2. \A e \in covered : Durable(SessionOf[e[1]], e)'
    BY <1>3, <2>1 DEF PromiseInv, DurableKept
  <2>3. \A e \in covered' : e \in Events /\ Durable(SessionOf[e[1]], e)'
    <3>1. CASE wrote
      <4>1. \A e \in read : Durable(SessionOf[e[1]], e)'
        BY <1>1, <1>3, <1>5, <3>1
      <4> QED
        BY <1>1, <1>5, <2>1, <2>2, <3>1, <4>1
    <3>2. CASE ~wrote
      BY <1>1, <2>1, <2>2, <3>2
    <3> QED
      BY <3>1, <3>2
  <2>4. \A h \in Hooks : hook[h].acked \in SUBSET Events
    BY DEF PromiseInv
  <2>5. \A h \in Hooks : \A e \in hook[h].acked : Durable(SessionOf[h], e)'
    BY <1>3, <2>4, SessionOfChannel DEF PromiseInv, DurableKept
  <2> QED
    BY <1>2, <2>3, <2>5 DEF PromiseInv
<1>7. /\ cursor' = [cursor EXCEPT ![f] = cursor'[f]]
      /\ cursor'[f] \in CursorType /\ cursor'[f].ino <= file[f].ino
  <2>1. CASE wrote
    <3>1. cursor'[f] = [ino |-> src[f].ino, off |-> src[f].off]
      BY <1>1, <2>1 DEF TailerInv
    <3> QED
      BY <1>1, <1>4, <1>5, <2>1, <3>1 DEF CursorType, TailerInv
  <2>2. CASE ~wrote
    BY <1>1, <1>4, <2>2 DEF TailerInv, FileOK
  <2> QED
    BY <2>1, <2>2
<1>8. file' = [file EXCEPT ![f] = file'[f]] /\ file'[f] = file[f]
  BY <1>2 DEF TailerInv
<1>9. \A e \in read : Safe(s, e)'
  BY <1>2, <1>3, <1>5 DEF TailerInv, ReadSoFar, SafeKept
<1>10. src[f].ino = file[f].ino =>
          /\ RecordsIn(f, file[f], 0, src[f].off) = read
          /\ src[f].off <= Size(file[f])
  <2> SUFFICES ASSUME src[f].ino = file[f].ino
               PROVE  /\ RecordsIn(f, file[f], 0, src[f].off) = read
                      /\ src[f].off <= Size(file[f])
    OBVIOUS
  <2>1. c.ino = file[f].ino /\ Size(c) <= Size(file[f])
    BY <1>4 DEF Grown
  <2>2. RecordsIn(f, file[f], 0, src[f].off) = read
    BY <1>4, <1>5, <2>1, RecordsGrown
  <2>3. src[f].off <= Size(file[f])
    BY <1>4, <1>5, <2>1
  <2> QED
    BY <2>2, <2>3
<1>11. CASE BeginRead(f, src[f], rd[f].job, complete(wrote))
  <2>1. rd[f].job \in BOOLEAN /\ complete(wrote) \in BOOLEAN
    BY <1>4 DEF ReadType
  <2>2. /\ src' = [src EXCEPT ![f] = src'[f]] /\ src'[f] = Opened(f, src[f])
        /\ rd' = [rd EXCEPT ![f] = rd'[f]] /\ NewRead(f, Opened(f, src[f]), rd'[f])
    BY <1>11, <2>1, BeginReadIs
  <2>3. /\ FileOK(file[f], src'[f], rd'[f], cursor'[f])
        /\ ReadSoFar(f, file[f], src'[f], rd'[f]) \subseteq ReadOf(f, src[f])
    BY <1>4, <1>7, <2>2, NewReadOK
  <2>4. ReadOf(f, src[f]) \subseteq read
    BY <1>10 DEF ReadOf
  <2>5. \A e \in ReadSoFar(f, file[f], src'[f], rd'[f]) : Safe(s, e)'
    BY <1>9, <2>3, <2>4
  <2> QED
    BY <1>3, <1>6, <1>7, <1>8, <2>2, <2>3, <2>5, OneFileKept
<1>12. CASE StopReading(f) /\ UNCHANGED src
  <2>1. /\ src' = [src EXCEPT ![f] = src'[f]] /\ src'[f] = src[f]
        /\ rd' = [rd EXCEPT ![f] = rd'[f]] /\ rd'[f] = NotReading
    BY <1>12 DEF StopReading, TailerInv
  <2>2. ReadOK(file[f], src'[f], rd'[f])
    BY <1>10, <2>1, NotReadingType DEF ReadOK
  <2>3. FileOK(file'[f], src'[f], rd'[f], cursor'[f])
    BY <1>4, <1>7, <1>8, <2>1, <2>2 DEF FileOK
  <2>4. ReadSoFar(f, file'[f], src'[f], rd'[f]) \subseteq read
    BY <1>8, <1>10, <2>1, NotReadingType DEF ReadSoFar
  <2>5. \A e \in ReadSoFar(f, file'[f], src'[f], rd'[f]) : Safe(s, e)'
    BY <1>9, <2>4
  <2> QED
    BY <1>3, <1>6, <1>7, <1>8, <2>1, <2>3, <2>5, OneFileKept
<1> QED
  BY <1>1, <1>11, <1>12

-----------------------------------------------------------------------------
(* The hook channel, the process and the steps of the session log          *)

\* A step of the session log or of the control variables alone.
LEMMA QuietKeeps ==
    ASSUME TailerInv, PromiseInv, DurableKept, SafeKept,
           UNCHANGED <<file, src, rd, cursor, hook, covered, torn>>
    PROVE  TailerInv' /\ PromiseInv'
<1>1. TailerInv'
  BY NoFileKept
<1>2. hook' \in [Hooks -> [fired : 0 .. MaxFired, acked : SUBSET Events]]
  BY DEF PromiseInv
<1> QED
  BY <1>1, <1>2, PromiseKept

\* A fired event is not yet promised.
LEMMA FireHookKeeps ==
    ASSUME TailerInv, PromiseInv, NEW h \in Hooks, FireHook(h)
    PROVE  TailerInv' /\ PromiseInv'
<1>1. /\ UNCHANGED <<sessionVars, file, src, rd, cursor, covered, torn>>
      /\ hook[h].fired < MaxFired
      /\ hook' = [hook EXCEPT ![h].fired = @ + 1]
  BY DEF FireHook
<1>2. /\ hook \in [Hooks -> [fired : 0 .. MaxFired, acked : SUBSET Events]]
      /\ MaxFired \in Nat
  BY IngestAssumption DEF PromiseInv
<1> DEFINE m == hook[h].fired + 1
<1>3. m \in 0 .. MaxFired /\ hook' = [hook EXCEPT ![h] = [hook[h] EXCEPT !.fired = m]]
  BY <1>1, <1>2
<1> HIDE DEF m
<1>4. /\ hook' \in [Hooks -> [fired : 0 .. MaxFired, acked : SUBSET Events]]
      /\ \A g \in Hooks : hook'[g].acked = hook[g].acked
  BY <1>2, <1>3
<1> QED
  BY <1>1, <1>4, StutterSafe, NoFileKept, PromiseKept

\* The relay is told that an event is durable only when it is.
LEMMA DeliverHookKeeps ==
    ASSUME Healthy, SessionInv, TailerInv, PromiseInv, NEW h \in Hooks, DeliverHook(h)
    PROVE  SessionInv' /\ TailerInv' /\ PromiseInv'
<1> DEFINE s == SessionOf[h]
<1>1. PICK i \in 1 .. hook[h].fired :
        /\ UNCHANGED <<file, src, rd, cursor, covered, torn>>
        /\ \/ /\ tomb[s]
              /\ hook' = [hook EXCEPT ![h].acked = @ \cup {<<h, i>>}]
              /\ UNCHANGED sessionVars
           \/ /\ Ingest(s, {<<h, i>>}, TRUE)
              /\ hook' = IF co'[s].pend = {}
                         THEN [hook EXCEPT ![h].acked = @ \cup {<<h, i>>}]
                         ELSE hook
           \/ LoadThrows(s)
  BY DEF DeliverHook
<1> DEFINE e == <<h, i>>
<1>2. /\ hook \in [Hooks -> [fired : 0 .. MaxFired, acked : SUBSET Events]]
      /\ s \in Sessions /\ i \in 1 .. MaxFired
  BY IngestAssumption, SessionOfChannel DEF PromiseInv
<1>3. e \in Events
  BY <1>2, IngestAssumption
<1> HIDE DEF e
<1>4. /\ SessionInv' /\ DurableKept /\ SafeKept
      /\ \/ hook' = hook
         \/ hook' = [hook EXCEPT ![h].acked = @ \cup {e}] /\ Durable(s, e)'
  <2>1. CASE /\ tomb[s]
             /\ hook' = [hook EXCEPT ![h].acked = @ \cup {e}]
             /\ UNCHANGED sessionVars
    BY <2>1, StutterKeeps, StutterSafe DEF Durable, sessionVars
  <2>2. CASE /\ Ingest(s, {e}, TRUE)
             /\ hook' = IF co'[s].pend = {}
                        THEN [hook EXCEPT ![h].acked = @ \cup {e}]
                        ELSE hook
    <3>1. PICK num \in Numberings(Fresh(s, {e}), Current(s).next) :
            Accept(s, {e}, num, TRUE)
      BY <2>2 DEF Ingest
    <3>2. {e} \in SUBSET Events
      BY <1>3
    <3>3. SessionInv' /\ DurableKept /\ SafeKept /\ Safe(s, e)'
      BY <1>2, <3>1, <3>2, AcceptKeeps, AcceptSafe
    <3>4. co'[s].pend = {} => Durable(s, e)'
      BY <3>3 DEF Safe, Ids
    <3> QED
      BY <2>2, <3>3, <3>4
  <2>3. ~LoadThrows(s)
    BY DEF LoadThrows, Healthy
  <2> QED
    BY <1>1, <2>1, <2>2, <2>3 DEF e
<1>5. TailerInv'
  BY <1>1, <1>4, NoFileKept
<1>6. PromiseInv'
  <2>1. CASE hook' = hook
    BY <1>1, <1>2, <1>4, <2>1, PromiseKept
  <2>2. CASE hook' = [hook EXCEPT ![h].acked = @ \cup {e}] /\ Durable(s, e)'
    <3>1. hook' \in [Hooks -> [fired : 0 .. MaxFired, acked : SUBSET Events]]
      BY <1>2, <1>3, <2>2
    <3>2. \A d \in covered : d \in Events /\ SessionOf[d[1]] \in Sessions
      BY SessionOfChannel, IngestAssumption DEF PromiseInv
    <3>3. \A d \in covered : Durable(SessionOf[d[1]], d)'
      BY <1>4, <3>2 DEF PromiseInv, DurableKept
    <3>4. \A g \in Hooks : \A d \in hook'[g].acked :
            d \in hook[g].acked \/ (g = h /\ d = e)
      BY <1>2, <2>2
    <3>5. \A g \in Hooks : \A d \in hook[g].acked : Durable(SessionOf[g], d)'
      BY <1>2, <1>4, SessionOfChannel DEF PromiseInv, DurableKept
    <3>6. \A g \in Hooks : \A d \in hook'[g].acked : Durable(SessionOf[g], d)'
      BY <2>2, <3>4, <3>5
    <3> QED
      BY <1>1, <3>1, <3>3, <3>6 DEF PromiseInv
  <2> QED
    BY <1>4, <2>1, <2>2
<1> QED
  BY <1>4, <1>5, <1>6

\* A restart forgets the sources and their reads, and keeps what is durable.
LEMMA RestartDaemonKeeps ==
    ASSUME SessionInv, TailerInv, PromiseInv, RestartDaemon
    PROVE  SessionInv' /\ TailerInv' /\ PromiseInv'
<1>1. /\ Restart /\ UNCHANGED <<file, cursor, hook, covered, torn>>
      /\ src' = [f \in Files |-> NoSource]
      /\ rd' = [f \in Files |-> NotReading]
  BY DEF RestartDaemon
<1>2. SessionInv' /\ DurableKept
  BY <1>1, RestartKeeps, RestartDurable
<1>3. /\ NoSource \in SourceType /\ NoSource.ino = 0 /\ NoSource.off = 0
      /\ ~NoSource.synced
  BY DEF NoSource, SourceType
<1>4. ASSUME NEW f \in Files
      PROVE  /\ FileOK(file'[f], src'[f], rd'[f], cursor'[f])
             /\ ReadSoFar(f, file'[f], src'[f], rd'[f]) = {}
  <2>1. /\ FileOK(file[f], src[f], rd[f], cursor[f])
        /\ file'[f] = file[f] /\ cursor'[f] = cursor[f]
        /\ src'[f] = NoSource /\ rd'[f] = NotReading
    BY <1>1 DEF TailerInv
  <2>2. file[f].ino \in Nat
    BY <2>1 DEF FileOK, ContentOK, ContentType
  <2>3. FileOK(file'[f], src'[f], rd'[f], cursor'[f])
    BY <1>3, <2>1, <2>2, NotReadingType DEF FileOK, SourceOK, ReadOK
  <2> QED
    BY <1>3, <2>1, <2>3, NotReadingType DEF ReadSoFar
<1>5. TailerInv'
  BY <1>1, <1>3, <1>4, NotReadingType DEF TailerInv
<1>6. hook' \in [Hooks -> [fired : 0 .. MaxFired, acked : SUBSET Events]]
  BY <1>1 DEF PromiseInv
<1>7. PromiseInv'
  BY <1>1, <1>2, <1>6, PromiseKept
<1> QED
  BY <1>2, <1>5, <1>7

\* Timers, the API, eviction, retention and Forget.
LEMMA SessionStepKeeps ==
    ASSUME Healthy, SessionInv, TailerInv, PromiseInv, NEW s \in Sessions,
           SessionStep(s) \/ ForgetSession(s) \/ Retention
    PROVE  SessionInv' /\ TailerInv' /\ PromiseInv'
<1>1. UNCHANGED <<file, src, rd, cursor, hook, covered, torn>>
  BY DEF SessionStep, ForgetSession, Retention, ingestVars
<1>2. SessionInv' /\ DurableKept /\ SafeKept
  <2>1. CASE Background(s)
    BY <2>1, BackgroundKeeps, BackgroundSafe
  <2>2. CASE Evict(s)
    BY <2>2, EvictKeeps, EvictSafe
  <2>3. CASE Forget(s)
    BY <2>3, ForgetKeeps, ForgetSafe
  <2>4. CASE ApplyRetention
    BY <2>4, ApplyRetentionKeeps, ApplyRetentionSafe
  <2> QED
    BY <2>1, <2>2, <2>3, <2>4 DEF SessionStep, IdleEvict, ForgetSession, Retention
<1> QED
  BY <1>1, <1>2, QuietKeeps

\* Jobs, the start's list of tried jobs, the flags and the bounds.
LEMMA ControlKeeps ==
    ASSUME ControlInv, TailerInv, Next
    PROVE  ControlInv'
<1>1. ASSUME NEW f \in Files, NEW isJob \in BOOLEAN, NEW ok \in BOOLEAN,
             JobDone(f, isJob, ok) \/ job' = job \/ job' = [job EXCEPT ![f] = "running"]
                \/ job' = [job EXCEPT ![f] = "failed"]
      PROVE  job' \in [Files -> JobStatus]
  BY <1>1 DEF JobDone, ControlInv, JobStatus
<1>2. /\ budget.rotations \in Int /\ budget.restarts \in Int
      /\ budget.forgets \in Int /\ budget.pauses \in Int
      /\ budget \in [rotations : Int, restarts : Int, forgets : Int, pauses : Int]
  BY DEF ControlInv
<1>3. budget' = budget => budget' \in [rotations : Int, restarts : Int, forgets : Int, pauses : Int]
  BY <1>2
<1>4. ASSUME NEW f \in Files, FileStep(f)
      PROVE  ControlInv'
  <2>1. CASE StartRecord(f) \/ EndRecord(f) \/ EvictSource(f)
    BY <2>1 DEF StartRecord, EndRecord, EvictSource, ControlInv
  <2>2. CASE Rotate(f)
    <3> DEFINE m == budget.rotations - 1
    <3>1. m \in Int /\ budget' = [budget EXCEPT !.rotations = m]
      BY <1>2, <2>2 DEF Rotate
    <3> HIDE DEF m
    <3>2. budget' \in [rotations : Int, restarts : Int, forgets : Int, pauses : Int]
      BY <1>2, <3>1
    <3> QED
      BY <2>2, <3>2 DEF Rotate, ControlInv
  <2>3. CASE ReadNow(f)
    <3>1. job' \in [Files -> JobStatus]
      BY <1>1, <2>3 DEF ReadNow, BeginRead
    <3> QED
      BY <2>3, <3>1 DEF ReadNow, ControlInv
  <2>4. CASE StartJob(f)
    <3>1. job' \in [Files -> JobStatus]
      BY <1>1, <2>4 DEF StartJob
    <3> QED
      BY <2>4, <3>1 DEF StartJob, ControlInv
  <2>5. rd[f].job \in BOOLEAN /\ rd[f].complete \in BOOLEAN
    BY DEF TailerInv, ReadType
  <2>6. CASE ReadChunk(f)
    <3>1. job' = job \/ JobDone(f, rd[f].job, FALSE)
      BY <2>6 DEF ReadChunk
    <3>2. job' \in [Files -> JobStatus]
      BY <1>1, <2>5, <3>1
    <3> QED
      BY <2>6, <3>2 DEF ReadChunk, ControlInv
  <2>7. CASE FinishRead(f)
    <3>1. \E ok \in BOOLEAN : job' = job \/ JobDone(f, rd[f].job, ok)
      BY <2>5, <2>7 DEF FinishRead, BeginRead, FlushOutcome, Outcome
    <3>2. job' \in [Files -> JobStatus]
      BY <1>1, <2>5, <3>1
    <3> QED
      BY <2>7, <3>2 DEF FinishRead, ControlInv
  <2> QED
    BY <1>4, <2>1, <2>2, <2>3, <2>4, <2>6, <2>7 DEF FileStep
<1>5. ASSUME NEW h \in Hooks, FireHook(h) \/ DeliverHook(h)
      PROVE  ControlInv'
  BY <1>5 DEF FireHook, DeliverHook, ControlInv
<1>6. ASSUME NEW s \in Sessions, SessionStep(s) \/ Retention
      PROVE  ControlInv'
  BY <1>6 DEF SessionStep, Retention, ingestVars, ControlInv
<1>7. ASSUME NEW s \in Sessions, ForgetSession(s)
      PROVE  ControlInv'
  <2> DEFINE m == budget.forgets - 1
  <2>1. m \in Int /\ budget' = [budget EXCEPT !.forgets = m]
    BY <1>2, <1>7 DEF ForgetSession
  <2> HIDE DEF m
  <2>2. budget' \in [rotations : Int, restarts : Int, forgets : Int, pauses : Int]
    BY <1>2, <2>1
  <2> QED
    BY <1>7, <2>2 DEF ForgetSession, ControlInv
<1>8. CASE Pause
  <2> DEFINE m == budget.pauses - 1
  <2>1. m \in Int /\ budget' = [budget EXCEPT !.pauses = m]
    BY <1>2, <1>8 DEF Pause
  <2> HIDE DEF m
  <2>2. budget' \in [rotations : Int, restarts : Int, forgets : Int, pauses : Int]
    BY <1>2, <2>1
  <2> QED
    BY <1>8, <2>2 DEF Pause, ControlInv
<1>9. CASE Resume \/ BeginStop
  BY <1>9 DEF Resume, BeginStop, ControlInv
<1>10. CASE RestartDaemon
  <2> DEFINE m == budget.restarts - 1
  <2>1. m \in Int /\ budget' = [budget EXCEPT !.restarts = m]
    BY <1>2, <1>10 DEF RestartDaemon
  <2> HIDE DEF m
  <2>2. budget' \in [rotations : Int, restarts : Int, forgets : Int, pauses : Int]
    BY <1>2, <2>1
  <2> QED
    BY <1>10, <2>2 DEF RestartDaemon, ControlInv
<1>11. CASE Retention
  BY <1>11 DEF Retention, ingestVars, ControlInv
<1> QED
  BY <1>4, <1>5, <1>6, <1>7, <1>8, <1>9, <1>10, <1>11 DEF Next

-----------------------------------------------------------------------------
(* The theorems                                                            *)

\* The empty store, with no file written and nothing tracked.
LEMMA InitOK == Init => IngestInv
<1> SUFFICES ASSUME Init PROVE IngestInv
  OBVIOUS
<1>1. SessionInv
  BY SessionInitOK DEF Init
<1> DEFINE empty == [ino |-> 1, first |-> 1, n |-> 0, half |-> FALSE]
<1>2. /\ ContentOK(empty) /\ empty \in ContentType /\ empty.ino = 1
  BY IngestAssumption DEF ContentOK, ContentType, Half
<1>3. /\ NoSource \in SourceType /\ NoSource.ino = 0 /\ NoSource.off = 0
      /\ ~NoSource.synced /\ NoCursor \in CursorType /\ NoCursor.ino = 0
  BY DEF NoSource, SourceType, NoCursor, CursorType
<1>4. /\ file = [f \in Files |-> empty] /\ src = [f \in Files |-> NoSource]
      /\ rd = [f \in Files |-> NotReading] /\ cursor = [f \in Files |-> NoCursor]
  BY DEF Init
<1> HIDE DEF empty
<1>5. FileOK(empty, NoSource, NotReading, NoCursor)
  BY <1>2, <1>3, NotReadingType DEF FileOK, SourceOK, ReadOK
<1>6. \A f \in Files : ReadSoFar(f, empty, NoSource, NotReading) = {}
  BY <1>3, NotReadingType DEF ReadSoFar
<1>7. TailerInv
  BY <1>2, <1>3, <1>4, <1>5, <1>6, NotReadingType DEF TailerInv
<1>8. PromiseInv
  BY IngestAssumption DEF Init, PromiseInv
<1>9. ControlInv
  <2>1. job \in [Files -> JobStatus]
    BY DEF Init, JobStatus
  <2>2. budget \in [rotations : Int, restarts : Int, forgets : Int, pauses : Int]
    BY IngestAssumption DEF Init
  <2> QED
    BY <2>1, <2>2 DEF Init, ControlInv
<1> QED
  BY <1>1, <1>7, <1>8, <1>9 DEF IngestInv

\* Every step keeps the invariant.
LEMMA NextKeeps ==
    ASSUME Healthy, IngestInv, [Next]_vars
    PROVE  IngestInv'
<1>1. SessionInv /\ TailerInv /\ PromiseInv /\ ControlInv
  BY DEF IngestInv
<1>2. CASE UNCHANGED vars
  <2>1. /\ UNCHANGED <<sessionVars, file, src, rd, cursor, hook, covered, torn>>
        /\ UNCHANGED <<job, tried, paused, stopping, budget>>
    BY <1>2 DEF vars, sessionVars
  <2>2. SessionInv' /\ TailerInv' /\ PromiseInv'
    BY <1>1, <2>1, StutterKeeps, StutterSafe, QuietKeeps
  <2> QED
    BY <1>1, <2>1, <2>2 DEF ControlInv, IngestInv
<1>3. CASE Next
  <2>1. ControlInv'
    BY <1>1, <1>3, ControlKeeps
  <2>2. ASSUME NEW f \in Files, FileStep(f)
        PROVE  SessionInv' /\ TailerInv' /\ PromiseInv'
    <3>1. CASE ReadChunk(f)
      <4>1. /\ SessionInv' /\ TailerInv' /\ DurableKept
            /\ UNCHANGED <<covered, hook, torn>>
        BY <1>1, <3>1, ReadChunkKeeps
      <4>2. hook' \in [Hooks -> [fired : 0 .. MaxFired, acked : SUBSET Events]]
        BY <1>1, <4>1 DEF PromiseInv
      <4> QED
        BY <1>1, <4>1, <4>2, PromiseKept
    <3>2. CASE FinishRead(f)
      BY <1>1, <3>2, FinishReadKeeps
    <3>3. CASE ~ReadChunk(f) /\ ~FinishRead(f)
      <4>1. UNCHANGED <<sessionVars, hook, covered, torn>>
        <5>1. CASE StartRecord(f) \/ EndRecord(f) \/ Rotate(f)
          BY <5>1 DEF StartRecord, EndRecord, Rotate
        <5>2. CASE ReadNow(f)
          BY <5>2 DEF ReadNow
        <5>3. CASE StartJob(f)
          BY <5>3 DEF StartJob
        <5>4. CASE EvictSource(f)
          BY <5>4 DEF EvictSource
        <5> QED
          BY <2>2, <3>3, <5>1, <5>2, <5>3, <5>4 DEF FileStep
      <4>2. SessionInv' /\ DurableKept /\ SafeKept
        BY <1>1, <4>1, StutterKeeps, StutterSafe
      <4>3. TailerInv'
        BY <1>1, <2>2, <3>3, <4>2, ProviderKeeps, ReadNowKeeps, StartJobKeeps,
           EvictSourceKeeps DEF FileStep
      <4>4. hook' \in [Hooks -> [fired : 0 .. MaxFired, acked : SUBSET Events]]
        BY <1>1, <4>1 DEF PromiseInv
      <4> QED
        BY <1>1, <4>1, <4>2, <4>3, <4>4, PromiseKept
    <3> QED
      BY <3>1, <3>2, <3>3
  <2>3. ASSUME NEW h \in Hooks, FireHook(h) \/ DeliverHook(h)
        PROVE  SessionInv' /\ TailerInv' /\ PromiseInv'
    <3>1. CASE FireHook(h)
      <4>1. SessionInv'
        BY <1>1, <3>1, StutterKeeps DEF FireHook
      <4> QED
        BY <1>1, <3>1, <4>1, FireHookKeeps
    <3>2. CASE DeliverHook(h)
      BY <1>1, <3>2, DeliverHookKeeps
    <3> QED
      BY <2>3, <3>1, <3>2
  <2>4. ASSUME NEW s \in Sessions, SessionStep(s) \/ ForgetSession(s)
        PROVE  SessionInv' /\ TailerInv' /\ PromiseInv'
    BY <1>1, <2>4, SessionStepKeeps
  <2>5. CASE Retention
    <3>1. UNCHANGED <<file, src, rd, cursor, hook, covered, torn>>
      BY <2>5 DEF Retention, ingestVars
    <3>2. SessionInv' /\ DurableKept /\ SafeKept
      BY <1>1, <2>5, ApplyRetentionKeeps, ApplyRetentionSafe DEF Retention
    <3> QED
      BY <1>1, <2>1, <3>1, <3>2, QuietKeeps DEF IngestInv
  <2>6. CASE Pause \/ Resume \/ BeginStop
    <3>1. UNCHANGED <<sessionVars, file, src, rd, cursor, hook, covered, torn>>
      BY <2>6 DEF Pause, Resume, BeginStop
    <3> QED
      BY <1>1, <2>1, <3>1, StutterKeeps, StutterSafe, QuietKeeps DEF IngestInv
  <2>7. CASE RestartDaemon
    BY <1>1, <2>1, <2>7, RestartDaemonKeeps DEF IngestInv
  <2> QED
    BY <1>3, <2>1, <2>2, <2>3, <2>4, <2>5, <2>6, <2>7 DEF Next, IngestInv
<1> QED
  BY <1>2, <1>3

\* In every reachable state the session log is in order, what the sources
\* have read is safe, and what the cursors and the relay were promised is
\* durable: the inductive invariant the theorems below follow from.
THEOREM IngestInvariant ==
    ASSUME Healthy
    PROVE  Spec => []IngestInv
<1>1. IngestInv /\ [Next]_vars => IngestInv'
  BY NextKeeps
<1> QED
  BY InitOK, <1>1, PTL DEF Spec

\* No sequence of handlers stores a malformed row, checkpoint, cursor or
\* coordinator.
THEOREM TypeCorrect ==
    ASSUME Healthy
    PROVE  Spec => []TypeOK
<1>1. IngestInv => TypeOK
  <2> SUFFICES ASSUME IngestInv PROVE TypeOK
    OBVIOUS
  <2>1. SessionTypeOK
    BY DEF IngestInv, SessionInv, SessionTypeOK, CheckpointType
  <2>2. torn = {}
    BY DEF IngestInv, PromiseInv
  <2>3. IngestTypeOK
    BY <2>2 DEF IngestInv, TailerInv, PromiseInv, ControlInv, IngestTypeOK
  <2> QED
    BY <2>1, <2>3 DEF TypeOK
<1> QED
  BY <1>1, IngestInvariant, PTL

\* However flushes fail, race and are repeated, the sequence numbers of a
\* durable log are 0, 1, 2, ... without a gap.
THEOREM DenseLog ==
    ASSUME Healthy
    PROVE  Spec => []LogIsDense
<1>1. IngestInv => LogIsDense
  BY DEF IngestInv, SessionInv, SessionOK, LogOK, LogIsDense
<1> QED
  BY <1>1, IngestInvariant, PTL

\* The state a coordinator serves is the one a restart would rebuild from
\* the durable log followed by its queue, and the two share no event.
THEOREM ReplayGivesState ==
    ASSUME Healthy
    PROVE  Spec => []StateIsReplay
<1>1. IngestInv => StateIsReplay
  BY DEF IngestInv, SessionInv, SessionOK, Continues, StateIsReplay
<1> QED
  BY <1>1, IngestInvariant, PTL

\* A checkpoint is the fold of a prefix of the durable log.
THEOREM CheckpointsArePrefixes ==
    ASSUME Healthy
    PROVE  Spec => []CheckpointIsPrefix
<1>1. IngestInv => CheckpointIsPrefix
  BY DEF IngestInv, SessionInv, SessionOK, CheckpointOK, CheckpointIsPrefix
<1> QED
  BY <1>1, IngestInvariant, PTL

\* As long as a close never fails to flush, a forgotten session is never
\* stored again.
THEOREM ForgottenForGood ==
    ASSUME Healthy
    PROVE  Spec => []ForgottenStaysGone
<1>1. IngestInv => ForgottenStaysGone
  BY DEF IngestInv, SessionInv, SessionOK, ForgottenStaysGone
<1> QED
  BY <1>1, IngestInvariant, PTL

\* No record that a durable cursor has passed can be lost: it is in the
\* durable log unless its session is forgotten.
THEOREM CursorIsRecoveryBoundary ==
    ASSUME Healthy
    PROVE  Spec => []CursorCoversDurable
<1>1. IngestInv => CursorCoversDurable
  BY DEF IngestInv, PromiseInv, Durable, CursorCoversDurable
<1> QED
  BY <1>1, IngestInvariant, PTL

\* The relay is told to delete its copy of a hook event only when the event
\* is in the durable log, and it stays there until it is forgotten.
THEOREM AckedForGood ==
    ASSUME Healthy
    PROVE  Spec => []AckedIsDurable
<1>1. IngestInv => AckedIsDurable
  BY DEF IngestInv, PromiseInv, Durable, AckedIsDurable
<1> QED
  BY <1>1, IngestInvariant, PTL

\* No event is taken from a parser that was created in the middle of a file.
THEOREM NeverTorn ==
    ASSUME Healthy
    PROVE  Spec => []NothingTorn
<1>1. IngestInv => NothingTorn
  BY DEF IngestInv, PromiseInv, NothingTorn
<1> QED
  BY <1>1, IngestInvariant, PTL

\* A re-ingest job is reported complete only by a read that made the whole
\* of the file durable.
THEOREM HonestJobs ==
    ASSUME Healthy
    PROVE  Spec => JobIsHonest
<1> DEFINE whole(f) == IF rd[f].busy THEN rd[f].snap ELSE file[f]
           Honest == \A f \in Files : (job[f] # "completed" /\ job'[f] = "completed") =>
                        \/ tomb'[SessionOf[f]]
                        \/ RecordsIn(f, whole(f), 0, Size(whole(f)))
                             \subseteq Ids(rows'[SessionOf[f]])
<1>1. ASSUME IngestInv, Next, NEW f \in Files,
             job[f] # "completed", job'[f] = "completed"
      PROVE  \/ tomb'[SessionOf[f]]
             \/ RecordsIn(f, whole(f), 0, Size(whole(f)))
                  \subseteq Ids(rows'[SessionOf[f]])
  <2>1. /\ SessionInv /\ TailerInv
        /\ job \in [Files -> JobStatus] /\ job' # job
        /\ FileOK(file[f], src[f], rd[f], cursor[f])
    BY <1>1 DEF IngestInv, TailerInv, ControlInv
  <2>2. StartJob(f) \/ FinishRead(f)
    <3>1. \A isJob, ok : \A g \in Files : JobDone(g, isJob, ok) =>
            job' = job \/ (isJob /\ ok /\ g = f) \/ job'[f] # "completed"
      BY <1>1, <2>1 DEF JobDone
    <3>2. PICK g \in Files : FileStep(g)
      BY <1>1, <2>1 DEF Next, FireHook, DeliverHook, SessionStep, Retention,
         ForgetSession, Pause, Resume, BeginStop, RestartDaemon, ingestVars
    <3>3. ~ReadNow(g) /\ ~ReadChunk(g)
      BY <1>1, <2>1, <3>1 DEF ReadNow, BeginRead, ReadChunk
    <3>4. StartJob(g) \/ FinishRead(g)
      BY <2>1, <3>2, <3>3 DEF FileStep, StartRecord, EndRecord, Rotate, EvictSource
    <3>5. g = f
      BY <1>1, <2>1, <3>1, <3>4 DEF StartJob, FinishRead, BeginRead
    <3> QED
      BY <3>4, <3>5
  <2>3. CASE StartJob(f)
    <3>1. ~rd[f].busy /\ Opened(f, Tracked(f, TRUE)).off = Size(file[f])
      BY <1>1, <2>1, <2>3 DEF StartJob
    <3>2. Tracked(f, TRUE).off = 0
      BY DEF Tracked
    <3>3. Opened(f, Tracked(f, TRUE)).off = 0
      <4> DEFINE s == Tracked(f, TRUE)
      <4>1. SourceOK(file[f], s) /\ s.off = 0
        BY <2>1, <3>1, <3>2, TrackedOK
      <4> HIDE DEF s
      <4>2. s \in SourceType
        BY <4>1 DEF SourceOK
      <4> DEFINE u == IF (s.ino # 0 /\ s.ino # file[f].ino) \/ Size(file[f]) < s.off
                      THEN FromStart(s) ELSE s
                 t == [u EXCEPT !.ino = file[f].ino, !.dirty = FALSE]
      <4>3. u \in SourceType /\ u.off = 0
        BY <4>1, <4>2 DEF FromStart, SourceType
      <4>4. t \in SourceType /\ t.off = 0
        BY <2>1, <4>3 DEF SourceType, FileOK, ContentOK, ContentType
      <4>5. Opened(f, s) = IF Size(file[f]) # t.off /\ ~t.synced THEN FromStart(t) ELSE t
        BY DEF Opened
      <4>6. FromStart(t).off = 0
        BY <4>4 DEF FromStart, SourceType
      <4> HIDE DEF t
      <4>7. Opened(f, s).off = 0
        BY <4>4, <4>5, <4>6
      <4> QED
        BY <4>7 DEF s
    <3>4. file[f] \in ContentType
      BY <2>1 DEF FileOK, ContentOK
    <3> QED
      BY <3>1, <3>3, <3>4, NoRecords
  <2>4. CASE FinishRead(f)
    <3> DEFINE s == SessionOf[f]
               c == rd[f].snap
    <3>1. PICK ok \in BOOLEAN :
            /\ ok /\ rd[f].busy /\ src[f].off >= Size(c)
            /\ IF co[s].live THEN Persist(s, co[s], ok) ELSE UNCHANGED <<co, rows, sess>>
            /\ UNCHANGED <<orphans, cp, tomb>>
      <4>1. \A d : FlushOutcome(d) \in SUBSET BOOLEAN
        BY DEF FlushOutcome, Outcome
      <4>2. \A isJob, ok : JobDone(f, isJob, ok) => job' = job \/ ok \/ job'[f] # "completed"
        BY <1>1, <2>1 DEF JobDone
      <4> QED
        BY <1>1, <2>1, <2>4, <4>1, <4>2 DEF FinishRead, BeginRead
    <3>2. \A e \in RecordsIn(f, c, 0, src[f].off) : Durable(s, e)'
      BY <2>1, <3>1, FinishFlush
    <3>3. src[f].off = Size(c)
      <4>1. /\ src[f].off <= Size(c) /\ c \in ContentType /\ src[f].off \in Nat
        BY <2>1, <3>1 DEF FileOK, ReadOK, SourceOK, SourceType, ContentOK
      <4> QED
        BY <3>1, <4>1, SizeType
    <3>4. whole(f) = c
      BY <3>1
    <3>5. tomb'[s] \/ RecordsIn(f, c, 0, Size(c)) \subseteq Ids(rows'[s])
      BY <3>2, <3>3 DEF Durable
    <3> QED
      BY <3>4, <3>5
  <2> QED
    BY <2>2, <2>3, <2>4
<1>2. IngestInv /\ [Next]_vars => [Honest]_vars
  BY <1>1
<1>3. [][Honest]_vars => JobIsHonest
  BY PTL DEF JobIsHonest
<1> HIDE DEF Honest
<1> QED
  BY IngestInvariant, <1>2, <1>3, PTL DEF Spec

-----------------------------------------------------------------------------
(* Records are taken in in the order of their file                         *)

\* The first record of f that can still be read: in the snapshot of a read,
\* or in the file.
FirstLeft(f) == IF rd[f].busy THEN rd[f].snap.first ELSE file[f].first

\* Records of one file are numbered in the order of the file.
Ordered(R) ==
    \A r, q \in R :
        (r.id[1] = q.id[1] /\ r.id[1] \in Files /\ r.id[2] < q.id[2]) => r.seq < q.seq

\* With a record of f, R has the records of f before it that can still be read.
ClosedFrom(R, f, first) ==
    \A i, j \in 1 .. MaxRecords :
        <<f, i>> \in Ids(R) /\ first <= j /\ j < i => <<f, j>> \in Ids(R)

InOrder(R) == Ordered(R) /\ \A f \in Files : ClosedFrom(R, f, FirstLeft(f))

\* No record can be stored behind a later one of its file: the log and the
\* state of every session are in the order of the files, and lack no record
\* before one they have that could still come.
OrderInv ==
    /\ \A f \in Files : rd[f].busy => rd[f].snap.first <= file[f].first
    /\ \A s \in Sessions : InOrder(rows[s]) /\ InOrder(Known(s))

\* What f has left only begins later.
Advances(f) ==
    \/ file'[f].first >= file[f].first /\ rd'[f] = rd[f]
    \/ file'[f] = file[f] /\ (rd'[f].busy => rd'[f].snap = file[f])

\* Session s takes in the events F, which it lacks, above all it has and in
\* the order of their files; it has the records before them or they come too.
TakesIn(s, F) ==
    /\ UNCHANGED <<file, rd>>
    /\ \A z \in Sessions \ {s} : Quiet(z)
    /\ F \cap Ids(Known(s)) = {}
    /\ \A a \in F : a[1] \in Files => FirstLeft(a[1]) <= a[2]
    /\ \A f \in Files : \A i, j \in 1 .. MaxRecords :
         <<f, i>> \in F /\ FirstLeft(f) <= j /\ j < i => <<f, j>> \in F \cup Ids(Known(s))
    /\ \E n \in Nat : \E num \in Numberings(F, n) :
         /\ \A r \in Known(s) : r.seq < n
         /\ \A a, b \in F : a[1] = b[1] /\ a[1] \in Files /\ a[2] < b[2] => num[a] < num[b]
         /\ Takes(s, Numbered(F, num))

\* The records of a file are pairs of it and a number.
LEMMA FileEvents ==
    ASSUME NEW e \in Events, e[1] \in Files
    PROVE  e[2] \in 1 .. MaxRecords /\ e = <<e[1], e[2]>>
BY IngestAssumption

\* Order is not lost when less of the files is left.
LEMMA StaysInOrder ==
    ASSUME TailerInv, TailerInv', OrderInv, NEW R, InOrder(R), \A f \in Files : Advances(f)
    PROVE  /\ Ordered(R)
           /\ \A f \in Files : ClosedFrom(R, f, FirstLeft(f)')
           /\ \A f \in Files : rd'[f].busy => rd'[f].snap.first <= file'[f].first
<1> SUFFICES ASSUME NEW f \in Files
             PROVE  /\ ClosedFrom(R, f, FirstLeft(f)')
                    /\ rd'[f].busy => rd'[f].snap.first <= file'[f].first
  BY DEF InOrder
<1>1. /\ file[f].first \in Nat /\ file'[f].first \in Nat
      /\ rd[f].busy => rd[f].snap.first \in Nat /\ rd[f].snap.first <= file[f].first
      /\ ClosedFrom(R, f, FirstLeft(f))
  BY DEF TailerInv, ContentType, ReadType, OrderInv, InOrder
<1>2. FirstLeft(f)' = IF rd'[f].busy THEN rd'[f].snap.first ELSE file'[f].first
  BY DEF FirstLeft
<1>3. FirstLeft(f) \in Nat
  BY <1>1 DEF FirstLeft
<1>4. CASE file'[f].first >= file[f].first /\ rd'[f] = rd[f]
  <2>1. FirstLeft(f)' \in Nat /\ FirstLeft(f) <= FirstLeft(f)'
    BY <1>1, <1>2, <1>4 DEF FirstLeft
  <2>2. rd'[f].busy => rd'[f].snap.first <= file'[f].first
    BY <1>1, <1>4
  <2> QED
    BY <1>1, <1>3, <2>1, <2>2 DEF ClosedFrom
<1>5. CASE file'[f] = file[f] /\ (rd'[f].busy => rd'[f].snap = file[f])
  <2>1. FirstLeft(f)' = file[f].first /\ FirstLeft(f) <= file[f].first
    BY <1>1, <1>2, <1>5 DEF FirstLeft
  <2>2. rd'[f].busy => rd'[f].snap.first <= file'[f].first
    BY <1>1, <1>5
  <2> QED
    BY <1>1, <1>3, <2>1, <2>2 DEF ClosedFrom
<1> QED
  BY <1>1, <1>4, <1>5 DEF Advances

\* A batch with the numbers n, n + 1, ... in file order, which leaves out no
\* record that the session lacks and could still get, keeps the order.
LEMMA BatchInOrder ==
    ASSUME NEW K \in SUBSET Row, InOrder(K),
           NEW F \in SUBSET Events, NEW n \in Nat, NEW num \in Numberings(F, n),
           \A r \in K : r.seq < n,
           F \cap Ids(K) = {},
           \A a, b \in F : a[1] = b[1] /\ a[1] \in Files /\ a[2] < b[2] => num[a] < num[b],
           \A f \in Files : \A i, j \in 1 .. MaxRecords :
               <<f, i>> \in F /\ FirstLeft(f) <= j /\ j < i => <<f, j>> \in F \cup Ids(K),
           \A a \in F : a[1] \in Files => FirstLeft(a[1]) <= a[2]
    PROVE  InOrder(K \cup Numbered(F, num))
<1> DEFINE N == Numbered(F, num)
<1>1. N \subseteq Row /\ Ids(N) = F /\ Seqs(N) = n .. (n + Cardinality(F) - 1)
      /\ Cardinality(F) \in Nat
  BY NumberedRows
<1>2. \A r \in N : r.id \in F /\ r.seq = num[r.id] /\ r.seq >= n
  <2>1. \A r \in N : r.id \in F /\ r.seq = num[r.id]
    BY DEF Numbered
  <2>2. \A r \in N : r.seq \in n .. (n + Cardinality(F) - 1)
    BY <1>1 DEF Seqs
  <2> QED
    BY <1>1, <2>1, <2>2
<1>3. Ids(K \cup N) = Ids(K) \cup F
  BY <1>1 DEF Ids
<1> HIDE DEF N
<1>4. Ordered(K \cup N)
  <2> SUFFICES ASSUME NEW r \in K \cup N, NEW q \in K \cup N,
                      r.id[1] = q.id[1], r.id[1] \in Files, r.id[2] < q.id[2]
               PROVE  r.seq < q.seq
    BY DEF Ordered
  <2>1. r \in Row /\ q \in Row /\ r.id \in Events /\ q.id \in Events
    BY <1>1 DEF Row
  <2> DEFINE f == r.id[1]
             i == q.id[2]
             j == r.id[2]
  <2>2. /\ f \in Files /\ i \in 1 .. MaxRecords /\ j \in 1 .. MaxRecords /\ j < i
        /\ r.id = <<f, j>> /\ q.id = <<f, i>>
    BY <2>1, FileEvents
  <2>3. CASE r \in K /\ q \in K
    BY <2>3 DEF InOrder, Ordered
  <2>4. CASE r \in K /\ q \in N
    <3>1. r.seq < n /\ q.seq >= n /\ r.seq \in Nat /\ q.seq \in Nat
      BY <1>2, <2>1, <2>4 DEF Row
    <3> QED
      BY <3>1
  <2>5. CASE r \in N /\ q \in N
    BY <1>2, <2>5
  <2>6. CASE r \in N /\ q \in K
    <3>1. r.id \in F /\ q.id \in Ids(K)
      BY <1>2, <2>6 DEF Ids
    <3>2. FirstLeft(f) <= j
      BY <3>1, <2>2
    <3>3. ClosedFrom(K, f, FirstLeft(f))
      BY <2>2 DEF InOrder
    <3> HIDE DEF f, i, j
    <3>4. <<f, j>> \in Ids(K)
      BY <2>2, <3>1, <3>2, <3>3 DEF ClosedFrom
    <3> QED
      BY <2>2, <3>1, <3>4
  <2> QED
    BY <2>3, <2>4, <2>5, <2>6
<1>5. ASSUME NEW f \in Files
      PROVE  ClosedFrom(K \cup N, f, FirstLeft(f))
  <2> SUFFICES ASSUME NEW i \in 1 .. MaxRecords, NEW j \in 1 .. MaxRecords,
                      <<f, i>> \in Ids(K) \cup F, FirstLeft(f) <= j, j < i
               PROVE  <<f, j>> \in Ids(K) \cup F
    BY <1>3 DEF ClosedFrom
  <2>1. ClosedFrom(K, f, FirstLeft(f))
    BY DEF InOrder
  <2> QED
    BY <2>1 DEF ClosedFrom
<1> QED
  BY <1>4, <1>5 DEF InOrder, N

\* A session that takes nothing in stays in order.
LEMMA QuietInOrder ==
    ASSUME TailerInv, TailerInv', OrderInv, \A f \in Files : Advances(f),
           NEW s \in Sessions, Quiet(s)
    PROVE  InOrder(rows[s])' /\ InOrder(Known(s))'
<1>1. ASSUME NEW R, R \in {rows[s], Known(s), {}}
      PROVE  Ordered(R) /\ \A f \in Files : ClosedFrom(R, f, FirstLeft(f)')
  <2>1. InOrder({})
    BY DEF InOrder, Ordered, ClosedFrom, Ids
  <2>2. InOrder(R)
    BY <1>1, <2>1 DEF OrderInv
  <2> QED
    BY <2>2, StaysInOrder
<1>2. rows'[s] \in {rows[s], Known(s), {}} /\ Known(s)' \in {rows[s], Known(s), {}}
  BY DEF Quiet
<1> DEFINE A == rows'[s]
           B == Known(s)'
<1>3. /\ Ordered(A) /\ \A f \in Files : ClosedFrom(A, f, FirstLeft(f)')
      /\ Ordered(B) /\ \A f \in Files : ClosedFrom(B, f, FirstLeft(f)')
  BY <1>1, <1>2
<1> QED
  BY <1>3 DEF InOrder, Ordered, ClosedFrom

\* A step in which no session takes anything in keeps the order.
LEMMA AllQuietKeeps ==
    ASSUME TailerInv, TailerInv', OrderInv, \A f \in Files : Advances(f), AllQuiet
    PROVE  OrderInv'
<1>1. InOrder({})
  BY DEF InOrder, Ordered, ClosedFrom, Ids
<1>2. \A f \in Files : rd'[f].busy => rd'[f].snap.first <= file'[f].first
  BY <1>1, StaysInOrder
<1>3. \A s \in Sessions : InOrder(rows[s])' /\ InOrder(Known(s))'
  BY QuietInOrder DEF AllQuiet
<1> QED
  BY <1>2, <1>3 DEF OrderInv

\* So does one in which a session takes in a batch.
LEMMA TakingKeeps ==
    ASSUME SessionInv, SessionInv', TailerInv, TailerInv', OrderInv,
           NEW s \in Sessions, NEW F \in SUBSET Events, TakesIn(s, F)
    PROVE  OrderInv'
<1>0. PICK n \in Nat : \E num \in Numberings(F, n) :
        /\ \A r \in Known(s) : r.seq < n
        /\ \A a, b \in F : a[1] = b[1] /\ a[1] \in Files /\ a[2] < b[2] => num[a] < num[b]
        /\ Takes(s, Numbered(F, num))
  BY DEF TakesIn
<1>1. PICK num \in Numberings(F, n) :
        /\ \A r \in Known(s) : r.seq < n
        /\ \A a, b \in F : a[1] = b[1] /\ a[1] \in Files /\ a[2] < b[2] => num[a] < num[b]
        /\ Takes(s, Numbered(F, num))
  BY <1>0
<1> DEFINE K == Known(s)
           N == Numbered(F, num)
<1>2. K \in SUBSET Row
  BY DEF Known, SessionInv, CoordinatorType
<1>3. InOrder(K) /\ InOrder(rows[s])
  BY DEF OrderInv
<1>4. /\ F \cap Ids(K) = {}
      /\ \A a \in F : a[1] \in Files => FirstLeft(a[1]) <= a[2]
      /\ \A f \in Files : \A i, j \in 1 .. MaxRecords :
           <<f, i>> \in F /\ FirstLeft(f) <= j /\ j < i => <<f, j>> \in F \cup Ids(K)
      /\ UNCHANGED <<file, rd>>
      /\ \A z \in Sessions \ {s} : Quiet(z)
  BY DEF TakesIn
<1> HIDE DEF K
<1>5. InOrder(K \cup N)
  BY <1>1, <1>2, <1>3, <1>4, BatchInOrder DEF K
<1> HIDE DEF N
<1>6. /\ Known(s)' = K \cup N
      /\ rows'[s] \in {rows[s], K \cup N}
  BY <1>1 DEF Takes, K, N
<1>7. \A f \in Files : Advances(f) /\ FirstLeft(f)' = FirstLeft(f)
  BY <1>4 DEF Advances, FirstLeft, TailerInv, ContentType
<1>8. InOrder(rows[s])' /\ InOrder(Known(s))'
  <2> DEFINE A == rows'[s]
             B == Known(s)'
  <2>1. A \in {rows[s], K \cup N} /\ B = K \cup N
    BY <1>6
  <2> HIDE DEF A, B
  <2>2. InOrder(A) /\ InOrder(B)
    BY <1>3, <1>5, <2>1
  <2> QED
    BY <1>7, <2>2 DEF InOrder, Ordered, ClosedFrom, A, B
<1>9. \A z \in Sessions : InOrder(rows[z])' /\ InOrder(Known(z))'
  BY <1>4, <1>7, <1>8, QuietInOrder
<1>10. \A f \in Files : rd'[f].busy => rd'[f].snap.first <= file'[f].first
  BY <1>4 DEF OrderInv
<1> QED
  BY <1>9, <1>10 DEF OrderInv

\* A chunk brings the records that ended in it, and what it skips was read
\* before.
LEMMA ReadChunkTakes ==
    ASSUME Healthy, SessionInv, TailerInv, NEW f \in Files, ReadChunk(f)
    PROVE  \/ AllQuiet
           \/ \E F \in SUBSET Events : TakesIn(SessionOf[f], F)
<1> DEFINE s == SessionOf[f]
           c == rd[f].snap
<1>1. s \in Sessions
  BY SessionOfChannel
<1>2. /\ FileOK(file[f], src[f], rd[f], cursor[f]) /\ rd[f].busy
      /\ \A e \in ReadSoFar(f, file[f], src[f], rd[f]) : Safe(s, e)
  BY DEF TailerInv, ReadChunk
<1>3. /\ ContentOK(c) /\ c \in ContentType /\ src[f].off \in Nat
      /\ c.first \in Nat /\ c.n \in Nat
      /\ \A e \in RecordsIn(f, c, 0, src[f].off) : Safe(s, e)
  BY <1>2 DEF FileOK, ReadOK, ContentOK, SourceOK, SourceType, ContentType, ReadSoFar
<1>4. /\ FirstLeft(f) = c.first
      /\ \A a, b, e : e \in RecordsIn(f, c, a, b) <=>
           \E k \in 1 .. c.n : a < 2 * k /\ 2 * k <= b /\ e = <<f, c.first + k - 1>>
  <2>1. FirstLeft(f) = c.first
    BY <1>2 DEF FirstLeft
  <2>2. c \in ContentType
    BY <1>3
  <2>3. ASSUME NEW a, NEW b, NEW e
        PROVE  e \in RecordsIn(f, c, a, b) <=>
                 \E k \in 1 .. c.n : a < 2 * k /\ 2 * k <= b /\ e = <<f, c.first + k - 1>>
    <3> HIDE DEF c
    <3> QED BY DEF RecordsIn
  <2> HIDE DEF c
  <2> QED BY <2>1, <2>3
<1>5. PICK p \in src[f].off + 1 .. Size(c) :
        LET ended == RecordsIn(f, c, src[f].off, p)
            inFileOrder(num) == \A a, b \in DOMAIN num : a[2] < b[2] => num[a] < num[b]
        IN \/ UNCHANGED sessionVars
           \/ /\ UNCHANGED <<file, rd>>
              /\ \E num \in Numberings(Fresh(s, ended), Current(s).next) :
                   inFileOrder(num) /\ Accept(s, ended, num, FALSE)
  <2>1. ~LoadThrows(s)
    BY DEF LoadThrows, Healthy
  <2>2. \A known, before : ~FingerprintThrows(s, known, before)
    BY DEF FingerprintThrows, Healthy
  <2> QED
    BY <2>1, <2>2 DEF ReadChunk
<1> DEFINE ended == RecordsIn(f, c, src[f].off, p)
           fresh == Fresh(s, ended)
<1>6. CASE UNCHANGED sessionVars
  BY <1>6, StutterQuiet
<1>7. ASSUME UNCHANGED <<file, rd>>,
             NEW num \in Numberings(fresh, Current(s).next),
             \A a, b \in DOMAIN num : a[2] < b[2] => num[a] < num[b],
             Accept(s, ended, num, FALSE)
      PROVE  fresh \in SUBSET Events /\ TakesIn(s, fresh)
  <2>1. ended \in SUBSET Events /\ \A e \in ended : e[1] = f
    BY <1>3, RecordsAreEvents
  <2>2. /\ Takes(s, Numbered(fresh, num))
        /\ \A z \in Sessions \ {s} : Quiet(z)
        /\ fresh = ended \ Ids(Known(s))
        /\ \A r \in Known(s) : r.seq \in Nat /\ r.seq < Current(s).next
    <3> HIDE DEF ended, s
    <3> QED
      BY <1>1, <1>7, <2>1, AcceptTakes
  <2>3. fresh \in SUBSET Events /\ fresh \cap Ids(Known(s)) = {}
    BY <2>1, <2>2
  <2>4. Current(s).next \in Nat
    BY <1>1, LoadOK DEF CoordinatorType
  <2>5. DOMAIN num = fresh
    BY <1>7 DEF Numberings, Bijection, Injection
  <2>6. \A a \in ended : a[1] = f /\ c.first <= a[2]
    <3> SUFFICES ASSUME NEW a \in ended PROVE a[1] = f /\ c.first <= a[2]
      OBVIOUS
    <3>1. PICK k \in 1 .. c.n : a = <<f, c.first + k - 1>>
      BY <1>4
    <3> QED
      BY <1>3, <3>1
  <2>7. ASSUME NEW i \in 1 .. MaxRecords, NEW j \in 1 .. MaxRecords,
               <<f, i>> \in ended, c.first <= j, j < i
        PROVE  <<f, j>> \in fresh \cup Ids(Known(s))
    <3>1. PICK k \in 1 .. c.n : 2 * k <= p /\ <<f, i>> = <<f, c.first + k - 1>>
      BY <1>4, <2>7
    <3> DEFINE l == j - c.first + 1
    <3>2. l \in 1 .. c.n /\ 2 * l <= p /\ j = c.first + l - 1
      BY <1>3, <2>7, <3>1, IngestAssumption
    <3> HIDE DEF l
    <3>3. CASE src[f].off < 2 * l
      <4>1. <<f, j>> \in ended
        BY <1>4, <3>2, <3>3
      <4> QED
        BY <2>2, <4>1
    <3>4. CASE 2 * l <= src[f].off
      <4>1. 0 < 2 * l
        BY <3>2
      <4>2. <<f, j>> \in RecordsIn(f, c, 0, src[f].off)
        BY <1>4, <3>2, <3>4, <4>1
      <4>3. Safe(s, <<f, j>>) /\ ~tomb[s]
        BY <1>3, <2>2, <4>2 DEF Takes
      <4>4. <<f, j>> \in Ids(Known(s))
        BY <4>3 DEF Safe, Durable, Known, Ids
      <4> QED
        BY <4>4
    <3> QED
      BY <1>3, <3>2, <3>3, <3>4
  <2> HIDE DEF ended, fresh, s, c
  <2>8. \A g \in Files : \A i, j \in 1 .. MaxRecords :
          <<g, i>> \in fresh /\ FirstLeft(g) <= j /\ j < i
            => <<g, j>> \in fresh \cup Ids(Known(s))
    <3> SUFFICES ASSUME NEW g \in Files, NEW i \in 1 .. MaxRecords,
                        NEW j \in 1 .. MaxRecords,
                        <<g, i>> \in fresh, FirstLeft(g) <= j, j < i
                 PROVE  <<g, j>> \in fresh \cup Ids(Known(s))
      OBVIOUS
    <3>1. <<g, i>> \in ended /\ g = f
      BY <2>1, <2>2
    <3> QED
      BY <1>4, <2>7, <3>1
  <2>9. \A a \in fresh : a[1] \in Files => FirstLeft(a[1]) <= a[2]
    BY <1>4, <2>2, <2>6
  <2>10. \A a, b \in fresh : a[1] = b[1] /\ a[1] \in Files /\ a[2] < b[2] => num[a] < num[b]
    BY <1>7, <2>5
  <2> QED
    BY <1>7, <2>2, <2>3, <2>4, <2>8, <2>9, <2>10 DEF TakesIn
<1>8. \/ UNCHANGED sessionVars
      \/ /\ UNCHANGED <<file, rd>>
         /\ \E num \in Numberings(fresh, Current(s).next) :
              /\ \A a, b \in DOMAIN num : a[2] < b[2] => num[a] < num[b]
              /\ Accept(s, ended, num, FALSE)
  BY <1>5
<1> HIDE DEF ended, fresh
<1> QED
  BY <1>6, <1>7, <1>8

\* A delivery brings one event, and no record of a file.
LEMMA DeliverHookTakes ==
    ASSUME Healthy, IngestInv, NEW h \in Hooks, DeliverHook(h)
    PROVE  \/ AllQuiet
           \/ \E F \in SUBSET Events : TakesIn(SessionOf[h], F)
<1> DEFINE s == SessionOf[h]
<1>1. s \in Sessions /\ SessionInv /\ h \notin Files
  BY SessionOfChannel, IngestAssumption DEF IngestInv
<1>2. hook[h].fired \in 0 .. MaxFired
  BY DEF IngestInv, PromiseInv
<1>3. PICK i \in 1 .. hook[h].fired :
        \/ UNCHANGED sessionVars
        \/ Ingest(s, {<<h, i>>}, TRUE) /\ UNCHANGED <<file, rd>>
  BY DEF DeliverHook, LoadThrows
<1> DEFINE F == {<<h, i>>}
           fresh == Fresh(s, F)
<1>4. F \in SUBSET Events
  BY <1>2, IngestAssumption
<1>5. CASE UNCHANGED sessionVars
  BY <1>5, StutterQuiet
<1>6. CASE Ingest(s, F, TRUE) /\ UNCHANGED <<file, rd>>
  <2>1. PICK num \in Numberings(fresh, Current(s).next) : Accept(s, F, num, TRUE)
    BY <1>6 DEF Ingest
  <2>2. /\ Takes(s, Numbered(fresh, num))
        /\ \A z \in Sessions \ {s} : Quiet(z)
        /\ fresh = F \ Ids(Known(s))
        /\ \A r \in Known(s) : r.seq \in Nat /\ r.seq < Current(s).next
    <3> HIDE DEF F, s
    <3> QED
      BY <1>1, <1>4, <2>1, AcceptTakes
  <2>3. Current(s).next \in Nat
    BY <1>1, LoadOK DEF CoordinatorType
  <2>4. \A a \in fresh : a[1] \notin Files
    BY <1>1, <2>2
  <2>5. fresh \in SUBSET Events /\ fresh \cap Ids(Known(s)) = {}
    BY <1>4, <2>2
  <2>6. \A g \in Files : \A j : <<g, j>> \notin fresh
    BY <2>4
  <2> HIDE DEF fresh, F, s
  <2>7. TakesIn(s, fresh)
    BY <1>6, <2>1, <2>2, <2>3, <2>4, <2>5, <2>6 DEF TakesIn
  <2> QED
    BY <2>5, <2>7 DEF s
<1> QED
  BY <1>3, <1>5, <1>6

\* The tailer's other steps only begin or end a read, or drop a source.
LEMMA TailerAdvances ==
    ASSUME TailerInv, NEW g \in Files,
           StartRecord(g) \/ EndRecord(g) \/ Rotate(g) \/ ReadNow(g) \/ StartJob(g)
             \/ FinishRead(g) \/ EvictSource(g)
    PROVE  \A f \in Files : Advances(f)
<1>1. /\ file \in [Files -> ContentType] /\ rd \in [Files -> ReadType]
      /\ \A f \in Files : file[f].first \in Nat /\ file[f].n \in Nat
  BY DEF TailerInv, ContentType
<1>2. CASE /\ \A f \in Files \ {g} : file'[f] = file[f] /\ rd'[f] = rd[f]
           /\ Advances(g)
  <2>1. \A f \in Files \ {g} : Advances(f)
    BY <1>1, <1>2 DEF Advances
  <2> QED
    BY <1>2, <2>1
<1>3. CASE StartRecord(g)
  <2>1. file' = [file EXCEPT ![g].half = TRUE] /\ rd' = rd
    BY <1>3 DEF StartRecord
  <2>2. file'[g].first = file[g].first
    BY <1>1, <2>1 DEF ContentType
  <2> QED
    BY <1>1, <1>2, <2>1, <2>2 DEF Advances
<1>4. CASE EndRecord(g)
  <2>1. file' = [file EXCEPT ![g].half = FALSE, ![g].n = @ + 1] /\ rd' = rd
    BY <1>4 DEF EndRecord
  <2>2. file'[g].first = file[g].first
    BY <1>1, <2>1 DEF ContentType
  <2>3. \A f \in Files \ {g} : file'[f] = file[f]
    BY <1>1, <2>1
  <2> QED
    BY <1>1, <1>2, <2>1, <2>2, <2>3 DEF Advances
<1>5. CASE Rotate(g)
  <2>1. PICK drop \in 0 .. file[g].n :
          /\ file' = [file EXCEPT ![g].ino = @ + 1, ![g].first = @ + drop, ![g].n = @ - drop]
          /\ rd' = rd
    BY <1>5 DEF Rotate
  <2>2. file'[g].first = file[g].first + drop
    BY <1>1, <2>1 DEF ContentType
  <2>3. \A f \in Files \ {g} : file'[f] = file[f]
    BY <1>1, <2>1
  <2>4. drop \in Nat /\ file'[g].first >= file[g].first
    BY <1>1, <2>1, <2>2
  <2> QED
    BY <1>1, <1>2, <2>1, <2>3, <2>4 DEF Advances
<1>6. CASE ReadNow(g) \/ StartJob(g) \/ FinishRead(g) \/ EvictSource(g)
  <2>1. /\ file' = file
        /\ \/ rd' = rd
           \/ rd' = [rd EXCEPT ![g] = NotReading]
           \/ \E isJob, whole \in BOOLEAN :
                rd' = [rd EXCEPT ![g] = [busy |-> TRUE, job |-> isJob,
                                         complete |-> whole, snap |-> file[g]]]
    <3>1. rd[g].job \in BOOLEAN /\ rd[g].complete \in BOOLEAN
      BY <1>1 DEF ReadType
    <3>2. CASE ReadNow(g)
      BY <3>2 DEF ReadNow, BeginRead, StopReading
    <3>3. CASE StartJob(g)
      BY <3>3 DEF StartJob, StopReading
    <3>4. CASE FinishRead(g)
      BY <3>1, <3>4 DEF FinishRead, BeginRead, StopReading
    <3>5. CASE EvictSource(g)
      BY <3>5 DEF EvictSource
    <3> QED
      BY <1>6, <3>2, <3>3, <3>4, <3>5
  <2>2. ~NotReading.busy
    BY NotReadingType
  <2>3. \A f \in Files \ {g} : file'[f] = file[f] /\ rd'[f] = rd[f]
    BY <1>1, <2>1
  <2>4. file'[g] = file[g] /\ (rd'[g] = rd[g] \/ (rd'[g].busy => rd'[g].snap = file[g]))
    BY <1>1, <2>1, <2>2
  <2>5. Advances(g)
    BY <1>1, <2>4 DEF Advances
  <2> QED
    BY <1>2, <2>3, <2>5
<1> QED
  BY <1>3, <1>4, <1>5, <1>6

\* In every step no session takes anything in, or one takes in a batch.
LEMMA NextTakes ==
    ASSUME Healthy, IngestInv, [Next]_vars
    PROVE  \/ AllQuiet /\ \A f \in Files : Advances(f)
           \/ \E s \in Sessions, F \in SUBSET Events : TakesIn(s, F)
<1>1. SessionInv /\ TailerInv
  BY DEF IngestInv
<1>2. ASSUME UNCHANGED <<file, rd>>
      PROVE  \A f \in Files : Advances(f)
  BY <1>1, <1>2 DEF Advances, TailerInv, ContentType
<1>3. CASE UNCHANGED vars
  <2>1. UNCHANGED sessionVars /\ UNCHANGED <<file, rd>>
    BY <1>3 DEF vars, sessionVars
  <2> QED
    BY <1>2, <2>1, StutterQuiet
<1>4. ASSUME NEW f \in Files, FileStep(f)
      PROVE  \/ AllQuiet /\ \A g \in Files : Advances(g)
             \/ \E s \in Sessions, F \in SUBSET Events : TakesIn(s, F)
  <2>1. CASE ReadChunk(f)
    <3>1. AllQuiet \/ \E F \in SUBSET Events : TakesIn(SessionOf[f], F)
      BY <1>1, <2>1, ReadChunkTakes
    <3>2. UNCHANGED file /\ (UNCHANGED rd \/ StopReading(f))
      BY <2>1 DEF ReadChunk
    <3>3. \A g \in Files : Advances(g)
      <4>1. ~NotReading.busy
        BY NotReadingType
      <4> QED
        BY <1>1, <1>2, <3>2, <4>1 DEF Advances, StopReading, TailerInv, ContentType
    <3> QED
      BY <3>1, <3>3, SessionOfChannel
  <2>2. CASE FinishRead(f)
    <3>1. AllQuiet
      <4> DEFINE s == SessionOf[f]
      <4>1. s \in Sessions /\ tomb' = tomb
        BY <2>2, SessionOfChannel DEF FinishRead
      <4>2. CASE ~co[s].live
        <5>1. UNCHANGED <<co, rows>>
          BY <2>2, <4>2 DEF FinishRead
        <5> QED
          BY <4>1, <5>1, StillQuiet DEF AllQuiet
      <4>3. CASE co[s].live
        <5>1. PICK ok \in BOOLEAN : Persist(s, co[s], ok)
          BY <2>2, <4>3 DEF FinishRead, FlushOutcome, Outcome
        <5>2. co[s] \in CoordinatorType /\ Continues(rows[s], co[s])
          BY <1>1, <4>1, <4>3 DEF SessionInv, SessionOK
        <5>3. /\ Known(s)' = rows[s] \cup co[s].pend
              /\ rows'[s] \in {rows[s], rows[s] \cup co[s].pend}
              /\ \A z \in Sessions \ {s} : Quiet(z)
          BY <1>1, <4>1, <4>3, <5>1, <5>2, PersistKnown
        <5>4. Quiet(s)
          BY <4>1, <4>3, <5>3 DEF Quiet, Known
        <5> QED
          BY <5>3, <5>4 DEF AllQuiet
      <4> QED
        BY <4>2, <4>3
    <3> QED
      BY <1>1, <2>2, <3>1, TailerAdvances
  <2>3. CASE ~ReadChunk(f) /\ ~FinishRead(f)
    <3>1. UNCHANGED sessionVars
      <4>1. CASE StartRecord(f) \/ EndRecord(f) \/ Rotate(f)
        BY <4>1 DEF StartRecord, EndRecord, Rotate
      <4>2. CASE ReadNow(f)
        BY <4>2 DEF ReadNow
      <4>3. CASE StartJob(f)
        BY <4>3 DEF StartJob
      <4>4. CASE EvictSource(f)
        BY <4>4 DEF EvictSource
      <4> QED
        BY <1>4, <2>3, <4>1, <4>2, <4>3, <4>4 DEF FileStep
    <3> QED
      BY <1>1, <1>4, <2>3, <3>1, StutterQuiet, TailerAdvances DEF FileStep
  <2> QED
    BY <2>1, <2>2, <2>3
<1>5. ASSUME NEW h \in Hooks, FireHook(h) \/ DeliverHook(h)
      PROVE  \/ AllQuiet /\ \A g \in Files : Advances(g)
             \/ \E s \in Sessions, F \in SUBSET Events : TakesIn(s, F)
  <2>1. UNCHANGED <<file, rd>>
    BY <1>5 DEF FireHook, DeliverHook
  <2>2. CASE FireHook(h)
    BY <1>2, <2>1, <2>2, StutterQuiet DEF FireHook
  <2>3. CASE DeliverHook(h)
    BY <1>2, <2>1, <2>3, DeliverHookTakes, SessionOfChannel
  <2> QED
    BY <1>5, <2>2, <2>3
<1>6. CASE \/ \E s \in Sessions : SessionStep(s) \/ ForgetSession(s)
           \/ Retention \/ Pause \/ Resume \/ BeginStop
  <2>1. UNCHANGED <<file, rd>>
    BY <1>6 DEF SessionStep, ForgetSession, Retention, Pause, Resume, BeginStop, ingestVars
  <2>2. AllQuiet
    <3>1. ASSUME NEW s \in Sessions, SessionStep(s) \/ ForgetSession(s)
          PROVE  AllQuiet
      BY <1>1, <3>1, BackgroundQuiet, EvictQuiet, ForgetQuiet
         DEF SessionStep, IdleEvict, ForgetSession
    <3>2. CASE Retention
      BY <1>1, <3>2, ApplyRetentionQuiet DEF Retention
    <3>3. CASE Pause \/ Resume \/ BeginStop
      BY <3>3, StutterQuiet DEF Pause, Resume, BeginStop
    <3> QED
      BY <1>6, <3>1, <3>2, <3>3
  <2> QED
    BY <1>2, <2>1, <2>2
<1>7. CASE RestartDaemon
  <2>1. AllQuiet
    BY <1>7, RestartQuiet DEF RestartDaemon
  <2>2. \A f \in Files : file'[f] = file[f] /\ ~rd'[f].busy
    BY <1>7, NotReadingType DEF RestartDaemon
  <2> QED
    BY <2>1, <2>2 DEF Advances
<1> QED
  BY <1>3, <1>4, <1>5, <1>6, <1>7 DEF Next

\* No record can be stored behind a later one of its file: the inductive
\* invariant the order of the log follows from.
THEOREM OrderInvariant ==
    ASSUME Healthy
    PROVE  Spec => []OrderInv
<1>1. Init => OrderInv
  <2> SUFFICES ASSUME Init PROVE OrderInv
    OBVIOUS
  <2>1. \A s \in Sessions : rows[s] = {} /\ Known(s) = {}
    BY NotLoadedType DEF Init, SessionInit, Known
  <2>2. InOrder({})
    BY DEF InOrder, Ordered, ClosedFrom, Ids
  <2>3. \A f \in Files : ~rd[f].busy
    BY NotReadingType DEF Init
  <2> QED
    BY <2>1, <2>2, <2>3 DEF OrderInv
<1>2. IngestInv /\ IngestInv' /\ OrderInv /\ [Next]_vars => OrderInv'
  <2> SUFFICES ASSUME IngestInv, IngestInv', OrderInv, [Next]_vars
               PROVE  OrderInv'
    OBVIOUS
  <2>1. SessionInv /\ SessionInv' /\ TailerInv /\ TailerInv'
    BY DEF IngestInv
  <2>2. \/ AllQuiet /\ \A f \in Files : Advances(f)
        \/ \E s \in Sessions, F \in SUBSET Events : TakesIn(s, F)
    BY NextTakes
  <2> QED
    BY <2>1, <2>2, AllQuietKeeps, TakingKeeps
<1> QED
  BY <1>1, <1>2, IngestInvariant, PTL DEF Spec

\* Records of one file are stored in the order of the file, however often it
\* is read again from byte 0 and whatever was lost in between.
THEOREM FilesInOrder ==
    ASSUME Healthy
    PROVE  Spec => []FileOrder
<1>1. OrderInv => FileOrder
  BY DEF OrderInv, InOrder, Ordered, FileOrder
<1> QED
  BY <1>1, OrderInvariant, PTL

\* The durable log implements the specification EventLog: whatever fails or
\* restarts, it only has events appended, each of them once, until the session
\* is erased for good.
THEOREM LogKeepsPromise ==
    ASSUME Healthy
    PROVE  Spec => KeepsPromise
<1> DEFINE Kept == \A s \in Sessions :
                      [Promised(s)!Next]_<<DurableLog(s), tomb[s]>>
<1>1. Init => \A s \in Sessions : Promised(s)!Init
  <2> SUFFICES ASSUME Init, NEW s \in Sessions
               PROVE  Promised(s)!Init
    OBVIOUS
  <2>1. rows[s] = {} /\ tomb[s] = FALSE
    BY DEF Init, SessionInit
  <2>2. Cardinality({}) = 0
    BY FS_EmptySet
  <2> QED
    BY <2>1, <2>2 DEF Promised!Init, DurableLog
<1>2. ASSUME IngestInv, IngestInv', [Next]_vars
      PROVE  Kept
  <2>1. SessionInv /\ SessionInv'
    BY <1>2 DEF IngestInv
  <2>2. \/ AllQuiet
        \/ \E s \in Sessions, F \in SUBSET Events : TakesIn(s, F)
    BY <1>2, NextTakes
  <2>3. ASSUME NEW s \in Sessions
        PROVE  Promising(s)
    <3>1. CASE AllQuiet
      BY <2>1, <3>1, QuietPromises DEF AllQuiet
    <3>2. ASSUME NEW z \in Sessions, NEW F \in SUBSET Events, TakesIn(z, F)
          PROVE  Promising(s)
      <4>1. CASE s = z
        BY <3>2, <4>1, TakingPromises DEF TakesIn
      <4>2. CASE s # z
        BY <2>1, <3>2, <4>2, QuietPromises DEF TakesIn
      <4> QED
        BY <4>1, <4>2
    <3> QED
      BY <2>2, <3>1, <3>2
  <2> QED
    BY <2>1, <2>3, PromisingStep
<1>3. IngestInv /\ IngestInv' /\ [Next]_vars => [Kept]_sessionVars
  BY <1>2
<1>4. (\A s \in Sessions : Promised(s)!Init) /\ [][Kept]_sessionVars => KeepsPromise
  BY PTL DEF KeepsPromise
<1> HIDE DEF Kept
<1> QED
  BY <1>1, <1>3, <1>4, IngestInvariant, PTL DEF Spec

=============================================================================
