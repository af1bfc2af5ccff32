--------------------------- MODULE KeepingProofs ----------------------------
(***************************************************************************)
(* The theorems about what is kept and what is deleted: sessions under a   *)
(* retention policy, for any policies, sessions and days; the rows of a    *)
(* store that is optimized, for any number of operations and writes; and   *)
(* the rows of a store that is upgraded, for any rows, crashes and         *)
(* versions it came from.                                                  *)
(***************************************************************************)
EXTENDS Retention, Maintenance, StoreUpgrade, FiniteSetTheorems, SequenceTheorems, TLAPS

-----------------------------------------------------------------------------
(* Retention                                                               *)

Statuses == {"none", "idle", "working"}
Deleters == {"none", "swept", "unseen", "applied", "forgotten"}
Stored == [last : Int, status : Statuses]
Written == [day : Int, status : Statuses, missed : BOOLEAN]
ChoiceRecords == [policy : Policies, made : Nat, written : Nat]

\* Types of the store's rows, pins and tombstones, of the policy and of the
\* daemon that sweeps.
RetentionTypeOK ==
    /\ day \in Nat
    /\ settings \in Policies \cup {Unset}
    /\ policy \in Policies
    /\ sessionRow \in [KeptSessions -> Stored]
    /\ pins \in SUBSET KeptSessions
    /\ tombstone \in [KeptSessions -> Deleters]
    /\ prepared \in BOOLEAN
    /\ keeper \in {"stopped", "starting", "ready", "blind"}
    /\ collecting \in BOOLEAN
    /\ loaded \in SUBSET KeptSessions
    /\ unread \in [KeptSessions -> Written]
    /\ choice \in ChoiceRecords

\* A deleted session has neither a row nor a coordinator nor a pin.
DeletedIsGone ==
    \A s \in KeptSessions :
        tombstone[s] # "none" => sessionRow[s] = NoSession /\ s \notin loaded \cup pins

\* A daemon that sweeps has read what was written while it was down, as far
\* back as it reads.
ReadyHasRead ==
    keeper = "ready" => \A s \in KeptSessions : unread[s].missed => ~InWindow(s)

\* Coordinators end with their daemon.
StoppedHoldsNone == keeper = "stopped" => loaded = {}

RetentionFacts ==
    /\ DeletedIsGone /\ ReadyHasRead
    /\ StoppedHoldsNone /\ NothingLiveIsSwept

RetentionInv == RetentionTypeOK /\ RetentionFacts

-----------------------------------------------------------------------------
\* Periods are numbers of days; the word for no choice is none of them.
LEMMA PolicyFacts == Policies \subseteq Nat \ {0} /\ Forever \in Policies /\ Unset \notin Policies
<1>1. MaxDay \in Nat /\ Periods \subseteq Nat \ {0}
  BY RetentionAssumption
<1> QED BY <1>1 DEF Policies, Forever, Unset

\* The values for no row and for nothing unread are values of their kinds.
LEMMA StoredFacts ==
    /\ NoSession \in Stored
    /\ NothingUnread \in Written
    /\ NothingUnread.missed = FALSE
BY DEF NoSession, Stored, NothingUnread, Written, Statuses

\* Deleting sessions leaves rows and tombstones of their types.
LEMMA DeletesTypes ==
    ASSUME RetentionTypeOK, NEW gone, NEW by \in Deleters, Deletes(gone, by)
    PROVE  /\ sessionRow' \in [KeptSessions -> Stored]
           /\ tombstone' \in [KeptSessions -> Deleters]
BY StoredFacts DEF RetentionTypeOK, Deletes

\* A choice is recorded with the policy it makes.
LEMMA ChoosesTypes ==
    ASSUME RetentionTypeOK, NEW p \in Policies, Chooses(p)
    PROVE  choice' \in ChoiceRecords
<1>1. choice \in ChoiceRecords
  BY DEF RetentionTypeOK
<1>2. choice' = [choice EXCEPT !.policy = p, !.made = @ + 1]
  BY DEF Chooses
<1>3. choice.made + 1 \in Nat /\ choice.written \in Nat
  BY <1>1 DEF ChoiceRecords
<1>4. choice' = [policy |-> p, made |-> choice.made + 1, written |-> choice.written]
  BY <1>1, <1>2 DEF ChoiceRecords
<1> QED BY <1>3, <1>4 DEF ChoiceRecords

\* Whatever the configuration file says, the policy in force is one.
LEMMA ResolvedTypes ==
    ASSUME RetentionTypeOK, NEW d \in Policies \cup {Unset}
    PROVE  Resolved(d) \in Policies
BY DEF Resolved, RetentionTypeOK

\* What a harness writes of a session is of its type.
LEMMA WrittenTypes ==
    ASSUME RetentionTypeOK, NEW s \in KeptSessions, NEW status \in {"working", "idle"}
    PROVE  [day |-> day, status |-> status, missed |-> keeper = "stopped" \/ (unread[s].missed /\ InWindow(s))]
             \in Written
<1>1. (unread[s].missed \/ keeper = "stopped") \in BOOLEAN
  OBVIOUS
<1>2. day \in Int /\ status \in Statuses
  BY DEF RetentionTypeOK, Statuses
<1> QED BY <1>1, <1>2 DEF Written

\* It is still of its type once it was missed.
LEMMA MissedTypes ==
    ASSUME NEW w \in Written
    PROVE  [w EXCEPT !.missed = TRUE] \in Written
BY DEF Written

\* What is read of it is a row.
LEMMA ReadTypes ==
    ASSUME NEW w \in Written
    PROVE  [last |-> w.day, status |-> w.status] \in Stored
BY DEF Written, Stored

\* Every step keeps the types.
LEMMA RetentionTypes ==
    ASSUME RetentionTypeOK, RetentionNext
    PROVE  RetentionTypeOK'
<1> USE PolicyFacts
<1>k. choice.policy \in Policies
  BY DEF RetentionTypeOK, ChoiceRecords
<1>1. CASE StartKeeper
  <2>1. settings' \in Policies \cup {Unset}
    BY <1>1 DEF StartKeeper, RetentionTypeOK
  <2> QED BY <1>1, <2>1, ResolvedTypes DEF StartKeeper, RetentionTypeOK, storedVars
<1>2. CASE StopKeeper
  <2>1. \A s \in KeptSessions : unread[s] \in Written /\ [unread[s] EXCEPT !.missed = TRUE] \in Written
    BY MissedTypes DEF RetentionTypeOK
  <2>2. unread' \in [KeptSessions -> Written]
    BY <1>2, <2>1 DEF StopKeeper
  <2> QED BY <1>2, <2>2 DEF StopKeeper, RetentionTypeOK, storedVars
<1>3. CASE BackfillCompletes
  BY <1>3 DEF BackfillCompletes, RetentionTypeOK, storedVars
<1>4. CASE Prepares
  BY <1>4 DEF Prepares, RetentionTypeOK, storedVars
<1>5. CASE NextDay
  BY <1>5 DEF NextDay, RetentionTypeOK, storedVars
<1>6. CASE ConfigReset
  BY <1>6, ResolvedTypes, ChoosesTypes DEF ConfigReset, RetentionTypeOK, storedVars
<1>7. CASE PauseOrResume
  <2>1. choice' \in ChoiceRecords
    BY <1>7, <1>k, ChoosesTypes DEF PauseOrResume
  <2>2. (~collecting) \in BOOLEAN
    OBVIOUS
  <2> QED BY <1>7, <2>1, <2>2 DEF PauseOrResume, RetentionTypeOK, storedVars
<1>8. CASE Sweep
  <2>1. PICK batch : Deletes(batch, IF keeper = "blind" THEN "unseen" ELSE "swept")
    BY <1>8 DEF Sweep
  <2>2. (IF keeper = "blind" THEN "unseen" ELSE "swept") \in Deleters
    BY DEF Deleters
  <2> QED BY <1>8, <2>1, <2>2, DeletesTypes DEF Sweep, RetentionTypeOK
<1>9. CASE ApplyOffline
  <2>1. PICK batch : Deletes(batch, "applied")
    BY <1>9 DEF ApplyOffline
  <2>2. "applied" \in Deleters
    BY DEF Deleters
  <2> QED BY <1>9, <2>1, <2>2, DeletesTypes DEF ApplyOffline, RetentionTypeOK
<1>10. ASSUME NEW p \in Policies, ConfigSet(p)
       PROVE  RetentionTypeOK'
  BY <1>10, ResolvedTypes, ChoosesTypes DEF ConfigSet, RetentionTypeOK, storedVars
<1>11. ASSUME NEW p \in Policies, RetentionSet(p)
       PROVE  RetentionTypeOK'
  BY <1>11, ChoosesTypes DEF RetentionSet, RetentionTypeOK, storedVars
<1>12. ASSUME NEW s \in KeptSessions, Reads(s)
       PROVE  RetentionTypeOK'
  <2>1. unread' \in [KeptSessions -> Written]
    BY <1>12, StoredFacts DEF Reads, RetentionTypeOK
  <2>2. sessionRow' \in [KeptSessions -> Stored] /\ loaded' \in SUBSET KeptSessions
    <3>1. unread[s] \in Written
      BY DEF RetentionTypeOK
    <3>2. [last |-> unread[s].day, status |-> unread[s].status] \in Stored
      BY <3>1, ReadTypes
    <3> QED BY <1>12, <3>2 DEF Reads, RetentionTypeOK
  <2> QED BY <1>12, <2>1, <2>2 DEF Reads, RetentionTypeOK
<1>13. ASSUME NEW s \in KeptSessions, Evicts(s)
       PROVE  RetentionTypeOK'
  BY <1>13 DEF Evicts, RetentionTypeOK, storedVars
<1>14. ASSUME NEW s \in KeptSessions, ForgetKept(s)
       PROVE  RetentionTypeOK'
  <2>1. "forgotten" \in Deleters
    BY DEF Deleters
  <2>2. choice' \in ChoiceRecords
    BY <1>14, <1>k, ChoosesTypes DEF ForgetKept
  <2> QED BY <1>14, <2>1, <2>2, DeletesTypes DEF ForgetKept, RetentionTypeOK
<1>15. ASSUME NEW s \in KeptSessions, Pin(s)
       PROVE  RetentionTypeOK'
  <2>2. choice' \in ChoiceRecords
    BY <1>15, <1>k, ChoosesTypes DEF Pin
  <2> QED BY <1>15, <2>2 DEF Pin, RetentionTypeOK
<1>16. ASSUME NEW s \in KeptSessions, NEW status \in {"working", "idle"}, Writes(s, status)
       PROVE  RetentionTypeOK'
  <2>1. PICK w : w = [day |-> day, status |-> status, missed |-> keeper = "stopped" \/ (unread[s].missed /\ InWindow(s))]
    OBVIOUS
  <2>2. w \in Written
    BY <2>1, WrittenTypes
  <2>3. unread' = [unread EXCEPT ![s] = w]
    BY <1>16, <2>1 DEF Writes
  <2>4. unread' \in [KeptSessions -> Written]
    BY <2>2, <2>3 DEF RetentionTypeOK
  <2>5. choice' = [choice EXCEPT !.written = @ + 1]
    BY <1>16 DEF Writes
  <2>6. choice \in ChoiceRecords
    BY DEF RetentionTypeOK
  <2>7. choice' \in ChoiceRecords
    BY <2>5, <2>6 DEF ChoiceRecords
  <2> QED BY <1>16, <2>4, <2>7 DEF Writes, RetentionTypeOK, storedVars
<1> QED
  BY <1>1, <1>2, <1>3, <1>4, <1>5, <1>6, <1>7, <1>8, <1>9, <1>10, <1>11, <1>12, <1>13, <1>14,
     <1>15, <1>16 DEF RetentionNext

-----------------------------------------------------------------------------
\* A step that touches no session.
LeavesSessions == UNCHANGED <<day, sessionRow, pins, tombstone, loaded, unread>>

\* A step that touches no session keeps the facts about them, whatever it does
\* to the policy or to a stopped daemon.
LEMMA CalmSteps ==
    ASSUME RetentionInv, LeavesSessions,
           keeper' = keeper \/ (keeper = "stopped" /\ keeper' = "starting")
    PROVE  RetentionFacts'
BY DEF RetentionInv, LeavesSessions, RetentionFacts, DeletedIsGone,
       ReadyHasRead, StoppedHoldsNone, NothingLiveIsSwept, InWindow

\* Deleting sessions that are neither loaded nor pinned keeps the facts; only a
\* daemon that has read what it missed deletes as a sweep (retention sweep,
\* forget, apply).
LEMMA DeletionSteps ==
    ASSUME RetentionInv, NEW gone \in SUBSET InStore, NEW by \in Deleters, Deletes(gone, by),
           UNCHANGED <<day, keeper, unread>>,
           pins' \in SUBSET pins, loaded' \in SUBSET loaded,
           gone \cap (pins' \cup loaded') = {},
           by = "swept" => keeper = "ready"
    PROVE  RetentionFacts'
<1>1. \A s \in KeptSessions :
         /\ tombstone'[s] = IF s \in gone THEN by ELSE tombstone[s]
         /\ sessionRow'[s] = IF s \in gone THEN NoSession ELSE sessionRow[s]
  BY DEF Deletes
<1>2. DeletedIsGone'
  BY <1>1 DEF DeletedIsGone, RetentionInv, RetentionFacts
<1>3. NothingLiveIsSwept'
  BY <1>1 DEF NothingLiveIsSwept, RetentionInv, RetentionFacts, ReadyHasRead, InWindow
<1>4. (ReadyHasRead /\ StoppedHoldsNone)'
  BY DEF RetentionInv, RetentionFacts, ReadyHasRead, StoppedHoldsNone, InWindow
<1> QED BY <1>2, <1>3, <1>4 DEF RetentionFacts

\* Reading a transcript revives the row of its session or finds its tombstone.
LEMMA ReadSteps ==
    ASSUME RetentionInv, NEW s \in KeptSessions, Reads(s)
    PROVE  RetentionFacts'
<1> USE DEF RetentionInv, RetentionFacts
<1>1. unread' = [unread EXCEPT ![s] = NothingUnread] /\ unread \in [KeptSessions -> Written]
  BY DEF Reads, RetentionTypeOK
<1>2. \A t \in KeptSessions : unread'[t].missed => t # s /\ unread[t].missed /\ unread'[t] = unread[t]
  BY <1>1, StoredFacts
<1>3. \A t \in KeptSessions : tombstone[t] # "none" =>
         sessionRow'[t] = sessionRow[t] /\ (t \in loaded' => t \in loaded)
  BY DEF Reads, RetentionTypeOK
<1>4. UNCHANGED <<day, pins, tombstone, keeper>> /\ keeper # "stopped"
  BY DEF Reads
<1>5. DeletedIsGone'
  BY <1>3, <1>4 DEF DeletedIsGone
<1>6. ReadyHasRead' /\ StoppedHoldsNone'
  BY <1>2, <1>4 DEF ReadyHasRead, StoppedHoldsNone, InWindow
<1>7. NothingLiveIsSwept'
  BY <1>2, <1>3, <1>4 DEF NothingLiveIsSwept, InWindow
<1> QED BY <1>5, <1>6, <1>7

\* A harness writes a session, and a running daemon reads it or not.
LEMMA WriteSteps ==
    ASSUME RetentionInv, NEW s \in KeptSessions, NEW status \in {"working", "idle"},
           Writes(s, status)
    PROVE  RetentionFacts'
<1> USE DEF RetentionInv, RetentionFacts
<1>1. PICK w : w = [day |-> day, status |-> status, missed |-> keeper = "stopped" \/ (unread[s].missed /\ InWindow(s))]
  OBVIOUS
<1>2. w.day = day /\ (w.missed => keeper = "stopped" \/ (unread[s].missed /\ InWindow(s)))
  BY <1>1
<1>3. unread' = [unread EXCEPT ![s] = w] /\ unread \in [KeptSessions -> Written]
  BY <1>1 DEF Writes, RetentionTypeOK
<1>4. \A t \in KeptSessions : t # s => unread'[t] = unread[t]
  BY <1>3
<1>5. unread'[s] = w
  BY <1>3
<1>6. UNCHANGED <<day, sessionRow, pins, tombstone, keeper, loaded>> /\ tombstone[s] = "none"
  BY DEF Writes, storedVars
<1>8. ReadyHasRead'
  BY <1>2, <1>4, <1>5, <1>6 DEF ReadyHasRead, InWindow
<1>9. NothingLiveIsSwept'
  BY <1>4, <1>6 DEF NothingLiveIsSwept, InWindow
<1> QED BY <1>6, <1>8, <1>9 DEF DeletedIsGone, StoppedHoldsNone

\* A daemon stops or dies: what is written from now on is missed.
LEMMA StopSteps ==
    ASSUME RetentionInv, StopKeeper
    PROVE  RetentionFacts'
<1> USE DEF RetentionInv, RetentionFacts
<1>1. UNCHANGED <<day, sessionRow, pins, tombstone>> /\ keeper' = "stopped" /\ loaded' = {}
  BY DEF StopKeeper, storedVars
<1>2. \A s \in KeptSessions : unread'[s] =
         IF unread[s] = NothingUnread \/ tombstone[s] # "none" THEN unread[s]
         ELSE [unread[s] EXCEPT !.missed = TRUE]
  BY DEF StopKeeper
<1>3. \A s \in KeptSessions : tombstone[s] # "none" => unread'[s] = unread[s]
  BY <1>2
<1>4. NothingLiveIsSwept'
  BY <1>1, <1>3 DEF NothingLiveIsSwept, InWindow
<1> QED BY <1>1, <1>4 DEF DeletedIsGone, StoppedHoldsNone, ReadyHasRead

\* At the end of the backfill nothing missed is unread that is as recent as
\* what it reads.
LEMMA BackfillSteps ==
    ASSUME RetentionInv, BackfillCompletes
    PROVE  RetentionFacts'
<1> USE DEF RetentionInv, RetentionFacts
<1>1. UNCHANGED <<day, sessionRow, pins, tombstone, loaded, unread>>
  BY DEF BackfillCompletes, storedVars
<1>2. ReadyHasRead'
  BY <1>1 DEF BackfillCompletes, ReadyHasRead, InWindow
<1>3. keeper' \in {"ready", "blind"} /\ keeper = "starting"
  BY DEF BackfillCompletes
<1> QED BY <1>1, <1>2, <1>3 DEF DeletedIsGone, StoppedHoldsNone, NothingLiveIsSwept, InWindow

\* A coordinator is evicted, a session pinned.
LEMMA OtherSteps ==
    ASSUME RetentionInv, NEW s \in KeptSessions, Evicts(s) \/ Pin(s)
    PROVE  RetentionFacts'
<1> USE DEF RetentionInv, RetentionFacts
<1>1. CASE Evicts(s)
  <2>1. loaded' \subseteq loaded /\ UNCHANGED <<day, sessionRow, pins, tombstone, keeper, unread>>
    BY <1>1 DEF Evicts, storedVars
  <2> QED
    BY <2>1 DEF DeletedIsGone, StoppedHoldsNone, NothingLiveIsSwept, ReadyHasRead, InWindow
<1>2. CASE Pin(s)
  <2>1. /\ s \in InStore /\ pins' \subseteq pins \cup {s}
        /\ UNCHANGED <<day, sessionRow, tombstone, keeper, loaded, unread>>
    BY <1>2 DEF Pin
  <2>2. tombstone[s] = "none"
    BY <2>1 DEF DeletedIsGone, InStore
  <2> QED
    BY <2>1, <2>2 DEF DeletedIsGone, StoppedHoldsNone, NothingLiveIsSwept, ReadyHasRead, InWindow
<1> QED BY <1>1, <1>2

\* A day passes.
LEMMA DaySteps ==
    ASSUME RetentionInv, NextDay
    PROVE  RetentionFacts'
<1> USE DEF RetentionInv, RetentionFacts
<1>1. day' = day + 1 /\ day \in Nat /\ UNCHANGED <<sessionRow, pins, tombstone, keeper, loaded, unread>>
  BY DEF NextDay, storedVars, RetentionTypeOK
<1>2. \A s \in KeptSessions : ~InWindow(s) => ~InWindow(s)'
  <2>1. \A s \in KeptSessions : unread[s].day \in Int
    BY DEF RetentionTypeOK, Written
  <2>2. HistoryDays \in Nat
    BY RetentionAssumption
  <2> QED BY <1>1, <2>1, <2>2 DEF InWindow
<1> QED
  BY <1>1, <1>2 DEF DeletedIsGone, StoppedHoldsNone, NothingLiveIsSwept, ReadyHasRead, InWindow

\* The daemon's sweep, and the one of the offline command.
LEMMA SweepSteps ==
    ASSUME RetentionInv, Sweep \/ ApplyOffline
    PROVE  RetentionFacts'
<1> USE DEF RetentionInv, RetentionFacts
<1>1. CASE Sweep
  <2>1. PICK batch : /\ Oldest(Candidates(loaded), batch)
                     /\ Deletes(batch, IF keeper = "blind" THEN "unseen" ELSE "swept")
    BY <1>1 DEF Sweep
  <2>2. batch \subseteq InStore \ (pins \cup loaded)
    BY <2>1 DEF Oldest, Candidates
  <2>3. PICK by \in Deleters : by = IF keeper = "blind" THEN "unseen" ELSE "swept"
    BY DEF Deleters
  <2>4. by = "swept" => keeper = "ready"
    BY <1>1, <2>3 DEF Sweep, MaySweep
  <2>5. UNCHANGED <<day, keeper, unread, pins, loaded>>
    BY <1>1 DEF Sweep
  <2> QED BY <2>1, <2>2, <2>3, <2>4, <2>5, DeletionSteps
<1>2. CASE ApplyOffline
  <2>1. PICK batch : Oldest(Candidates({}), batch) /\ Deletes(batch, "applied")
    BY <1>2 DEF ApplyOffline
  <2>2. batch \subseteq InStore \ pins
    BY <2>1 DEF Oldest, Candidates
  <2>3. loaded = {}
    BY <1>2 DEF ApplyOffline, StoppedHoldsNone
  <2>4. "applied" \in Deleters
    BY DEF Deleters
  <2>5. UNCHANGED <<day, keeper, unread, pins, loaded>>
    BY <1>2 DEF ApplyOffline
  <2> QED BY <2>1, <2>2, <2>3, <2>4, <2>5, DeletionSteps
<1> QED BY <1>1, <1>2

\* A session is forgotten on request.
LEMMA ForgetSteps ==
    ASSUME RetentionInv, NEW s \in KeptSessions, ForgetKept(s)
    PROVE  RetentionFacts'
<1>1. Deletes({s}, "forgotten") /\ s \in InStore /\ "forgotten" \in Deleters
  BY DEF ForgetKept, Deleters
<1>2. pins' = pins \ {s} /\ loaded' = loaded \ {s} /\ UNCHANGED <<day, keeper, unread>>
  BY DEF ForgetKept
<1> QED BY <1>1, <1>2, DeletionSteps

\* The steps that touch no session: starting, preparing, choosing a policy,
\* pausing.
LEMMA CalmActions ==
    ASSUME RetentionInv, NEW p \in Policies,
           \/ StartKeeper \/ Prepares \/ ConfigReset \/ PauseOrResume
           \/ ConfigSet(p) \/ RetentionSet(p)
    PROVE  RetentionFacts'
<1>1. LeavesSessions
  BY DEF StartKeeper, Prepares, ConfigReset, PauseOrResume, ConfigSet, RetentionSet,
         storedVars, LeavesSessions
<1>2. keeper' = keeper \/ (keeper = "stopped" /\ keeper' = "starting")
  BY DEF StartKeeper, Prepares, ConfigReset, PauseOrResume, ConfigSet, RetentionSet
<1> QED BY <1>1, <1>2, CalmSteps

\* Every step keeps the invariant.
LEMMA RetentionSteps ==
    ASSUME RetentionInv, RetentionNext
    PROVE  RetentionInv'
<1>1. RetentionTypeOK'
  BY RetentionTypes DEF RetentionInv
<1>2. Forever \in Policies
  BY PolicyFacts
<1>3. CASE StartKeeper \/ Prepares \/ ConfigReset \/ PauseOrResume
  BY <1>3, <1>2, <1>1, CalmActions DEF RetentionInv
<1>4. ASSUME NEW p \in Policies, ConfigSet(p) \/ RetentionSet(p)
      PROVE  RetentionInv'
  BY <1>4, <1>1, CalmActions DEF RetentionInv
<1>5. CASE StopKeeper
  BY <1>5, <1>1, StopSteps DEF RetentionInv
<1>6. CASE BackfillCompletes
  BY <1>6, <1>1, BackfillSteps DEF RetentionInv
<1>7. CASE Sweep \/ ApplyOffline
  BY <1>7, <1>1, SweepSteps DEF RetentionInv
<1>8. CASE NextDay
  BY <1>8, <1>1, DaySteps DEF RetentionInv
<1>9. ASSUME NEW s \in KeptSessions, Reads(s) \/ Evicts(s) \/ ForgetKept(s) \/ Pin(s)
      PROVE  RetentionInv'
  BY <1>9, <1>1, ReadSteps, OtherSteps, ForgetSteps DEF RetentionInv
<1>10. ASSUME NEW s \in KeptSessions, NEW status \in {"working", "idle"}, Writes(s, status)
       PROVE  RetentionInv'
  BY <1>10, <1>1, WriteSteps DEF RetentionInv
<1> QED
  BY <1>3, <1>4, <1>5, <1>6, <1>7, <1>8, <1>9, <1>10 DEF RetentionNext

\* Before a daemon sweeps it has read what is recent; rows, tombstones,
\* coordinators and pins agree in every reachable state (sqliteStore.ts,
\* registry.ts, daemon.ts).
THEOREM RetentionInvariant == RetentionSpec => []RetentionInv
<1>1. RetentionInit => RetentionInv
  <2> SUFFICES ASSUME RetentionInit PROVE RetentionInv
    OBVIOUS
  <2>1. [last |-> 0, status |-> "idle"] \in Stored
    BY DEF Stored, Statuses
  <2>2. "none" \in Deleters
    BY DEF Deleters
  <2>3. [policy |-> Forever, made |-> 0, written |-> 0] \in ChoiceRecords
    BY PolicyFacts DEF ChoiceRecords
  <2>4. RetentionTypeOK
    BY <2>1, <2>2, <2>3, PolicyFacts, StoredFacts DEF RetentionInit, RetentionTypeOK
  <2>6. RetentionFacts
    BY StoredFacts DEF RetentionInit, RetentionFacts, DeletedIsGone,
       StoppedHoldsNone, NothingLiveIsSwept, ReadyHasRead
  <2> QED BY <2>4, <2>6 DEF RetentionInv
<1>2. RetentionInv /\ [RetentionNext]_retentionVars => RetentionInv'
  <2> SUFFICES ASSUME RetentionInv, [RetentionNext]_retentionVars PROVE RetentionInv'
    OBVIOUS
  <2>1. CASE RetentionNext
    BY <2>1, RetentionSteps
  <2>2. CASE UNCHANGED retentionVars
    BY <2>2 DEF retentionVars, storedVars, RetentionInv, RetentionTypeOK, RetentionFacts,
       DeletedIsGone, StoppedHoldsNone, NothingLiveIsSwept, ReadyHasRead, InWindow
  <2> QED BY <2>1, <2>2
<1> QED BY <1>1, <1>2, PTL DEF RetentionSpec

\* No sweep deletes a session that is loaded, or pinned, or that a provider
\* went on with while the daemon was down and within the days it reads back,
\* for any policies, days and sessions.
THEOREM LiveSessionsAreSpared == RetentionSpec => []NothingLiveIsSwept
<1>1. RetentionInv => NothingLiveIsSwept
  BY DEF RetentionInv, RetentionFacts
<1> QED BY <1>1, RetentionInvariant, PTL

-----------------------------------------------------------------------------
(* Maintenance                                                             *)

Steps ==
    {"start", "acquire", "stale", "reclaim", "remake", "name", "begin", "pause", "drain",
     "checkpoint", "optimize", "verify", "probe", "link", "swap", "reopen", "finish",
     "resume", "complete", "undo", "release", "exited", "dead"}
StoreFiles == {"store"} \cup Operations

\* Types of the operations, the lock, the store's files and the daemon's
\* connection.
MaintenanceTypeOK ==
    /\ doing \in [Operations -> Steps]
    /\ mutex \in {"free", "ownerless"} \cup Operations
    /\ path \in StoreFiles
    /\ fileRows \in [StoreFiles -> SUBSET Nat]
    /\ kept \in [Operations -> {"none"} \cup StoreFiles]
    /\ connection \in {"none"} \cup StoreFiles
    /\ committed \in SUBSET Nat /\ IsFiniteSet(committed)

\* Whoever works owns the lock; of those that still acquire it only one is past
\* the first step, and finds it as that step left it.
LockIsOwned ==
    /\ \A o \in Operations : Working(o) => mutex = o
    /\ \A o \in Operations : doing[o] \in {"stale", "reclaim"} => Stale
    /\ \A o \in Operations : doing[o] = "remake" => mutex = "free"
    /\ \A o \in Operations : doing[o] = "name" => mutex = "ownerless"
    /\ \A o, p \in Operations : Acquiring(o) /\ Acquiring(p) => o = p

\* The copy of an operation holds the rows of the store in use.
Copied(o) == path = "store" /\ fileRows[o] = fileRows["store"]

\* From the verification on nobody writes the store, so what is swapped in is
\* what was copied; the rollback link keeps the file that was replaced.
CopyIsWhole ==
    /\ connection \in {"none", path}
    /\ \A o \in Operations :
        /\ doing[o] \in {"verify", "probe"} => path = "store"
        /\ doing[o] = "probe" /\ connection = "none" => Copied(o)
        /\ doing[o] \in {"link", "swap"} => connection = "none" /\ Copied(o)
        /\ doing[o] = "swap" => kept[o] = "store"
        /\ doing[o] = "reopen" =>
             /\ connection = "none" /\ path = o /\ kept[o] = "store"
             /\ fileRows[o] = fileRows["store"]

MaintenanceInv == MaintenanceTypeOK /\ LockIsOwned /\ CopyIsWhole /\ NoRowLost

\* An operation is neither a file nor a state of the lock.
LEMMA NamesApart ==
    /\ "store" \notin Operations /\ "none" \notin Operations
    /\ "free" \notin Operations /\ "ownerless" \notin Operations
BY MaintenanceAssumption

\* An operation acquires the lock, works under it or has ended.
LEMMA LocationFacts ==
    \A o \in Operations :
        /\ Acquiring(o) => ~Working(o) /\ ~Ended(o)
        /\ Working(o) => ~Ended(o) /\ doing[o] # "start"
BY DEF Acquiring, Working, Ended

\* o goes to a step, and no one else moves.
GoesTo(o, x) == doing' = [doing EXCEPT ![o] = x]

\* When an operation moves, the others stay where they are.
LEMMA MovesOne ==
    ASSUME MaintenanceTypeOK, NEW o \in Operations, NEW x, GoesTo(o, x)
    PROVE  /\ doing'[o] = x
           /\ \A p \in Operations \ {o} :
                /\ doing'[p] = doing[p]
                /\ Acquiring(p)' = Acquiring(p)
                /\ Working(p)' = Working(p)
                /\ Ended(p)' = Ended(p)
BY DEF MaintenanceTypeOK, GoesTo, Acquiring, Working, Ended

-----------------------------------------------------------------------------
\* The lock.

\* The owner named in the lock is the only one that works.
LEMMA OneOwnerInside ==
    ASSUME MaintenanceTypeOK, LockIsOwned
    PROVE  OneOwner
BY DEF LockIsOwned, OneOwner

\* The steps taken under the lock.
WorkingStep == Steps \ {"start", "acquire", "stale", "reclaim", "remake", "name", "exited", "dead"}

\* A step of work leaves the lock to its owner.
LEMMA WorkKeepsLock ==
    ASSUME MaintenanceTypeOK, LockIsOwned, NEW o \in Operations, NEW x \in WorkingStep,
           Working(o), GoesTo(o, x), mutex' = mutex
    PROVE  LockIsOwned'
<1>1. /\ ~Acquiring(o)' /\ ~Ended(o)' /\ doing'[o] \notin {"stale", "reclaim", "remake", "name"}
      /\ mutex = o /\ ~Ended(o)
  BY MovesOne DEF WorkingStep, Steps, Acquiring, Ended, LockIsOwned, Working
<1>2. Stale' = Stale
  BY <1>1, MovesOne DEF Stale
<1> QED BY <1>1, <1>2, MovesOne DEF LockIsOwned

\* An operation that ends, by its own steps or killed, frees its lock or leaves
\* it behind.
LEMMA EndKeepsLock ==
    ASSUME MaintenanceTypeOK, LockIsOwned, NEW o \in Operations, NEW x \in {"exited", "dead"},
           GoesTo(o, x), ~Ended(o),
           mutex' = mutex \/ (Working(o) /\ mutex' = "free")
    PROVE  LockIsOwned'
<1>1. ~Acquiring(o)' /\ ~Working(o)' /\ Ended(o)' /\ doing'[o] \notin {"stale", "reclaim", "remake", "name"}
  BY MovesOne DEF Acquiring, Ended, Working
<1>2. \A p \in Operations : Ended(p) => Ended(p)'
  BY <1>1, MovesOne
<1>3. CASE mutex' = mutex
  <2>1. Stale => Stale'
    BY <1>2, <1>3 DEF Stale
  <2> QED BY <1>1, <1>3, <2>1, MovesOne DEF LockIsOwned
<1>4. CASE Working(o) /\ mutex' = "free"
  <2>1. mutex = o /\ ~Stale
    BY <1>4, NamesApart, LocationFacts DEF LockIsOwned, Stale
  <2>2. \A p \in Operations \ {o} : ~Working(p) /\ doing[p] \notin {"stale", "reclaim", "remake", "name"}
    BY <2>1, NamesApart DEF LockIsOwned
  <2> QED BY <1>1, <2>2, MovesOne DEF LockIsOwned
<1> QED BY <1>3, <1>4

\* The steps that look at the lock, take it, find it stale, reclaim it and sign
\* it (maintenanceLock.ts).
LEMMA AcquiringSteps ==
    ASSUME MaintenanceTypeOK, LockIsOwned, ~LocksRace, NEW o \in Operations,
           \/ Preflight(o) \/ Acquire(o) \/ MarkRecovery(o) \/ RemoveStale(o)
           \/ Remake(o) \/ Name(o)
    PROVE  LockIsOwned'
<1> USE DEF Advance, GoesTo
<1>1. CASE Preflight(o)
  <2>1. GoesTo(o, "acquire") /\ mutex' = mutex /\ \A p \in Operations \ {o} : ~Acquiring(p)
    BY <1>1 DEF Preflight
  <2>2. doing[o] = "start"
    BY <1>1 DEF Preflight
  <2>5. doing'[o] = "acquire"
    BY <2>1, MovesOne
  <2>3. Acquiring(o)' /\ ~Working(o)' /\ doing'[o] \notin {"stale", "reclaim", "remake", "name"}
    BY <2>5 DEF Acquiring, Working
  <2>4. Stale => Stale'
    BY <2>1, <2>2, MovesOne DEF Stale, Ended
  <2> QED BY <2>1, <2>3, <2>4, MovesOne DEF LockIsOwned
<1>2. ASSUME Acquiring(o), NEW x \in Steps, GoesTo(o, x)
      PROVE  /\ \A p \in Operations \ {o} : ~Acquiring(p) /\ ~Acquiring(p)'
             /\ \A p \in Operations \ {o} : doing'[p] \notin {"stale", "reclaim", "remake", "name"}
             /\ \A p \in Operations : Ended(p) => Ended(p)'
  <2>1. \A p \in Operations \ {o} : ~Acquiring(p)
    BY <1>2 DEF LockIsOwned
  <2>2. \A p \in Operations : Ended(p) => Ended(p)'
    BY <1>2, MovesOne, LocationFacts
  <2> QED BY <1>2, <2>1, <2>2, MovesOne DEF Acquiring
<1>3. CASE Acquire(o)
  <2>1. Acquiring(o) /\ doing[o] = "acquire"
    BY <1>3 DEF Acquire, Acquiring
  <2>2. CASE mutex = "free"
    <3>1. mutex' = "ownerless" /\ GoesTo(o, "name")
      BY <1>3, <2>2 DEF Acquire
    <3>2. \A p \in Operations : ~Working(p)
      BY <2>2, NamesApart DEF LockIsOwned
    <3>3. Acquiring(o)' /\ ~Working(o)' /\ "name" \in Steps
      BY <3>1, MovesOne DEF Acquiring, Working, Steps
    <3> QED BY <2>1, <3>1, <3>2, <3>3, <1>2, MovesOne DEF LockIsOwned
  <2>3. CASE mutex # "free" /\ Stale
    <3>1. mutex' = mutex /\ GoesTo(o, "stale")
      BY <1>3, <2>3 DEF Acquire
    <3>2. ~Working(o)' /\ "stale" \in Steps
      BY <3>1, MovesOne DEF Acquiring, Working, Steps
    <3>3. Stale'
      BY <2>1, <2>3, <3>1, <3>2, <1>2 DEF Stale
    <3> QED BY <2>1, <3>1, <3>2, <3>3, <1>2, MovesOne DEF LockIsOwned
  <2>4. CASE mutex # "free" /\ ~Stale
    <3>1. mutex' = mutex /\ GoesTo(o, "exited")
      BY <1>3, <2>4 DEF Acquire
    <3> QED BY <2>1, <3>1, EndKeepsLock, LocationFacts
  <2> QED BY <2>2, <2>3, <2>4
<1>4. CASE MarkRecovery(o)
  <2>1. Acquiring(o) /\ mutex' = mutex /\ GoesTo(o, "reclaim") /\ "reclaim" \in Steps /\ Stale
    BY <1>4 DEF MarkRecovery, Acquiring, Steps, LockIsOwned
  <2>2. ~Working(o)' /\ doing'[o] = "reclaim"
    BY <2>1, MovesOne DEF Acquiring, Working
  <2>3. Stale'
    BY <2>1, <1>2 DEF Stale
  <2> QED BY <2>1, <2>2, <2>3, <1>2, MovesOne DEF LockIsOwned
<1>5. CASE RemoveStale(o)
  <2>1. Acquiring(o) /\ mutex' = "free" /\ GoesTo(o, "remake") /\ "remake" \in Steps /\ Stale
    BY <1>5 DEF RemoveStale, Acquiring, Steps, LockIsOwned
  <2>2. ~Working(o)' /\ doing'[o] = "remake"
    BY <2>1, MovesOne DEF Acquiring, Working
  <2>3. \A p \in Operations : ~Working(p)
    BY <2>1, NamesApart, LocationFacts DEF LockIsOwned, Stale
  <2> QED BY <2>1, <2>2, <2>3, <1>2, MovesOne DEF LockIsOwned
<1>6. CASE Remake(o)
  <2>1. Acquiring(o) /\ mutex = "free"
    BY <1>6 DEF Remake, Acquiring, LockIsOwned
  <2>2. mutex' = "ownerless" /\ GoesTo(o, "name") /\ "name" \in Steps
    BY <1>6, <2>1 DEF Remake, Steps
  <2>3. ~Working(o)' /\ doing'[o] = "name"
    BY <2>2, MovesOne DEF Acquiring, Working
  <2>4. \A p \in Operations : ~Working(p)
    BY <2>1, NamesApart DEF LockIsOwned
  <2> QED BY <2>1, <2>2, <2>3, <2>4, <1>2, MovesOne DEF LockIsOwned
<1>7. CASE Name(o)
  <2>1. Acquiring(o) /\ mutex = "ownerless" /\ mutex' = o /\ GoesTo(o, "begin") /\ "begin" \in Steps
    BY <1>7 DEF Name, Acquiring, LockIsOwned, Steps
  <2>4. doing'[o] = "begin"
    BY <2>1, MovesOne
  <2>2. ~Acquiring(o)' /\ doing'[o] = "begin"
    BY <2>4 DEF Acquiring
  <2>3. \A p \in Operations : ~Working(p)
    BY <2>1, NamesApart DEF LockIsOwned
  <2> QED BY <2>1, <2>2, <2>3, <1>2, MovesOne DEF LockIsOwned
<1> QED BY <1>1, <1>3, <1>4, <1>5, <1>6, <1>7

-----------------------------------------------------------------------------
\* The files.

\* Steps at which nothing is claimed of the files.
Quiet == Steps \ {"verify", "probe", "link", "swap", "reopen"}

\* Going to such a step keeps the copies of the others whole.
LEMMA QuietSteps ==
    ASSUME MaintenanceInv, NEW o \in Operations, NEW x \in Quiet, GoesTo(o, x),
           UNCHANGED <<path, fileRows, connection, committed>>,
           \A p \in Operations \ {o} : kept'[p] = kept[p]
    PROVE  CopyIsWhole' /\ NoRowLost'
<1>1. doing'[o] \notin {"verify", "probe", "link", "swap", "reopen"}
  BY MovesOne DEF Quiet, Steps, MaintenanceInv
<1>2. \A p \in Operations \ {o} : doing'[p] = doing[p]
  BY MovesOne DEF MaintenanceInv
<1> QED BY <1>1, <1>2 DEF MaintenanceInv, CopyIsWhole, Copied, NoRowLost

\* The store is copied by VACUUM INTO.
LEMMA CopySteps ==
    ASSUME MaintenanceInv, NEW o \in Operations, Copy(o)
    PROVE  CopyIsWhole' /\ NoRowLost'
<1>1. CASE Optimized
  BY <1>1, QuietSteps DEF Copy, Advance, GoesTo, Quiet, Steps, daemonVars
<1>2. CASE ~Optimized
  <2>1. /\ path = "store" /\ GoesTo(o, "verify") /\ UNCHANGED <<path, kept, connection, committed>>
        /\ fileRows' = [fileRows EXCEPT ![o] = fileRows["store"]]
    BY <1>2 DEF Copy, Advance, GoesTo, daemonVars, Optimized
  <2>2. \A f \in StoreFiles \ {o} : fileRows'[f] = fileRows[f]
    BY <2>1 DEF MaintenanceInv, MaintenanceTypeOK
  <2>3. fileRows'["store"] = fileRows["store"]
    BY <2>2, NamesApart DEF StoreFiles
  <2>4. \A p \in Operations \ {o} : doing'[p] = doing[p] /\ fileRows'[p] = fileRows[p]
    BY <2>1, <2>2, MovesOne DEF MaintenanceInv, StoreFiles
  <2>5. doing'[o] = "verify"
    BY <2>1, MovesOne DEF MaintenanceInv
  <2> QED BY <2>1, <2>3, <2>4, <2>5 DEF MaintenanceInv, CopyIsWhole, Copied, NoRowLost
<1> QED BY <1>1, <1>2

\* The copy is compared with the store.
LEMMA VerifySteps ==
    ASSUME MaintenanceInv, NEW o \in Operations, Verify(o)
    PROVE  CopyIsWhole' /\ NoRowLost'
<1>1. GoesTo(o, "probe") /\ UNCHANGED <<path, fileRows, kept, connection, committed>>
  BY DEF Verify, Advance, GoesTo, fileVars, daemonVars
<1>2. doing'[o] = "probe" /\ \A p \in Operations \ {o} : doing'[p] = doing[p]
  BY <1>1, MovesOne DEF MaintenanceInv
<1>3. Copied(o)
  BY DEF Verify, Verified, Copied, MaintenanceInv, CopyIsWhole
<1> QED BY <1>1, <1>2, <1>3 DEF MaintenanceInv, CopyIsWhole, Copied, NoRowLost

\* The exclusive lock is tried: the daemon has gone, and the copy is of what it
\* left.
LEMMA ProbeSteps ==
    ASSUME MaintenanceInv, NEW o \in Operations, Probe(o)
    PROVE  CopyIsWhole' /\ NoRowLost'
<1>1. GoesTo(o, "link") /\ UNCHANGED <<path, fileRows, kept, connection, committed>>
  BY DEF Probe, Advance, GoesTo, fileVars, daemonVars
<1>2. doing'[o] = "link" /\ \A p \in Operations \ {o} : doing'[p] = doing[p]
  BY <1>1, MovesOne DEF MaintenanceInv
<1>3. connection = "none" /\ Copied(o)
  BY DEF Probe, Exclusive, Copied, MaintenanceInv, CopyIsWhole
<1> QED BY <1>1, <1>2, <1>3 DEF MaintenanceInv, CopyIsWhole, Copied, NoRowLost

\* The store is linked as the rollback.
LEMMA LinkSteps ==
    ASSUME MaintenanceInv, NEW o \in Operations, LinkRollback(o)
    PROVE  CopyIsWhole' /\ NoRowLost'
<1>1. /\ doing[o] = "link" /\ GoesTo(o, "swap") /\ UNCHANGED <<path, fileRows, connection, committed>>
      /\ kept' = [kept EXCEPT ![o] = path]
  BY DEF LinkRollback, Advance, GoesTo, daemonVars
<1>2. doing'[o] = "swap" /\ \A p \in Operations \ {o} : doing'[p] = doing[p] /\ kept'[p] = kept[p]
  BY <1>1, MovesOne DEF MaintenanceInv, MaintenanceTypeOK
<1>3. kept'[o] = path
  BY <1>1 DEF MaintenanceInv, MaintenanceTypeOK
<1>4. connection = "none" /\ Copied(o)
  BY <1>1 DEF MaintenanceInv, CopyIsWhole
<1> QED BY <1>1, <1>2, <1>3, <1>4 DEF MaintenanceInv, CopyIsWhole, Copied, NoRowLost

\* No one else is near the files of the owner.
LEMMA OthersQuiet ==
    ASSUME MaintenanceInv, NEW o \in Operations, Working(o)
    PROVE  \A p \in Operations \ {o} : doing[p] \notin {"verify", "probe", "link", "swap", "reopen"}
BY OneOwnerInside DEF MaintenanceInv, OneOwner, Working, Acquiring, Ended

\* The copy is renamed over the store.
LEMMA SwapSteps ==
    ASSUME MaintenanceInv, NEW o \in Operations, Swap(o)
    PROVE  CopyIsWhole' /\ NoRowLost'
<1>1. /\ doing[o] = "swap" /\ GoesTo(o, "reopen") /\ UNCHANGED <<kept, fileRows, connection, committed>>
      /\ path' = o
  BY DEF Swap, Advance, GoesTo, daemonVars
<1>2. doing'[o] = "reopen" /\ \A p \in Operations \ {o} : doing'[p] = doing[p]
  BY <1>1, MovesOne DEF MaintenanceInv
<1>3. connection = "none" /\ Copied(o) /\ kept[o] = "store"
  BY <1>1 DEF MaintenanceInv, CopyIsWhole
<1>4. \A p \in Operations \ {o} : doing[p] \notin {"verify", "probe", "link", "swap", "reopen"}
  BY <1>1, OthersQuiet DEF Working, Acquiring, Ended
<1> QED BY <1>1, <1>2, <1>3, <1>4 DEF MaintenanceInv, CopyIsWhole, Copied, NoRowLost

\* The replacement is opened and checked, or the rollback put back.
LEMMA ReopenSteps ==
    ASSUME MaintenanceInv, NEW o \in Operations, Reopen(o)
    PROVE  CopyIsWhole' /\ NoRowLost'
<1>1. doing[o] = "reopen" /\ UNCHANGED <<fileRows, connection, committed>>
  BY DEF Reopen, daemonVars
<1>2. PICK x \in Quiet : GoesTo(o, x)
  BY DEF Reopen, Advance, GoesTo, AfterFailure, Quiet, Steps
<1>3. path' = path \/ path' = "store"
  BY <1>1 DEF Reopen, MaintenanceInv, CopyIsWhole
<1>4. path = o /\ connection = "none" /\ fileRows[o] = fileRows["store"]
  BY <1>1 DEF MaintenanceInv, CopyIsWhole
<1>5. doing'[o] \notin {"verify", "probe", "link", "swap", "reopen"}
  BY <1>2, MovesOne DEF MaintenanceInv, Quiet, Steps
<1>6. \A p \in Operations \ {o} : doing'[p] \notin {"verify", "probe", "link", "swap", "reopen"}
  BY <1>1, <1>2, OthersQuiet, MovesOne DEF Working, Acquiring, Ended, MaintenanceInv
<1> QED BY <1>1, <1>3, <1>4, <1>5, <1>6 DEF MaintenanceInv, CopyIsWhole, NoRowLost

\* The daemon opens the store, writes and closes it; it does not start while an
\* operation works.
LEMMA DaemonSteps ==
    ASSUME MaintenanceInv, ~DaemonsRace, StartDaemon \/ WriteRow \/ StopDaemon
    PROVE  CopyIsWhole' /\ NoRowLost'
<1>1. CASE StartDaemon
  <2>1. /\ connection' = path /\ UNCHANGED <<doing, path, fileRows, kept, committed>>
        /\ \A o \in Operations : doing[o] \notin {"link", "swap", "reopen"}
    BY <1>1 DEF StartDaemon, fileVars, Swapping
  <2>2. path # "none"
    BY NamesApart DEF MaintenanceInv, MaintenanceTypeOK, StoreFiles
  <2> QED BY <2>1, <2>2 DEF MaintenanceInv, CopyIsWhole, Copied, NoRowLost
<1>2. CASE WriteRow
  <2>1. PICK row : /\ committed' = committed \cup {row}
                   /\ fileRows' = [fileRows EXCEPT ![connection] = @ \cup {row}]
    BY <1>2 DEF WriteRow
  <2>2. connection = path /\ connection # "none" /\ UNCHANGED <<doing, path, kept, connection>>
    BY <1>2 DEF WriteRow, MaintenanceInv, CopyIsWhole
  <2>3. fileRows'[path] = fileRows[path] \cup {row}
    BY <2>1, <2>2 DEF MaintenanceInv, MaintenanceTypeOK
  <2>4. NoRowLost'
    BY <2>1, <2>2, <2>3 DEF MaintenanceInv, NoRowLost
  <2> QED BY <2>2, <2>4 DEF MaintenanceInv, CopyIsWhole
<1>3. CASE StopDaemon
  <2>1. /\ connection' = "none" /\ UNCHANGED <<doing, path, fileRows, kept, committed>>
        /\ \A o \in Operations : doing[o] # "probe"
    BY <1>3 DEF StopDaemon, fileVars
  <2> QED BY <2>1 DEF MaintenanceInv, CopyIsWhole, Copied, NoRowLost
<1> QED BY <1>1, <1>2, <1>3

-----------------------------------------------------------------------------
\* The steps of the operation that leave the files alone.

\* Every step keeps the types.
LEMMA MaintenanceTypes ==
    ASSUME MaintenanceInv, MaintenanceNext
    PROVE  MaintenanceTypeOK'
<1> USE DEF MaintenanceInv
<1>1. ASSUME NEW o \in Operations, NEW x \in Steps, doing' = [doing EXCEPT ![o] = x]
      PROVE  doing' \in [Operations -> Steps]
  BY <1>1 DEF MaintenanceTypeOK
<1>2. ASSUME NEW o \in Operations, OperationStep(o) \/ KillOperation(o)
      PROVE  \E x \in Steps : doing' = [doing EXCEPT ![o] = x]
  <2>1. CASE \/ Preflight(o) \/ Acquire(o) \/ MarkRecovery(o) \/ RemoveStale(o)
             \/ Remake(o) \/ Name(o) \/ ReleaseMaintenance(o) \/ KillOperation(o)
    BY <2>1 DEF Preflight, Acquire, MarkRecovery, RemoveStale, Remake, Name, ReleaseMaintenance,
         KillOperation, Advance, Steps
  <2>2. CASE \/ Begin(o) \/ PauseCollection(o) \/ PublishReplacement(o) \/ Throw(o) \/ Undo(o)
             \/ Finish(o) \/ Resume(o) \/ Complete(o)
    BY <2>2 DEF Begin, PauseCollection, PublishReplacement, Throw, Undo, Finish, Resume, Complete,
         AfterFailure, Advance, Steps
  <2>3. CASE Copy(o) \/ Verify(o) \/ Probe(o) \/ LinkRollback(o) \/ Swap(o) \/ Reopen(o)
    BY <2>3 DEF Copy, Verify, Probe, LinkRollback, Swap, Reopen, AfterFailure, Advance, Steps
  <2> QED BY <1>2, <2>1, <2>2, <2>3 DEF OperationStep
<1>3. ASSUME NEW o \in Operations, OperationStep(o) \/ KillOperation(o)
      PROVE  /\ mutex' \in {"free", "ownerless"} \cup Operations
             /\ UNCHANGED <<connection, committed>>
  <2>1. CASE \/ Preflight(o) \/ Acquire(o) \/ MarkRecovery(o) \/ RemoveStale(o)
             \/ Remake(o) \/ Name(o) \/ ReleaseMaintenance(o) \/ KillOperation(o)
    BY <2>1 DEF Preflight, Acquire, MarkRecovery, RemoveStale, Remake, Name, ReleaseMaintenance,
         KillOperation, MaintenanceTypeOK, daemonVars
  <2>2. CASE \/ Begin(o) \/ PauseCollection(o) \/ PublishReplacement(o) \/ Throw(o) \/ Undo(o)
             \/ Finish(o) \/ Resume(o) \/ Complete(o)
    BY <2>2 DEF Begin, PauseCollection, PublishReplacement, Throw, Undo, Finish, Resume, Complete,
         MaintenanceTypeOK, daemonVars
  <2>3. CASE Copy(o) \/ Verify(o) \/ Probe(o) \/ LinkRollback(o) \/ Swap(o) \/ Reopen(o)
    BY <2>3 DEF Copy, Verify, Probe, LinkRollback, Swap, Reopen, MaintenanceTypeOK, daemonVars
  <2> QED BY <1>3, <2>1, <2>2, <2>3 DEF OperationStep
<1>4. ASSUME NEW o \in Operations, OperationStep(o) \/ KillOperation(o)
      PROVE  /\ path' \in StoreFiles
             /\ fileRows' \in [StoreFiles -> SUBSET Nat]
             /\ kept' \in [Operations -> {"none"} \cup StoreFiles]
  <2>1. CASE \/ Preflight(o) \/ Acquire(o) \/ MarkRecovery(o) \/ RemoveStale(o)
             \/ Remake(o) \/ Name(o) \/ ReleaseMaintenance(o) \/ KillOperation(o)
    BY <2>1 DEF Preflight, Acquire, MarkRecovery, RemoveStale, Remake, Name, ReleaseMaintenance,
         KillOperation, MaintenanceTypeOK, fileVars
  <2>2. CASE \/ Begin(o) \/ PauseCollection(o) \/ PublishReplacement(o) \/ Throw(o) \/ Undo(o)
             \/ Finish(o) \/ Resume(o) \/ Complete(o)
    BY <2>2 DEF Begin, PauseCollection, PublishReplacement, Throw, Undo, Finish, Resume, Complete,
         MaintenanceTypeOK, fileVars
  <2>3. CASE Copy(o)
    BY <2>3 DEF Copy, MaintenanceTypeOK, StoreFiles
  <2>4. CASE Verify(o) \/ Probe(o)
    BY <2>4 DEF Verify, Probe, MaintenanceTypeOK, fileVars
  <2>5. CASE LinkRollback(o) \/ Swap(o)
    BY <2>5 DEF LinkRollback, Swap, MaintenanceTypeOK, StoreFiles
  <2>6. CASE Reopen(o)
    <3>1. kept[o] = "store"
      BY <2>6 DEF Reopen, CopyIsWhole
    <3> QED BY <2>6, <3>1 DEF Reopen, MaintenanceTypeOK, StoreFiles
  <2> QED BY <1>4, <2>1, <2>2, <2>3, <2>4, <2>5, <2>6 DEF OperationStep
<1>5. ASSUME NEW o \in Operations, OperationStep(o) \/ KillOperation(o)
      PROVE  MaintenanceTypeOK'
  BY <1>1, <1>2, <1>3, <1>4, <1>5 DEF MaintenanceTypeOK
<1>6. CASE StartDaemon \/ StopDaemon
  BY <1>6 DEF StartDaemon, StopDaemon, MaintenanceTypeOK, fileVars
<1>7. CASE WriteRow
  <2> DEFINE row == Cardinality(committed) + 1
  <2>1. IsFiniteSet(committed)
    BY DEF MaintenanceTypeOK
  <2>2. row \in Nat
    BY <2>1, FS_CardinalityType
  <2>3. IsFiniteSet(committed \cup {row})
    BY <2>1, FS_AddElement
  <2>4. /\ committed' = committed \cup {row}
        /\ fileRows' = [fileRows EXCEPT ![connection] = @ \cup {row}]
        /\ UNCHANGED <<doing, mutex, path, kept, connection>>
    BY <1>7 DEF WriteRow
  <2> HIDE DEF row
  <2> QED BY <2>2, <2>3, <2>4 DEF MaintenanceTypeOK
<1> QED BY <1>5, <1>6, <1>7 DEF MaintenanceNext

\* The steps of work that touch neither the store nor the lock.
LEMMA CalmWork ==
    ASSUME MaintenanceInv, NEW o \in Operations,
           \/ Begin(o) \/ PauseCollection(o) \/ PublishReplacement(o) \/ Throw(o) \/ Undo(o)
           \/ Finish(o) \/ Resume(o) \/ Complete(o)
    PROVE  LockIsOwned' /\ CopyIsWhole' /\ NoRowLost'
<1>1. PICK x \in WorkingStep \cap Quiet : GoesTo(o, x)
  BY DEF Begin, PauseCollection, PublishReplacement, Throw, Undo, Finish, Resume, Complete,
     AfterFailure, Advance, GoesTo, WorkingStep, Quiet, Steps
<1>2. /\ UNCHANGED <<path, fileRows, connection, committed, mutex>>
      /\ \A p \in Operations \ {o} : kept'[p] = kept[p]
  BY DEF Begin, PauseCollection, PublishReplacement, Throw, Undo, Finish, Resume, Complete,
     fileVars, daemonVars, MaintenanceInv, MaintenanceTypeOK
<1>3. Working(o)
  BY DEF Begin, PauseCollection, PublishReplacement, Throw, Undo, Finish, Resume, Complete,
     Working, Acquiring, Ended
<1> QED BY <1>1, <1>2, <1>3, WorkKeepsLock, QuietSteps DEF MaintenanceInv

\* The steps around the lock touch no file of the store.
LEMMA LockSteps ==
    ASSUME MaintenanceInv, ~LocksRace, NEW o \in Operations,
           \/ Preflight(o) \/ Acquire(o) \/ MarkRecovery(o) \/ RemoveStale(o)
           \/ Remake(o) \/ Name(o) \/ ReleaseMaintenance(o) \/ KillOperation(o)
    PROVE  LockIsOwned' /\ CopyIsWhole' /\ NoRowLost'
<1>1. PICK x \in Quiet : GoesTo(o, x)
  BY DEF Preflight, Acquire, MarkRecovery, RemoveStale, Remake, Name, ReleaseMaintenance,
     KillOperation, Advance, GoesTo, Quiet, Steps
<1>2. UNCHANGED <<path, fileRows, kept, connection, committed>>
  BY DEF Preflight, Acquire, MarkRecovery, RemoveStale, Remake, Name, ReleaseMaintenance,
     KillOperation, fileVars, daemonVars
<1>3. CopyIsWhole' /\ NoRowLost'
  BY <1>1, <1>2, QuietSteps
<1>4. CASE ReleaseMaintenance(o)
  <2>1. Working(o)
    BY <1>4 DEF ReleaseMaintenance, Working, Acquiring, Ended
  <2>2. GoesTo(o, "exited") /\ (mutex' = mutex \/ mutex' = "free") /\ ~Ended(o)
    BY <1>4 DEF ReleaseMaintenance, Advance, GoesTo, Ended
  <2> QED BY <1>3, <2>1, <2>2, EndKeepsLock DEF MaintenanceInv
<1>5. CASE KillOperation(o)
  <2>1. GoesTo(o, "dead") /\ mutex' = mutex /\ ~Ended(o)
    BY <1>5 DEF KillOperation, Advance, GoesTo
  <2> QED BY <1>3, <2>1, EndKeepsLock DEF MaintenanceInv
<1>6. CASE \/ Preflight(o) \/ Acquire(o) \/ MarkRecovery(o) \/ RemoveStale(o)
           \/ Remake(o) \/ Name(o)
  BY <1>3, <1>6, AcquiringSteps DEF MaintenanceInv
<1> QED BY <1>4, <1>5, <1>6

\* The steps on the store's files leave the lock to its owner.
LEMMA FileSteps ==
    ASSUME MaintenanceInv, NEW o \in Operations,
           Copy(o) \/ Verify(o) \/ Probe(o) \/ LinkRollback(o) \/ Swap(o) \/ Reopen(o)
    PROVE  LockIsOwned' /\ CopyIsWhole' /\ NoRowLost'
<1>1. PICK x \in WorkingStep : GoesTo(o, x)
  BY DEF Copy, Verify, Probe, LinkRollback, Swap, Reopen, AfterFailure, Advance, GoesTo,
     WorkingStep, Steps
<1>2. Working(o) /\ mutex' = mutex
  BY DEF Copy, Verify, Probe, LinkRollback, Swap, Reopen, Working, Acquiring, Ended
<1>3. LockIsOwned'
  BY <1>1, <1>2, WorkKeepsLock DEF MaintenanceInv
<1> QED
  BY <1>3, CopySteps, VerifySteps, ProbeSteps, LinkSteps, SwapSteps, ReopenSteps

\* Every step keeps the invariant.
LEMMA MaintenanceSteps ==
    ASSUME ~LocksRace, ~DaemonsRace, MaintenanceInv, MaintenanceNext
    PROVE  MaintenanceInv'
<1>1. MaintenanceTypeOK'
  BY MaintenanceTypes
<1>2. ASSUME NEW o \in Operations, OperationStep(o) \/ KillOperation(o)
      PROVE  MaintenanceInv'
  BY <1>1, <1>2, CalmWork, LockSteps, FileSteps DEF OperationStep, MaintenanceInv
<1>3. CASE StartDaemon \/ WriteRow \/ StopDaemon
  <2>1. UNCHANGED <<doing, mutex>>
    BY <1>3 DEF StartDaemon, WriteRow, StopDaemon
  <2>2. LockIsOwned'
    BY <2>1 DEF MaintenanceInv, LockIsOwned, Working, Acquiring, Ended, Stale
  <2> QED BY <1>1, <1>3, <2>2, DaemonSteps DEF MaintenanceInv
<1> QED BY <1>2, <1>3 DEF MaintenanceNext

\* Where reclaiming a stale lock is one step and no daemon opens the store
\* between the exclusivity probe and the swap: the lock names who works, and
\* what is swapped in holds the rows of what it replaces (maintenanceLock.ts,
\* optimizeStore.ts).
THEOREM MaintenanceInvariant ==
    ASSUME ~LocksRace, ~DaemonsRace
    PROVE  MaintenanceSpec => []MaintenanceInv
<1>1. MaintenanceInit => MaintenanceInv
  <2> SUFFICES ASSUME MaintenanceInit PROVE MaintenanceInv
    OBVIOUS
  <2>1. \A o \in Operations : doing[o] = "start" /\ kept[o] = "none" /\ fileRows[o] = {}
    BY DEF MaintenanceInit
  <2>2. IsFiniteSet({})
    BY FS_EmptySet
  <2>3. MaintenanceTypeOK
    BY <2>2 DEF MaintenanceInit, MaintenanceTypeOK, StoreFiles, Steps
  <2>4. LockIsOwned
    BY <2>1 DEF LockIsOwned, Working, Acquiring, Ended
  <2>5. CopyIsWhole /\ NoRowLost
    BY <2>1 DEF MaintenanceInit, CopyIsWhole, NoRowLost
  <2> QED BY <2>3, <2>4, <2>5 DEF MaintenanceInv
<1>2. MaintenanceInv /\ [MaintenanceNext]_maintenanceVars => MaintenanceInv'
  <2> SUFFICES ASSUME MaintenanceInv, [MaintenanceNext]_maintenanceVars PROVE MaintenanceInv'
    OBVIOUS
  <2>1. CASE MaintenanceNext
    BY <2>1, MaintenanceSteps
  <2>2. CASE UNCHANGED maintenanceVars
    BY <2>2 DEF maintenanceVars, MaintenanceInv, MaintenanceTypeOK, LockIsOwned, CopyIsWhole,
       Copied, NoRowLost, Working, Acquiring, Ended, Stale
  <2> QED BY <2>1, <2>2
<1> QED BY <1>1, <1>2, PTL DEF MaintenanceSpec

\* Under the same assumptions no committed row is lost by an optimization,
\* wherever it fails or is killed, for any number of operations and writes.
THEOREM RowsOutliveMaintenance ==
    ASSUME ~LocksRace, ~DaemonsRace
    PROVE  MaintenanceSpec => []NoRowLost
<1>1. MaintenanceInv => NoRowLost
  BY DEF MaintenanceInv
<1> QED BY <1>1, MaintenanceInvariant, PTL

\* Under the same assumptions one maintenance operation works at a time;
\* without the first the run owners shows two.
THEOREM OneOwnerAtATime ==
    ASSUME ~LocksRace, ~DaemonsRace
    PROVE  MaintenanceSpec => []OneOwner
<1>1. MaintenanceInv => OneOwner
  BY OneOwnerInside DEF MaintenanceInv
<1> QED BY <1>1, MaintenanceInvariant, PTL


-----------------------------------------------------------------------------
(* The upgrade of a store                                                  *)

\* Types of the rows and of what is derived of them, and the places of the
\* constructor.
Stamps == {"none", "loose", "canonical", "migrated"}
StoredRows == [name : Nat, hooked : BOOLEAN, suffixed : BOOLEAN, ts : Stamps,
               valid : BOOLEAN, file : Files \cup {NoFile}, warning : BOOLEAN]
Derivations == [of : StoredRows, versioned : BOOLEAN]
Creating == {"sync", "samples", "models", "emptied", "state"}
Places == {"closed", "open", "tables", "column", "migrate", "mark"} \cup Creating

\* The features a layout can have.
Features == CurrentLayout \cup {"byLocation"}

\* Types of the store and of its constructor.
UpgradeTypeOK ==
    /\ marked \in Nat /\ found.version \in Nat /\ found.tables \in BOOLEAN
    /\ eventRows \in Seq(StoredRows) /\ checkpointRows \in Seq(StoredRows)
    /\ derived \in Seq(Derivations) /\ Len(derived) = Len(eventRows)
    /\ cursors \in SUBSET Files /\ jobs \in SUBSET Files /\ layout \in SUBSET Features
    /\ usageLedger \in [counted : SUBSET Nat, complete : BOOLEAN]
    /\ opening \in Places

\* Two rows that are no warnings differ in name or suffix: a warning's id holds
\* its place.
Apart(rows) ==
    \A p, q \in 1 .. Len(rows) :
      (p # q /\ rows[p].warning = FALSE /\ rows[q].warning = FALSE
         /\ rows[p].name = rows[q].name) => rows[p].suffixed # rows[q].suffixed

\* A name is that of the first two rows, or tells the place of the row.
IdsAreDistinct ==
    /\ \A p \in 1 .. Len(eventRows) : eventRows[p].name <= 2 + p
    /\ Apart(eventRows)

\* The rows satisfy the contract of the version v.
Contract(v) ==
    \A p \in 1 .. Len(eventRows) :
      /\ v >= 2 => eventRows[p].ts \notin {"none", "loose"}
      /\ v >= 4 => eventRows[p].valid = TRUE

\* What is stored of the rows was made of them as they are.
MadeOf(rows, checkpoint, changes) ==
    /\ Len(checkpoint) <= Len(rows)
    /\ \A p \in 1 .. Len(checkpoint) : checkpoint[p] = rows[p]
    /\ \A p \in 1 .. Len(rows) : changes[p].versioned = TRUE => changes[p].of = rows[p]
MadeOfThem == MadeOf(eventRows, checkpointRows, derived)

\* A ledger that says it is complete counts every row.
Counted == usageLedger.complete = TRUE => usageLedger.counted = 1 .. Len(eventRows)

\* The layout of a version, and of a place of the constructor.
LaidOutAs(v) ==
    /\ "byLocation" \in layout => v = 2
    /\ v >= 6 => "sync" \in layout
    /\ v >= 7 => "samples" \in layout
    /\ v >= Current => CurrentLayout \subseteq layout
    /\ "events" \notin layout => eventRows = <<>>

\* While it opens a store, the constructor goes by what it found: the version
\* the store has, and whether there were tables, without which there are no
\* rows.
Opened ==
    opening \notin {"closed", "open"} =>
      /\ found.version = marked /\ marked <= Current
      /\ found.tables = FALSE => eventRows = <<>>

LaidOutAt ==
    /\ opening = "open" => marked = Current
    /\ opening = "tables" => (found.tables = TRUE <=> "events" \in layout)
    /\ opening \in Creating => NewStore
    /\ opening \in Creating \cup {"column", "migrate", "mark"} =>
         /\ {"sessions", "events"} \subseteq layout
         /\ "byLocation" \in layout \/ "byEvent" \in layout
    /\ opening \in Creating => "byEvent" \in layout /\ "versions" \in layout
    /\ opening \in {"samples", "models", "emptied", "state"} => "sync" \in layout
    /\ opening \in {"models", "emptied", "state"} => "samples" \in layout
    /\ opening \in {"emptied", "state"} => "readModels" \in layout
    /\ opening = "state" => usageLedger.counted = {}
    /\ opening = "column" /\ (NewStore \/ found.version = Current) => CurrentLayout \subseteq layout
    /\ opening = "migrate" => "versions" \in layout /\ Older
    /\ opening = "mark" => /\ CurrentLayout \subseteq layout /\ "byLocation" \notin layout
                           /\ Contract(Current)
                           /\ found.version < 5 => FilesNamed(eventRows) \subseteq jobs

\* The inductive invariant: a store satisfies the contract of the version it is
\* marked with, and at each place of the constructor what the statements before
\* it have done.
UpgradeParts == IdsAreDistinct /\ Contract(marked) /\ MadeOfThem /\ Counted
    /\ LaidOutAs(marked) /\ Opened /\ LaidOutAt
UpgradeInv == UpgradeTypeOK /\ UpgradeParts

\* Rows that are apart have different ids: an id with a number is that of the
\* row at that place.
LEMMA ApartIds ==
    ASSUME UpgradeTypeOK, Apart(eventRows)
    PROVE  \A p, q \in DOMAIN eventRows : p # q => Id(p) # Id(q)
<1>1. DOMAIN eventRows = 1 .. Len(eventRows)
  BY DEF UpgradeTypeOK
<1> SUFFICES ASSUME NEW p \in 1 .. Len(eventRows), NEW q \in 1 .. Len(eventRows), p # q,
                    Id(p) = Id(q)
             PROVE  FALSE
  BY <1>1
<1>2. eventRows[p] \in StoredRows /\ eventRows[q] \in StoredRows
  BY DEF UpgradeTypeOK
<1>3. /\ eventRows[p].name = eventRows[q].name
      /\ eventRows[p].suffixed = eventRows[q].suffixed
      /\ (IF eventRows[p].warning THEN p ELSE 0) = (IF eventRows[q].warning THEN q ELSE 0)
  BY DEF Id
<1>4. eventRows[p].warning \in BOOLEAN /\ eventRows[q].warning \in BOOLEAN
  BY <1>2 DEF StoredRows
<1>5. eventRows[p].warning = FALSE /\ eventRows[q].warning = FALSE
  BY <1>3, <1>4
<1> QED
  BY <1>3, <1>5 DEF Apart

\* And the other way round.
LEMMA IdsApart ==
    ASSUME eventRows \in Seq(StoredRows),
           \A p, q \in DOMAIN eventRows : p # q => Id(p) # Id(q)
    PROVE  Apart(eventRows)
<1>1. DOMAIN eventRows = 1 .. Len(eventRows)
  OBVIOUS
<1> SUFFICES ASSUME NEW p \in 1 .. Len(eventRows), NEW q \in 1 .. Len(eventRows), p # q,
                    eventRows[p].warning = FALSE, eventRows[q].warning = FALSE,
                    eventRows[p].name = eventRows[q].name,
                    eventRows[p].suffixed = eventRows[q].suffixed
             PROVE  FALSE
  BY DEF Apart
<1>2. Id(p) = Id(q)
  BY DEF Id
<1> QED
  BY <1>1, <1>2

\* One row as migrateToSchema2 leaves it.
LEMMA RenamedRow ==
    ASSUME UpgradeTypeOK, NEW p \in 1 .. Len(eventRows)
    PROVE  /\ Renamed(p) \in StoredRows
           /\ Renamed(p).name = eventRows[p].name
           /\ Renamed(p).ts \notin {"none", "loose"}
           /\ Renamed(p).file # NoFile => Renamed(p).file = eventRows[p].file
<1> DEFINE row == eventRows[p]
           twin == \E q \in DOMAIN eventRows \ {p} : Id(q) = [Id(p) EXCEPT !.suffixed = TRUE]
           ts == IF row.ts = "none" THEN "migrated" ELSE "canonical"
           legacy == row.hooked /\ ~row.suffixed
<1>1. row \in StoredRows
  BY DEF UpgradeTypeOK
<1>2. ts \in {"migrated", "canonical"}
  OBVIOUS
<1>3. Renamed(p) = IF legacy /\ twin THEN Warning([row EXCEPT !.suffixed = TRUE], ts)
                   ELSE IF row.ts = "none" THEN Warning([row EXCEPT !.suffixed = @ \/ legacy], ts)
                   ELSE [row EXCEPT !.suffixed = @ \/ legacy, !.ts = ts]
  BY DEF Renamed
<1> HIDE DEF twin, ts
<1>4. PICK b \in BOOLEAN : b = (row.suffixed \/ legacy)
  OBVIOUS
<1> HIDE DEF legacy
<1>5. [row EXCEPT !.suffixed = TRUE] \in StoredRows /\ [row EXCEPT !.suffixed = b] \in StoredRows
      /\ [row EXCEPT !.suffixed = TRUE].name = row.name
      /\ [row EXCEPT !.suffixed = b].name = row.name
  BY <1>1 DEF StoredRows
<1>6. ASSUME NEW r \in StoredRows, r.name = row.name
      PROVE  /\ Warning(r, ts) \in StoredRows /\ Warning(r, ts).name = row.name
             /\ Warning(r, ts).ts = ts /\ Warning(r, ts).file = NoFile
  BY <1>2, <1>6 DEF Warning, StoredRows, Stamps
<1>7. CASE legacy /\ twin
  BY <1>2, <1>3, <1>5, <1>6, <1>7
<1>8. CASE ~(legacy /\ twin) /\ row.ts = "none"
  <2>1. Renamed(p) = Warning([row EXCEPT !.suffixed = b], ts)
    BY <1>3, <1>4, <1>8
  <2> QED
    BY <1>2, <1>5, <1>6, <2>1
<1>9. CASE ~(legacy /\ twin) /\ row.ts # "none"
  <2>1. Renamed(p) = [row EXCEPT !.suffixed = b, !.ts = ts]
    BY <1>3, <1>4, <1>9
  <2> QED
    BY <1>1, <1>2, <2>1 DEF StoredRows, Stamps
<1> QED
  BY <1>7, <1>8, <1>9

\* What a row that is no warning after migrateToSchema2 was before it.
LEMMA RenamedAndKept ==
    ASSUME UpgradeTypeOK, NEW p \in 1 .. Len(eventRows), Renamed(p).warning = FALSE
    PROVE  /\ eventRows[p].warning = FALSE
           /\ Renamed(p).suffixed =
                (eventRows[p].suffixed = TRUE \/ eventRows[p].hooked = TRUE)
           /\ (eventRows[p].hooked = TRUE /\ eventRows[p].suffixed = FALSE) =>
                ~ \E q \in DOMAIN eventRows \ {p} : Id(q) = [Id(p) EXCEPT !.suffixed = TRUE]
<1> DEFINE row == eventRows[p]
           twin == \E q \in DOMAIN eventRows \ {p} : Id(q) = [Id(p) EXCEPT !.suffixed = TRUE]
           ts == IF row.ts = "none" THEN "migrated" ELSE "canonical"
           legacy == row.hooked /\ ~row.suffixed
<1>1. row \in StoredRows
  BY DEF UpgradeTypeOK
<1>2. row.hooked \in BOOLEAN /\ row.suffixed \in BOOLEAN
  BY <1>1 DEF StoredRows
<1>3. Renamed(p) = IF legacy /\ twin THEN Warning([row EXCEPT !.suffixed = TRUE], ts)
                   ELSE IF row.ts = "none" THEN Warning([row EXCEPT !.suffixed = @ \/ legacy], ts)
                   ELSE [row EXCEPT !.suffixed = @ \/ legacy, !.ts = ts]
  BY DEF Renamed
<1>4. legacy <=> row.hooked = TRUE /\ row.suffixed = FALSE
  BY <1>2
<1> HIDE DEF twin, ts
<1>5. PICK b \in BOOLEAN : b = (row.suffixed \/ legacy)
  OBVIOUS
<1>6. b = (row.suffixed = TRUE \/ row.hooked = TRUE)
  BY <1>2, <1>5
<1> HIDE DEF legacy
<1>7. \A r : Warning(r, ts).warning = TRUE
  BY DEF Warning
<1>8. ~(legacy /\ twin) /\ row.ts # "none"
  BY <1>3, <1>7
<1>9. Renamed(p) = [row EXCEPT !.suffixed = b, !.ts = ts]
  BY <1>3, <1>5, <1>8
<1>10. Renamed(p).warning = row.warning /\ Renamed(p).suffixed = b
  BY <1>1, <1>9 DEF StoredRows
<1>11. legacy => ~twin
  BY <1>8
<1> QED
  BY <1>4, <1>6, <1>10, <1>11 DEF twin

\* No two rows get the same id by their renaming.
LEMMA RenamedAreApart ==
    ASSUME UpgradeTypeOK, Apart(eventRows)
    PROVE  Apart([p \in DOMAIN eventRows |-> Renamed(p)])
<1> DEFINE rows == [p \in DOMAIN eventRows |-> Renamed(p)]
<1>1. DOMAIN eventRows = 1 .. Len(eventRows) /\ Len(eventRows) \in Nat
  BY DEF UpgradeTypeOK
<1>2. rows \in Seq(StoredRows) /\ Len(rows) = Len(eventRows)
  BY <1>1, RenamedRow, IsASeq
<1> SUFFICES ASSUME NEW p \in 1 .. Len(eventRows), NEW q \in 1 .. Len(eventRows), p # q,
                    Renamed(p).warning = FALSE, Renamed(q).warning = FALSE,
                    Renamed(p).name = Renamed(q).name
             PROVE  Renamed(p).suffixed # Renamed(q).suffixed
  BY <1>1, <1>2 DEF Apart
<1>3. ASSUME NEW i \in 1 .. Len(eventRows), NEW j \in 1 .. Len(eventRows), i # j,
             Renamed(i).warning = FALSE, Renamed(j).warning = FALSE,
             Renamed(i).name = Renamed(j).name,
             eventRows[i].suffixed = FALSE, eventRows[i].hooked = TRUE,
             eventRows[j].suffixed = TRUE
      PROVE  FALSE
  <2>1. eventRows[i] \in StoredRows /\ eventRows[j] \in StoredRows
    BY DEF UpgradeTypeOK
  <2>2. eventRows[i].warning = FALSE /\ eventRows[j].warning = FALSE
        /\ eventRows[i].name = eventRows[j].name
    BY <1>3, RenamedAndKept, RenamedRow
  <2>3. Id(i) = [name |-> eventRows[i].name, suffixed |-> FALSE, number |-> 0]
    BY <1>3, <2>2 DEF Id
  <2>4. Id(j) = [name |-> eventRows[i].name, suffixed |-> TRUE, number |-> 0]
    BY <1>3, <2>2 DEF Id
  <2>5. PICK id : id = [Id(i) EXCEPT !.suffixed = TRUE]
    OBVIOUS
  <2>6. id = Id(j)
    <3>1. PICK Ids : Ids = [name : {eventRows[i].name}, suffixed : BOOLEAN, number : {0}]
      OBVIOUS
    <3>2. Id(i) \in Ids /\ Id(j) \in Ids
      BY <2>3, <2>4, <3>1
    <3>3. id \in Ids /\ id.suffixed = TRUE
      BY <2>5, <3>1, <3>2
    <3> QED
      BY <2>4, <3>1, <3>2, <3>3
  <2> QED
    BY <1>1, <1>3, <2>5, <2>6, RenamedAndKept
<1>4. eventRows[p] \in StoredRows /\ eventRows[q] \in StoredRows
  BY DEF UpgradeTypeOK
<1>5. eventRows[p].warning = FALSE /\ eventRows[q].warning = FALSE
      /\ eventRows[p].name = eventRows[q].name
  BY RenamedAndKept, RenamedRow
<1>6. /\ eventRows[p].suffixed \in BOOLEAN /\ eventRows[p].hooked \in BOOLEAN
      /\ eventRows[q].suffixed \in BOOLEAN /\ eventRows[q].hooked \in BOOLEAN
  BY <1>4 DEF StoredRows
<1>7. eventRows[p].suffixed # eventRows[q].suffixed
  BY <1>5 DEF Apart
<1>8. /\ Renamed(p).suffixed = (eventRows[p].suffixed = TRUE \/ eventRows[p].hooked = TRUE)
      /\ Renamed(q).suffixed = (eventRows[q].suffixed = TRUE \/ eventRows[q].hooked = TRUE)
  BY RenamedAndKept
<1>9. CASE eventRows[p].suffixed = TRUE
  <2>1. eventRows[q].suffixed = FALSE
    BY <1>6, <1>7, <1>9
  <2>2. eventRows[q].hooked = FALSE
    BY <1>3, <1>6, <1>9, <2>1
  <2> QED
    BY <1>8, <1>9, <2>1, <2>2
<1>10. CASE eventRows[p].suffixed = FALSE
  <2>1. eventRows[q].suffixed = TRUE
    BY <1>6, <1>7, <1>10
  <2>2. eventRows[p].hooked = FALSE
    BY <1>3, <1>6, <1>10, <2>1
  <2> QED
    BY <1>8, <1>10, <2>1, <2>2
<1> QED
  BY <1>6, <1>9, <1>10

\* A quarantined row satisfies the contract and keeps its name; one that
\* satisfied it stays as it is.
LEMMA QuarantinedRow ==
    ASSUME NEW row \in StoredRows
    PROVE  /\ Quarantined(row) \in StoredRows
           /\ Quarantined(row).name = row.name
           /\ Quarantined(row).valid = TRUE
           /\ row.ts \notin {"none", "loose"} => Quarantined(row).ts \notin {"none", "loose"}
           /\ Quarantined(row).warning = FALSE =>
                row.warning = FALSE /\ Quarantined(row).suffixed = row.suffixed
           /\ row.valid = TRUE => Quarantined(row) = row
<1> DEFINE ts == IF row.ts = "none" THEN "migrated" ELSE "canonical"
<1>1. ts \in {"migrated", "canonical"}
  OBVIOUS
<1>2. Quarantined(row) = IF row.valid THEN row ELSE Warning(row, ts)
  BY DEF Quarantined
<1> HIDE DEF ts
<1>3. row.valid \in BOOLEAN
  BY DEF StoredRows
<1>4. CASE row.valid = TRUE
  BY <1>2, <1>4 DEF StoredRows
<1>5. CASE row.valid = FALSE
  BY <1>1, <1>2, <1>5 DEF Warning, StoredRows, Stamps
<1> QED
  BY <1>3, <1>4, <1>5

\* Quarantine leaves rows apart.
LEMMA QuarantinedAreApart ==
    ASSUME NEW rows \in Seq(StoredRows), Apart(rows)
    PROVE  LET after == [p \in DOMAIN rows |-> Quarantined(rows[p])]
           IN  after \in Seq(StoredRows) /\ Len(after) = Len(rows) /\ Apart(after)
<1> DEFINE after == [p \in DOMAIN rows |-> Quarantined(rows[p])]
<1>1. DOMAIN rows = 1 .. Len(rows) /\ Len(rows) \in Nat
      /\ \A p \in 1 .. Len(rows) : rows[p] \in StoredRows
  OBVIOUS
<1>2. after \in Seq(StoredRows) /\ Len(after) = Len(rows)
  <2>1. \A p \in 1 .. Len(rows) : Quarantined(rows[p]) \in StoredRows
    BY <1>1, QuarantinedRow
  <2>2. after = [p \in 1 .. Len(rows) |-> Quarantined(rows[p])]
    BY <1>1
  <2> QED
    BY <1>1, <2>1, <2>2, IsASeq
<1>3. Apart(after)
  <2> SUFFICES ASSUME NEW p \in 1 .. Len(rows), NEW q \in 1 .. Len(rows), p # q,
                      Quarantined(rows[p]).warning = FALSE, Quarantined(rows[q]).warning = FALSE,
                      Quarantined(rows[p]).name = Quarantined(rows[q]).name
               PROVE  Quarantined(rows[p]).suffixed # Quarantined(rows[q]).suffixed
    BY <1>1, <1>2 DEF Apart
  <2>1. rows[p] \in StoredRows /\ rows[q] \in StoredRows
    BY <1>1
  <2>2. /\ rows[p].warning = FALSE /\ rows[q].warning = FALSE /\ rows[p].name = rows[q].name
        /\ Quarantined(rows[p]).suffixed = rows[p].suffixed
        /\ Quarantined(rows[q]).suffixed = rows[q].suffixed
    BY <2>1, QuarantinedRow
  <2> QED
    BY <2>2 DEF Apart
<1> QED
  BY <1>2, <1>3

\* The store between two migrations.
Stores == [layout : SUBSET Features, eventRows : Seq(StoredRows),
           checkpointRows : Seq(StoredRows), derived : Seq(Derivations), jobs : SUBSET Files,
           usageLedger : [counted : SUBSET Nat, complete : BOOLEAN]]

\* What every migration hands to the next.
SoundStore(db) ==
    /\ db \in Stores /\ Len(db.derived) = Len(db.eventRows)
    /\ \A p \in 1 .. Len(db.eventRows) :
         db.eventRows[p].name <= 2 + p /\ db.eventRows[p].ts \notin {"none", "loose"}
    /\ Apart(db.eventRows)
    /\ MadeOf(db.eventRows, db.checkpointRows, db.derived)

\* Changes that lose the reducer's version will be derived again.
LEMMA Forgotten ==
    ASSUME NEW d \in Seq(Derivations)
    PROVE  LET e == [p \in DOMAIN d |-> [d[p] EXCEPT !.versioned = FALSE]]
           IN  /\ e \in Seq(Derivations) /\ Len(e) = Len(d)
               /\ \A p \in 1 .. Len(d) : e[p].versioned = FALSE
<1> DEFINE e == [p \in DOMAIN d |-> [d[p] EXCEPT !.versioned = FALSE]]
           f(p) == [d[p] EXCEPT !.versioned = FALSE]
<1>1. DOMAIN d = 1 .. Len(d) /\ Len(d) \in Nat
  OBVIOUS
<1>2. ASSUME NEW p \in 1 .. Len(d)
      PROVE  f(p) \in Derivations /\ f(p).versioned = FALSE
  <2>1. d[p] \in Derivations
    OBVIOUS
  <2> QED
    BY <2>1 DEF Derivations
<1>3. e = [p \in 1 .. Len(d) |-> f(p)]
  BY <1>1
<1>4. [p \in 1 .. Len(d) |-> f(p)] \in Seq(Derivations)
  BY <1>1, <1>2, IsASeq
<1> HIDE DEF f
<1>5. e \in Seq(Derivations)
  BY <1>3, <1>4
<1>6. DOMAIN e = 1 .. Len(d) /\ \A p \in 1 .. Len(d) : e[p] = f(p)
  BY <1>3
<1> HIDE DEF e
<1>7. Len(e) = Len(d)
  BY <1>1, <1>5, <1>6
<1> QED
  BY <1>2, <1>5, <1>6, <1>7 DEF e

\* The migration to schema 2 makes the rows' timestamps canonical, and what was
\* made of the rows is dropped with them.
LEMMA To2Sound ==
    ASSUME UpgradeInv, found.version = marked
    PROVE  /\ SoundStore(To2(Store)) /\ To2(Store).layout = layout
           /\ found.version >= 4 => To2(Store).eventRows = eventRows
           /\ Len(To2(Store).eventRows) = Len(eventRows)
<1>1. Store \in Stores
  BY DEF UpgradeInv, UpgradeTypeOK, Store, Stores
<1>2. /\ Store.layout = layout /\ Store.eventRows = eventRows
      /\ Store.checkpointRows = checkpointRows /\ Store.derived = derived /\ Store.jobs = jobs
      /\ Store.usageLedger = usageLedger
  BY DEF Store
<1>3. UpgradeTypeOK /\ IdsAreDistinct /\ Contract(marked) /\ MadeOfThem
  BY DEF UpgradeInv, UpgradeParts
<1>4. CASE found.version >= 2
  <2>1. To2(Store) = Store
    BY <1>4 DEF To2
  <2> QED
    BY <1>1, <1>2, <1>3, <1>4, <2>1 DEF SoundStore, IdsAreDistinct, Contract, MadeOfThem,
       UpgradeTypeOK
<1>5. CASE ~(found.version >= 2)
  <2> DEFINE rows == [p \in DOMAIN eventRows |-> Renamed(p)]
             changes == [p \in DOMAIN derived |-> [derived[p] EXCEPT !.versioned = FALSE]]
  <2>1. To2(Store) = [Store EXCEPT !.eventRows = rows, !.checkpointRows = <<>>,
                                   !.derived = changes, !.jobs = jobs \cup cursors]
    BY <1>2, <1>5 DEF To2
  <2>2. DOMAIN eventRows = 1 .. Len(eventRows) /\ Len(eventRows) \in Nat
    BY <1>3 DEF UpgradeTypeOK
  <2>3. \A p \in 1 .. Len(eventRows) :
          /\ Renamed(p) \in StoredRows /\ Renamed(p).name = eventRows[p].name
          /\ Renamed(p).ts \notin {"none", "loose"}
    BY <1>3, RenamedRow
  <2>4. rows = [p \in 1 .. Len(eventRows) |-> Renamed(p)]
    BY <2>2
  <2>5. rows \in Seq(StoredRows)
    BY <2>2, <2>3, <2>4, IsASeq
  <2>6. Len(rows) = Len(eventRows) /\ \A p \in 1 .. Len(eventRows) : rows[p] = Renamed(p)
    BY <2>2, <2>4, <2>5
  <2>7. Apart(rows)
    BY <1>3, RenamedAreApart DEF IdsAreDistinct
  <2>8. /\ changes \in Seq(Derivations) /\ Len(changes) = Len(eventRows)
        /\ \A p \in 1 .. Len(eventRows) : changes[p].versioned = FALSE
    BY <1>3, Forgotten DEF UpgradeTypeOK
  <2> HIDE DEF rows, changes
  <2>9. <<>> \in Seq(StoredRows) /\ Len(<<>>) = 0 /\ jobs \cup cursors \in SUBSET Files
    BY <1>3, EmptySeq DEF UpgradeTypeOK
  <2>10. PICK none \in Seq(StoredRows) : none = <<>> /\ Len(none) = 0
    BY <2>9
  <2>11. PICK more \in SUBSET Files : more = jobs \cup cursors
    BY <2>9
  <2>12. To2(Store) = [Store EXCEPT !.eventRows = rows, !.checkpointRows = none,
                                    !.derived = changes, !.jobs = more]
    BY <2>1, <2>10, <2>11
  <2>13. /\ To2(Store) \in Stores
         /\ To2(Store).eventRows = rows /\ To2(Store).checkpointRows = none
         /\ To2(Store).derived = changes /\ To2(Store).layout = layout
    BY <1>1, <1>2, <2>5, <2>8, <2>12 DEF Stores
  <2>14. \A p \in 1 .. Len(rows) : rows[p].name <= 2 + p /\ rows[p].ts \notin {"none", "loose"}
    BY <1>3, <2>3, <2>6 DEF IdsAreDistinct
  <2>15. MadeOf(rows, none, changes)
    BY <2>2, <2>6, <2>8, <2>10 DEF MadeOf
  <2> QED
    BY <1>3, <1>5, <2>6, <2>7, <2>8, <2>13, <2>14, <2>15 DEF SoundStore, UpgradeTypeOK
<1> QED
  BY <1>4, <1>5

\* The migration to schema 3 exchanges one table of fingerprints for the other.
LEMMA To3Sound ==
    ASSUME found.version \in Nat, NEW db, SoundStore(db)
    PROVE  /\ SoundStore(To3(db)) /\ To3(db).eventRows = db.eventRows
           /\ \A x \in db.layout \ {"byLocation"} : x \in To3(db).layout
           /\ found.version < 3 => "byLocation" \notin To3(db).layout
           /\ "byLocation" \in To3(db).layout => "byLocation" \in db.layout
           /\ "byEvent" \in db.layout \/ ("byLocation" \in db.layout /\ found.version < 3) =>
                "byEvent" \in To3(db).layout
           /\ To3(db).usageLedger = db.usageLedger
<1>0. db \in Stores
  BY DEF SoundStore
<1>1. CASE found.version >= 3 \/ "byLocation" \notin db.layout
  <2>1. To3(db) = db
    BY <1>1 DEF To3
  <2> QED
    BY <1>1, <2>1
<1>2. CASE ~(found.version >= 3) /\ "byLocation" \in db.layout
  <2>1. PICK new : new = (db.layout \ {"byLocation"}) \cup {"byEvent"}
    OBVIOUS
  <2>2. To3(db) = [db EXCEPT !.layout = new]
    BY <1>2, <2>1 DEF To3
  <2>3. new \in SUBSET Features
    BY <1>0, <2>1 DEF Stores, Features, CurrentLayout
  <2>4. /\ To3(db) \in Stores /\ To3(db).layout = new /\ To3(db).eventRows = db.eventRows
        /\ To3(db).checkpointRows = db.checkpointRows /\ To3(db).derived = db.derived
        /\ To3(db).usageLedger = db.usageLedger
    BY <1>0, <2>2, <2>3 DEF Stores
  <2> QED
    BY <1>2, <2>1, <2>4 DEF SoundStore
<1> QED
  BY <1>1, <1>2

\* The migration to schema 4 leaves only rows that satisfy the contract; what
\* was made of a row that it rewrites is dropped.
LEMMA To4Sound ==
    ASSUME found.version \in Nat, NEW db, SoundStore(db),
           found.version >= 4 => \A p \in 1 .. Len(db.eventRows) : db.eventRows[p].valid = TRUE
    PROVE  /\ SoundStore(To4(db)) /\ To4(db).layout = db.layout
           /\ \A p \in 1 .. Len(To4(db).eventRows) : To4(db).eventRows[p].valid = TRUE
           /\ Len(To4(db).eventRows) = Len(db.eventRows)
<1>0. db \in Stores
  BY DEF SoundStore
<1>1. CASE found.version >= 4
  <2>1. To4(db) = db
    BY <1>1 DEF To4
  <2> QED
    BY <1>1, <2>1
<1>2. CASE ~(found.version >= 4)
  <2>1. PICK rows : rows = [p \in DOMAIN db.eventRows |-> Quarantined(db.eventRows[p])]
    OBVIOUS
  <2>2. rows \in Seq(StoredRows) /\ Len(rows) = Len(db.eventRows) /\ Apart(rows)
    BY <1>0, <2>1, QuarantinedAreApart DEF SoundStore, Stores
  <2>3. db.eventRows \in Seq(StoredRows)
    BY <1>0 DEF Stores
  <2>4. \A p \in 1 .. Len(db.eventRows) :
          /\ db.eventRows[p] \in StoredRows /\ rows[p] = Quarantined(db.eventRows[p])
    BY <2>1, <2>3
  <2>5. \A p \in 1 .. Len(db.eventRows) :
          /\ rows[p].valid = TRUE
          /\ rows[p].name <= 2 + p /\ rows[p].ts \notin {"none", "loose"}
          /\ db.eventRows[p].valid = TRUE => rows[p] = db.eventRows[p]
    <3> SUFFICES ASSUME NEW p \in 1 .. Len(db.eventRows)
                 PROVE  /\ rows[p].valid = TRUE
                        /\ rows[p].name <= 2 + p /\ rows[p].ts \notin {"none", "loose"}
                        /\ db.eventRows[p].valid = TRUE => rows[p] = db.eventRows[p]
      OBVIOUS
    <3>1. db.eventRows[p] \in StoredRows /\ rows[p] = Quarantined(db.eventRows[p])
      BY <2>4
    <3>2. db.eventRows[p].name <= 2 + p /\ db.eventRows[p].ts \notin {"none", "loose"}
      BY DEF SoundStore
    <3>3. PICK row \in StoredRows : row = db.eventRows[p]
      BY <3>1
    <3>4. /\ Quarantined(row).name = row.name /\ Quarantined(row).valid = TRUE
          /\ row.ts \notin {"none", "loose"} => Quarantined(row).ts \notin {"none", "loose"}
          /\ row.valid = TRUE => Quarantined(row) = row
      BY QuarantinedRow
    <3> QED
      BY <3>1, <3>2, <3>3, <3>4
  <2>6. PICK mid : mid = [db EXCEPT !.eventRows = rows]
    OBVIOUS
  <2>7. /\ mid \in Stores /\ mid.eventRows = rows /\ mid.layout = db.layout
        /\ mid.checkpointRows = db.checkpointRows /\ mid.derived = db.derived
        /\ mid.usageLedger = db.usageLedger
    BY <1>0, <2>2, <2>6 DEF Stores
  <2>8. PICK affected : affected = {p \in DOMAIN db.eventRows : ~db.eventRows[p].valid}
    OBVIOUS
  <2>9. To4(db) = Invalidates(mid, affected)
    BY <1>2, <2>1, <2>6, <2>8 DEF To4
  <2>10. CASE affected = {}
    <3>1. To4(db) = mid
      BY <2>9, <2>10 DEF Invalidates
    <3>2. \A p \in 1 .. Len(db.eventRows) : db.eventRows[p].valid = TRUE
      BY <2>3, <2>4, <2>8, <2>10 DEF StoredRows
    <3>3. MadeOf(rows, db.checkpointRows, db.derived)
      <4>1. \A p \in 1 .. Len(db.eventRows) : rows[p] = db.eventRows[p]
        BY <2>5, <3>2
      <4>2. MadeOf(db.eventRows, db.checkpointRows, db.derived)
        BY DEF SoundStore
      <4>3. Len(db.checkpointRows) \in Nat /\ Len(db.eventRows) \in Nat
        BY <1>0, LenProperties DEF Stores
      <4> QED
        BY <2>2, <4>1, <4>2, <4>3 DEF MadeOf
    <3> QED
      BY <2>2, <2>5, <2>7, <3>1, <3>3 DEF SoundStore
  <2>11. CASE affected # {}
    <3>1. PICK changes : changes = [p \in DOMAIN mid.derived |->
                                      [mid.derived[p] EXCEPT !.versioned = FALSE]]
      OBVIOUS
    <3>2. PICK none \in Seq(StoredRows) : none = <<>> /\ Len(none) = 0
      BY EmptySeq
    <3>3. To4(db) = [mid EXCEPT !.checkpointRows = none, !.derived = changes]
      BY <2>9, <2>11, <3>1, <3>2 DEF Invalidates
    <3>4. /\ changes \in Seq(Derivations) /\ Len(changes) = Len(db.derived)
          /\ \A p \in 1 .. Len(db.derived) : changes[p].versioned = FALSE
      BY <1>0, <2>7, <3>1, Forgotten DEF Stores
    <3>5. /\ To4(db) \in Stores /\ To4(db).eventRows = rows /\ To4(db).layout = db.layout
          /\ To4(db).checkpointRows = none /\ To4(db).derived = changes
          /\ To4(db).usageLedger = db.usageLedger
      BY <2>7, <3>3, <3>4 DEF Stores
    <3>6. MadeOf(rows, none, changes)
      <4>1. Len(db.derived) = Len(db.eventRows) /\ Len(db.eventRows) \in Nat
        BY <2>3, LenProperties DEF SoundStore
      <4> QED
        BY <2>2, <3>2, <3>4, <4>1 DEF MadeOf
    <3> QED
      BY <2>2, <2>5, <3>4, <3>5, <3>6 DEF SoundStore
  <2> QED
    BY <2>10, <2>11
<1> QED
  BY <1>1, <1>2

\* Rows name files.
LEMMA NamedAreFiles ==
    ASSUME NEW rows \in Seq(StoredRows)
    PROVE  FilesNamed(rows) \subseteq Files
<1> SUFFICES ASSUME NEW p \in DOMAIN rows, rows[p].file # NoFile
             PROVE  rows[p].file \in Files
  BY DEF FilesNamed
<1>1. rows[p] \in StoredRows
  OBVIOUS
<1> QED
  BY <1>1 DEF StoredRows

\* The migration to schema 5 has every file that rows name read again.
LEMMA To5Sound ==
    ASSUME found.version \in Nat, NEW db, SoundStore(db)
    PROVE  /\ SoundStore(To5(db)) /\ To5(db).eventRows = db.eventRows
           /\ To5(db).layout = db.layout /\ To5(db).usageLedger = db.usageLedger
           /\ found.version < 5 => FilesNamed(db.eventRows) \subseteq To5(db).jobs
<1>0. db \in Stores
  BY DEF SoundStore
<1>1. CASE found.version >= 5
  <2>1. To5(db) = db
    BY <1>1 DEF To5
  <2> QED
    BY <1>1, <2>1
<1>2. CASE ~(found.version >= 5)
  <2>1. PICK more : more = db.jobs \cup FilesNamed(db.eventRows)
    OBVIOUS
  <2>2. more \in SUBSET Files
    BY <1>0, <2>1, NamedAreFiles DEF Stores
  <2>3. To5(db) = [db EXCEPT !.jobs = more]
    BY <1>2, <2>1 DEF To5
  <2>4. /\ To5(db) \in Stores /\ To5(db).layout = db.layout /\ To5(db).eventRows = db.eventRows
        /\ To5(db).checkpointRows = db.checkpointRows /\ To5(db).derived = db.derived
        /\ To5(db).usageLedger = db.usageLedger /\ To5(db).jobs = more
    BY <1>0, <2>2, <2>3 DEF Stores
  <2> QED
    BY <2>1, <2>4 DEF SoundStore
<1> QED
  BY <1>1, <1>2

\* The last two add what the layout does not have, and a ledger that counts
\* nothing and is complete only where there is nothing to count.
LEMMA To78Sound ==
    ASSUME NEW db, SoundStore(db)
    PROVE  LET after == To8(To7(db)) IN
           /\ SoundStore(after) /\ after.eventRows = db.eventRows /\ after.jobs = db.jobs
           /\ \A x : x \in after.layout <=>
                 \/ x \in db.layout \/ x \in {"readModels", "backfillState"}
                 \/ x = "sync" /\ found.version < 6
                 \/ x = "samples" /\ found.version < 7
           /\ after.usageLedger.counted = {}
           /\ after.usageLedger.complete = (db.eventRows = <<>>)
<1>0. db \in Stores
  BY DEF SoundStore
<1> DEFINE seven == To7(db)
           after == To8(seven)
<1>1. PICK l7 : l7 = db.layout \cup (IF found.version < 6 THEN {"sync"} ELSE {})
                               \cup (IF found.version < 7 THEN {"samples"} ELSE {})
  OBVIOUS
<1>2. l7 \in SUBSET Features
  BY <1>0, <1>1 DEF Stores, Features, CurrentLayout
<1>3. seven = [db EXCEPT !.layout = l7]
  BY <1>1 DEF To7
<1>4. /\ seven \in Stores /\ seven.layout = l7 /\ seven.eventRows = db.eventRows
      /\ seven.checkpointRows = db.checkpointRows /\ seven.derived = db.derived
      /\ seven.jobs = db.jobs
  BY <1>0, <1>2, <1>3 DEF Stores
<1> HIDE DEF seven
<1>5. PICK l8 : l8 = l7 \cup {"readModels", "backfillState"}
  OBVIOUS
<1>6. PICK empty \in BOOLEAN : empty = (db.eventRows = <<>>)
  OBVIOUS
<1>7. PICK ledger : ledger = [counted |-> {}, complete |-> empty]
  OBVIOUS
<1>8. after = [seven EXCEPT !.layout = l8, !.usageLedger = ledger]
  BY <1>4, <1>5, <1>6, <1>7 DEF To8
<1>9. l8 \in SUBSET Features /\ ledger \in [counted : SUBSET Nat, complete : BOOLEAN]
      /\ ledger.counted = {} /\ ledger.complete = empty
  <2>1. l8 \in SUBSET Features
    BY <1>2, <1>5 DEF Features, CurrentLayout
  <2>2. ledger \in [counted : SUBSET Nat, complete : BOOLEAN]
    BY <1>6, <1>7
  <2> QED
    BY <1>7, <2>1, <2>2
<1>10. /\ after \in Stores /\ after.layout = l8 /\ after.eventRows = db.eventRows
       /\ after.checkpointRows = db.checkpointRows /\ after.derived = db.derived
       /\ after.jobs = db.jobs /\ after.usageLedger = ledger
  BY <1>4, <1>8, <1>9 DEF Stores
<1> HIDE DEF after
<1>11. SoundStore(after)
  BY <1>10 DEF SoundStore
<1>12. \A x : x \in after.layout <=>
                 \/ x \in db.layout \/ x \in {"readModels", "backfillState"}
                 \/ x = "sync" /\ found.version < 6
                 \/ x = "samples" /\ found.version < 7
  BY <1>1, <1>5, <1>10
<1> QED
  BY <1>6, <1>9, <1>10, <1>11, <1>12 DEF after, seven

\* What the transaction of all migrations leaves: a store of the current
\* schema.
LEMMA MigratedStore ==
    ASSUME UpgradeInv, opening = "migrate"
    PROVE  /\ SoundStore(Upgraded)
           /\ \A p \in 1 .. Len(Upgraded.eventRows) : Upgraded.eventRows[p].valid = TRUE
           /\ Len(Upgraded.eventRows) = Len(eventRows)
           /\ CurrentLayout \subseteq Upgraded.layout /\ "byLocation" \notin Upgraded.layout
           /\ Upgraded.usageLedger.complete = TRUE => Upgraded.eventRows = <<>>
           /\ Upgraded.usageLedger.counted = {}
           /\ found.version < 5 => FilesNamed(Upgraded.eventRows) \subseteq Upgraded.jobs
<1>1. /\ found.version = marked /\ found.version \in Nat /\ found.version < Current
      /\ {"sessions", "events", "versions"} \subseteq layout
      /\ "byLocation" \in layout \/ "byEvent" \in layout
  BY DEF UpgradeInv, UpgradeTypeOK, UpgradeParts, Opened, LaidOutAt, Older
<1>2. /\ "byLocation" \in layout => marked = 2
      /\ marked >= 6 => "sync" \in layout
      /\ marked >= 7 => "samples" \in layout
  BY DEF UpgradeInv, UpgradeParts, LaidOutAs
<1>3. PICK d2 : d2 = To2(Store)
  OBVIOUS
<1>4. SoundStore(d2) /\ d2.layout = layout /\ (found.version >= 4 => d2.eventRows = eventRows)
      /\ Len(d2.eventRows) = Len(eventRows)
  BY <1>1, <1>3, To2Sound
<1>5. PICK d3 : d3 = To3(d2)
  OBVIOUS
<1>6. /\ SoundStore(d3) /\ d3.eventRows = d2.eventRows
      /\ {"sessions", "events", "versions"} \subseteq d3.layout
      /\ "byLocation" \notin d3.layout /\ "byEvent" \in d3.layout
      /\ \A x \in {"sync", "samples"} : x \in layout => x \in d3.layout
  BY <1>1, <1>2, <1>4, <1>5, To3Sound
<1>7. PICK d4 : d4 = To4(d3)
  OBVIOUS
<1>8. found.version >= 4 => \A p \in 1 .. Len(d3.eventRows) : d3.eventRows[p].valid = TRUE
  BY <1>1, <1>4, <1>6 DEF UpgradeInv, UpgradeParts, Contract
<1>9. /\ SoundStore(d4) /\ d4.layout = d3.layout
      /\ \A p \in 1 .. Len(d4.eventRows) : d4.eventRows[p].valid = TRUE
      /\ Len(d4.eventRows) = Len(d3.eventRows)
  BY <1>1, <1>6, <1>7, <1>8, To4Sound
<1>10. PICK d5 : d5 = To5(d4)
  OBVIOUS
<1>11. /\ SoundStore(d5) /\ d5.eventRows = d4.eventRows /\ d5.layout = d3.layout
       /\ found.version < 5 => FilesNamed(d4.eventRows) \subseteq d5.jobs
  BY <1>1, <1>9, <1>10, To5Sound
<1>12. PICK after : after = To8(To7(d5))
  OBVIOUS
<1>13. /\ SoundStore(after) /\ after.eventRows = d5.eventRows /\ after.jobs = d5.jobs
       /\ \A x : x \in after.layout <=>
                 \/ x \in d5.layout \/ x \in {"readModels", "backfillState"}
                 \/ x = "sync" /\ found.version < 6
                 \/ x = "samples" /\ found.version < 7
       /\ after.usageLedger.counted = {}
       /\ after.usageLedger.complete = (d5.eventRows = <<>>)
  BY <1>11, <1>12, To78Sound
<1>14. Upgraded = after
  BY <1>3, <1>5, <1>7, <1>10, <1>12 DEF Upgraded
<1>15. CurrentLayout \subseteq after.layout /\ "byLocation" \notin after.layout
  BY <1>1, <1>2, <1>6, <1>11, <1>13 DEF CurrentLayout
<1> QED
  BY <1>4, <1>6, <1>9, <1>11, <1>13, <1>14, <1>15

\* The stores an upgrade starts from.
LEMMA RowsOfVersion ==
    ASSUME NEW v \in Nat, NEW row \in RowsOf(v)
    PROVE  /\ row \in StoredRows /\ row.name \in {1, 2}
           /\ v >= 2 => row.ts = "canonical"
           /\ v >= 4 => row.valid = TRUE
<1> DEFINE stamps == IF v < 2 THEN {"canonical", "loose", "none"} ELSE {"canonical"}
           shapes == IF v < 4 THEN BOOLEAN ELSE {TRUE}
           suffixes == IF v < 2 THEN BOOLEAN ELSE {TRUE}
           hooks == {Row(1, TRUE, suffixed, ts, valid, NoFile) :
                       suffixed \in suffixes, ts \in stamps, valid \in shapes}
           records == {Row(2, FALSE, FALSE, ts, valid, f) :
                         ts \in stamps, valid \in shapes, f \in Files}
<1>1. RowsOf(v) = hooks \cup records
  BY DEF RowsOf
<1>2. /\ stamps \subseteq Stamps /\ (v >= 2 => stamps = {"canonical"})
  BY DEF Stamps
<1>3. /\ shapes \subseteq BOOLEAN /\ (v >= 4 => shapes = {TRUE})
  <2>1. CASE v < 4
    <3>1. shapes = BOOLEAN
      BY <2>1
    <3>2. ~(v >= 4)
      BY <2>1
    <3> QED
      BY <3>1, <3>2
  <2>2. CASE ~(v < 4)
    <3>1. shapes = {TRUE}
      BY <2>2
    <3> QED
      BY <3>1
  <2> QED
    BY <2>1, <2>2
<1>4. suffixes \subseteq BOOLEAN
  <2>1. CASE v < 2 BY <2>1
  <2>2. CASE ~(v < 2) BY <2>2
  <2> QED BY <2>1, <2>2
<1> HIDE DEF stamps, shapes, suffixes
<1>5. CASE row \in hooks
  <2>1. PICK suffixed \in suffixes, ts \in stamps, valid \in shapes :
          row = Row(1, TRUE, suffixed, ts, valid, NoFile)
    BY <1>5 DEF Row
  <2>2. row \in StoredRows /\ row.name = 1 /\ row.ts = ts /\ row.valid = valid
    BY <1>2, <1>3, <1>4, <2>1 DEF Row, StoredRows
  <2> QED
    BY <1>2, <1>3, <2>2
<1>6. CASE row \in records
  <2>1. PICK ts \in stamps, valid \in shapes, f \in Files :
          row = Row(2, FALSE, FALSE, ts, valid, f)
    BY <1>6 DEF Row
  <2>2. row \in StoredRows /\ row.name = 2 /\ row.ts = ts /\ row.valid = valid
    BY <1>2, <1>3, <2>1 DEF Row, StoredRows
  <2> QED
    BY <1>2, <1>3, <2>2
<1>7. row \in hooks \/ row \in records
  <2> HIDE DEF hooks, records
  <2> QED
    BY <1>1
<1> HIDE DEF hooks, records
<1> QED
  BY <1>5, <1>6, <1>7

\* It holds of the stores there are.
LEMMA UpgradeInitially == UpgradeInit => UpgradeInv
<1> SUFFICES ASSUME UpgradeInit
             PROVE  UpgradeInv
  OBVIOUS
<1>1. /\ opening = "closed" /\ found = [version |-> 0, tables |-> FALSE, named |-> {}]
      /\ jobs = {}
  BY DEF UpgradeInit
<1>2. Opened /\ LaidOutAt
  BY <1>1 DEF Opened, LaidOutAt, Creating
<1>3. CASE /\ marked = 0 /\ layout = {} /\ eventRows = <<>> /\ cursors = {}
           /\ checkpointRows = <<>> /\ derived = <<>>
           /\ usageLedger = [counted |-> {}, complete |-> FALSE]
  <2>1. Len(eventRows) = 0 /\ Len(checkpointRows) = 0 /\ Len(derived) = 0
    BY <1>3
  <2>2. UpgradeTypeOK
    <3>1. usageLedger \in [counted : SUBSET Nat, complete : BOOLEAN]
      BY <1>3
    <3> QED
      BY <1>1, <1>3, <2>1, <3>1, EmptySeq DEF UpgradeTypeOK, Places
  <2>3. IdsAreDistinct /\ Contract(marked) /\ MadeOfThem /\ Counted
    BY <1>3, <2>1 DEF IdsAreDistinct, Apart, Contract, MadeOfThem, MadeOf, Counted
  <2>4. LaidOutAs(marked)
    BY <1>3 DEF LaidOutAs, Current
  <2> QED
    BY <1>2, <2>2, <2>3, <2>4 DEF UpgradeInv, UpgradeParts
<1>4. ASSUME NEW v \in {0, 2, 3, 4, 7, Current, Current + 1},
             marked = v, layout = LayoutOf(v),
             eventRows \in UNION {[1 .. n -> RowsOf(v)] : n \in 0 .. 2},
             \A p, q \in DOMAIN eventRows : p # q => Id(p) # Id(q),
             checkpointRows \in {<<>>, eventRows},
             derived = [p \in DOMAIN eventRows |-> [of |-> eventRows[p], versioned |-> v >= 2]],
             cursors \in SUBSET Files,
             usageLedger = [counted |-> IF v >= 8 THEN DOMAIN eventRows ELSE {},
                            complete |-> v >= 8]
      PROVE  UpgradeInv
  <2>0. v \in Nat
    BY DEF Current
  <2>1. PICK n \in 0 .. 2 : eventRows \in [1 .. n -> RowsOf(v)]
    BY <1>4
  <2>2. \A p \in 1 .. n : /\ eventRows[p] \in StoredRows /\ eventRows[p].name \in {1, 2}
                          /\ v >= 2 => eventRows[p].ts = "canonical"
                          /\ v >= 4 => eventRows[p].valid = TRUE
    BY <2>0, <2>1, RowsOfVersion
  <2>3. eventRows \in Seq(StoredRows) /\ Len(eventRows) = n /\ DOMAIN eventRows = 1 .. n
    <3>1. eventRows \in [1 .. n -> StoredRows]
      BY <2>1, <2>2
    <3> QED
      BY <3>1
  <2>4. Apart(eventRows)
    BY <1>4, <2>3, IdsApart
  <2>5. PICK b \in BOOLEAN : b = (v >= 2)
    <3>1. (v >= 2) \in BOOLEAN
      BY <2>0
    <3> QED
      BY <3>1, Zenon
  <2>6. derived \in [1 .. n -> Derivations]
    BY <1>4, <2>2, <2>3, <2>5 DEF Derivations
  <2>7. /\ derived \in Seq(Derivations) /\ Len(derived) = n
        /\ \A p \in 1 .. n : derived[p].of = eventRows[p]
    BY <1>4, <2>3, <2>6
  <2>8. checkpointRows \in Seq(StoredRows) /\ MadeOfThem
    <3>1. CASE checkpointRows = <<>>
      <4>1. Len(checkpointRows) = 0 /\ checkpointRows \in Seq(StoredRows)
        BY <3>1, EmptySeq
      <4> QED
        BY <2>3, <2>7, <4>1 DEF MadeOfThem, MadeOf
    <3>2. CASE checkpointRows = eventRows
      BY <2>3, <2>7, <3>2 DEF MadeOfThem, MadeOf
    <3> QED
      BY <1>4, <3>1, <3>2
  <2>9. /\ usageLedger \in [counted : SUBSET Nat, complete : BOOLEAN]
        /\ Counted
    <3>1. PICK counted : counted = (IF v >= 8 THEN DOMAIN eventRows ELSE {})
      OBVIOUS
    <3>2. PICK complete \in BOOLEAN : complete = (v >= 8)
      <4>1. (v >= 8) \in BOOLEAN
        BY <2>0
      <4> QED
        BY <4>1, Zenon
    <3>3. usageLedger = [counted |-> counted, complete |-> complete]
      BY <1>4, <3>1, <3>2
    <3>4. counted \in SUBSET Nat
      BY <2>3, <3>1
    <3> QED
      BY <2>3, <3>1, <3>2, <3>3, <3>4 DEF Counted
  <2>10. /\ layout \in SUBSET Features /\ LaidOutAs(marked)
    <3>1. layout \in SUBSET Features
      BY <1>4 DEF LayoutOf, Features, CurrentLayout
    <3>2. {"sessions", "events"} \subseteq layout
      BY <1>4 DEF LayoutOf
    <3>3. "byLocation" \in layout => v = 2
      BY <1>4 DEF LayoutOf
    <3>4. /\ v >= 6 => "sync" \in layout
          /\ v >= 7 => "samples" \in layout
      BY <1>4 DEF LayoutOf
    <3>5. v >= 8 => CurrentLayout \subseteq layout
      BY <1>4 DEF LayoutOf, CurrentLayout
    <3> QED
      BY <1>4, <3>1, <3>2, <3>3, <3>4, <3>5 DEF LaidOutAs, Current
  <2>11. UpgradeTypeOK
    BY <1>1, <1>4, <2>0, <2>3, <2>7, <2>8, <2>9, <2>10 DEF UpgradeTypeOK, Places
  <2>12. IdsAreDistinct
    BY <2>2, <2>3, <2>4 DEF IdsAreDistinct
  <2>13. Contract(marked)
    BY <1>4, <2>2, <2>3 DEF Contract
  <2> QED
    BY <1>2, <2>8, <2>9, <2>10, <2>11, <2>12, <2>13 DEF UpgradeInv, UpgradeParts
<1> QED
  BY <1>3, <1>4 DEF UpgradeInit

\* Every step keeps the invariant.
LEMMA UpgradeSteps == UpgradeInv /\ [UpgradeNext]_upgradeVars => UpgradeInv'
<1> SUFFICES ASSUME UpgradeInv, [UpgradeNext]_upgradeVars
             PROVE  UpgradeInv'
  OBVIOUS
<1>1. /\ UpgradeTypeOK /\ IdsAreDistinct /\ Contract(marked) /\ MadeOfThem /\ Counted
      /\ LaidOutAs(marked) /\ Opened /\ LaidOutAt
  BY DEF UpgradeInv, UpgradeParts
<1>2. ASSUME UNCHANGED contentVars, UNCHANGED marked
      PROVE  /\ IdsAreDistinct' /\ Contract(marked)' /\ MadeOfThem' /\ Counted'
             /\ \A v : Contract(v)' <=> Contract(v)
             /\ FilesNamed(eventRows)' = FilesNamed(eventRows)
  <2>1. UNCHANGED <<eventRows, checkpointRows, derived, usageLedger>>
    BY <1>2 DEF contentVars
  <2>2. IdsAreDistinct'
    BY <1>1, <2>1 DEF IdsAreDistinct, Apart
  <2>3. MadeOfThem'
    BY <1>1, <2>1 DEF MadeOfThem, MadeOf
  <2>4. Counted'
    BY <1>1, <2>1 DEF Counted
  <2>5. \A v : Contract(v)' <=> Contract(v)
    BY <2>1 DEF Contract
  <2>6. Contract(marked)'
    BY <1>1, <1>2, <2>1 DEF Contract
  <2>7. FilesNamed(eventRows)' = FilesNamed(eventRows)
    BY <2>1 DEF FilesNamed
  <2> QED
    BY <2>2, <2>3, <2>4, <2>5, <2>6, <2>7
<1>3. ASSUME UNCHANGED contentVars, UNCHANGED marked, UNCHANGED layout,
             opening' = "closed", UNCHANGED found
      PROVE  UpgradeInv'
  <2>1. UpgradeTypeOK'
    BY <1>1, <1>3 DEF UpgradeTypeOK, contentVars, Places
  <2>2. LaidOutAs(marked)'
    BY <1>1, <1>3 DEF LaidOutAs, contentVars
  <2>3. Opened' /\ LaidOutAt'
    BY <1>3 DEF Opened, LaidOutAt, Creating
  <2> QED
    BY <1>2, <1>3, <2>1, <2>2, <2>3 DEF UpgradeInv, UpgradeParts
<1>4. CASE OpenStore
  <2>1. /\ opening = "closed" /\ marked <= Current /\ opening' = "tables"
        /\ found' = [version |-> marked, tables |-> "events" \in layout,
                     named |-> FilesNamed(eventRows)]
        /\ UNCHANGED <<marked, layout, contentVars>>
    BY <1>4 DEF OpenStore
  <2>2. /\ found'.version = marked /\ found'.tables = ("events" \in layout)
    BY <2>1
  <2>3. ("events" \in layout) \in BOOLEAN
    OBVIOUS
  <2>4. UpgradeTypeOK'
    BY <1>1, <2>1, <2>2, <2>3 DEF UpgradeTypeOK, contentVars, Places
  <2>5. LaidOutAs(marked)'
    BY <1>1, <2>1 DEF LaidOutAs, contentVars
  <2>6. Opened'
    BY <1>1, <2>1, <2>2 DEF Opened, LaidOutAs, contentVars
  <2>7. LaidOutAt'
    BY <2>1, <2>2 DEF LaidOutAt, Creating
  <2> QED
    BY <1>2, <2>1, <2>4, <2>5, <2>6, <2>7 DEF UpgradeInv, UpgradeParts
<1>5. CASE CreateTables
  <2>1. /\ opening = "tables" /\ UNCHANGED contentVars /\ UNCHANGED <<marked, found>>
    BY <1>5 DEF CreateTables, Continues
  <2>2. found.version = marked /\ marked <= Current /\ (found.tables = FALSE => eventRows = <<>>)
        /\ (found.tables = TRUE <=> "events" \in layout)
    BY <1>1, <2>1 DEF Opened, LaidOutAt
  <2>3. CASE layout' = layout \cup {"sessions"} /\ opening' = "tables"
    <3>1. UpgradeTypeOK'
      BY <1>1, <2>1, <2>3 DEF UpgradeTypeOK, contentVars, Places, Features, CurrentLayout
    <3>2. LaidOutAs(marked)'
      BY <1>1, <2>1, <2>3 DEF LaidOutAs, contentVars
    <3>3. Opened'
      BY <2>1, <2>2, <2>3 DEF Opened, contentVars
    <3>4. LaidOutAt'
      BY <2>1, <2>2, <2>3 DEF LaidOutAt, Creating
    <3> QED
      BY <1>2, <2>1, <3>1, <3>2, <3>3, <3>4 DEF UpgradeInv, UpgradeParts
  <2>4. CASE /\ "sessions" \in layout
             /\ layout' = layout \cup
                  (IF "events" \in layout THEN {"events"} ELSE {"events", "versions"}) \cup
                  (IF {"byLocation", "byEvent"} \cap layout = {} THEN {"byEvent"} ELSE {})
             /\ opening' = IF NewStore THEN "sync" ELSE "column"
    <3>1. /\ {"sessions", "events"} \subseteq layout' /\ layout \subseteq layout'
          /\ "byLocation" \in layout' <=> "byLocation" \in layout
          /\ "byLocation" \in layout' \/ "byEvent" \in layout'
          /\ "events" \notin layout => "versions" \in layout'
          /\ layout' \in SUBSET Features
      BY <1>1, <2>4 DEF UpgradeTypeOK, Features, CurrentLayout
    <3>2. UpgradeTypeOK'
      BY <1>1, <2>1, <2>4, <3>1 DEF UpgradeTypeOK, contentVars, Places, Creating
    <3>3. LaidOutAs(marked)'
      BY <1>1, <2>1, <3>1 DEF LaidOutAs, contentVars
    <3>4. Opened'
      BY <2>1, <2>2 DEF Opened, contentVars
    <3>5. NewStore' <=> NewStore
      BY <2>1 DEF NewStore
    <3>6. CASE NewStore
      <4>1. "versions" \in layout' /\ "byEvent" \in layout'
        BY <1>1, <2>2, <3>1, <3>6 DEF NewStore, LaidOutAs
      <4> QED
        BY <1>2, <2>1, <2>4, <3>1, <3>2, <3>3, <3>4, <3>5, <3>6, <4>1
           DEF UpgradeInv, UpgradeParts, LaidOutAt, Creating
    <3>7. CASE ~NewStore
      <4>1. found.version = Current => CurrentLayout \subseteq layout'
        BY <1>1, <2>2, <3>1 DEF LaidOutAs, Current
      <4>2. LaidOutAt'
        BY <2>1, <2>4, <3>1, <3>5, <3>7, <4>1 DEF LaidOutAt, Creating
      <4> QED
        BY <1>2, <2>1, <3>2, <3>3, <3>4, <4>2 DEF UpgradeInv, UpgradeParts
    <3> QED
      BY <3>6, <3>7
  <2> QED
    BY <1>5, <2>3, <2>4 DEF CreateTables, Continues
<1>6. CASE CreateRest
  <2>1. /\ opening \in Creating /\ UNCHANGED <<eventRows, checkpointRows, derived, cursors, jobs>>
        /\ UNCHANGED <<marked, found>>
    BY <1>6 DEF CreateRest, Continues, Creating
  <2>2. /\ NewStore /\ {"sessions", "events", "byEvent", "versions"} \subseteq layout
        /\ opening \in {"samples", "models", "emptied", "state"} => "sync" \in layout
        /\ opening \in {"models", "emptied", "state"} => "samples" \in layout
        /\ opening \in {"emptied", "state"} => "readModels" \in layout
    BY <1>1, <2>1 DEF LaidOutAt
  <2>3. found.version = 0 /\ marked = 0 /\ found.tables = FALSE /\ eventRows = <<>>
    BY <1>1, <2>1, <2>2 DEF Opened, NewStore, Creating, UpgradeTypeOK
  <2>4. NewStore' /\ (FilesNamed(eventRows)' = FilesNamed(eventRows))
    BY <2>1, <2>2 DEF NewStore, FilesNamed
  <2>5. \A x \in {"sessions", "events", "byEvent", "versions", "sync", "samples", "readModels"} :
           x \in layout => x \in layout'
    BY <1>6 DEF CreateRest
  <2>6. "byLocation" \notin layout' /\ layout' \in SUBSET Features
    <3>1. "byLocation" \notin layout
      BY <1>1, <2>3 DEF LaidOutAs
    <3> QED
      BY <1>1, <1>6, <3>1 DEF CreateRest, UpgradeTypeOK, Features, CurrentLayout
  <2>7. LaidOutAs(marked)'
    BY <2>1, <2>2, <2>3, <2>5, <2>6 DEF LaidOutAs, Current
  <2>8. /\ usageLedger' \in [counted : SUBSET Nat, complete : BOOLEAN]
        /\ Counted' /\ (opening' = "state" => usageLedger'.counted = {})
        /\ opening' \in {"samples", "models", "emptied", "state", "column"}
    <3>1. CASE opening \in {"sync", "samples", "models"} /\ UNCHANGED usageLedger
               /\ opening' \in {"samples", "models", "emptied"}
      BY <1>1, <2>1, <3>1 DEF UpgradeTypeOK, Counted
    <3>2. CASE opening' = "state" /\ usageLedger' = [counted |-> {}, complete |-> FALSE]
      BY <3>2 DEF Counted
    <3>3. CASE /\ opening = "state" /\ opening' = "column"
               /\ usageLedger' = [usageLedger EXCEPT !.complete = eventRows = <<>>]
      <4>1. PICK empty \in BOOLEAN : empty = (eventRows = <<>>)
        OBVIOUS
      <4>2. usageLedger' = [usageLedger EXCEPT !.complete = empty]
        BY <3>3, <4>1
      <4>3. usageLedger.counted = {}
        BY <1>1, <3>3 DEF LaidOutAt
      <4>4. /\ usageLedger' \in [counted : SUBSET Nat, complete : BOOLEAN]
            /\ usageLedger'.counted = {}
        BY <1>1, <4>2, <4>3 DEF UpgradeTypeOK
      <4>5. Len(eventRows') = 0
        BY <2>1, <2>3
      <4> QED
        BY <3>3, <4>4, <4>5 DEF Counted
    <3> QED
      BY <1>6, <3>1, <3>2, <3>3 DEF CreateRest, Continues
  <2>9. UpgradeTypeOK'
    BY <1>1, <2>1, <2>6, <2>8 DEF UpgradeTypeOK, Places, Creating
  <2>10. IdsAreDistinct' /\ Contract(marked)' /\ MadeOfThem'
    BY <1>1, <2>1 DEF IdsAreDistinct, Apart, Contract, MadeOfThem, MadeOf
  <2>11. Opened'
    BY <1>1, <2>1, <2>3, <2>8 DEF Opened, Creating
  <2>12. /\ opening' \in {"samples", "models", "emptied", "state", "column"} => "sync" \in layout'
         /\ opening' \in {"models", "emptied", "state", "column"} => "samples" \in layout'
         /\ opening' \in {"emptied", "state", "column"} => "readModels" \in layout'
         /\ opening' = "column" => "backfillState" \in layout'
    BY <1>6, <2>2 DEF CreateRest, Continues
  <2>13. opening' = "column" => CurrentLayout \subseteq layout'
    BY <2>2, <2>5, <2>12 DEF CurrentLayout
  <2>14. LaidOutAt'
    BY <2>2, <2>4, <2>5, <2>8, <2>12, <2>13 DEF LaidOutAt, Creating
  <2> QED
    BY <2>7, <2>8, <2>9, <2>10, <2>11, <2>14 DEF UpgradeInv, UpgradeParts
<1>7. CASE AddColumn
  <2>1. /\ opening = "column" /\ layout' = layout \cup {"versions"}
        /\ opening' = (IF Older THEN "migrate" ELSE "mark")
        /\ UNCHANGED contentVars /\ UNCHANGED <<marked, found>>
    BY <1>7 DEF AddColumn, Continues
  <2>2. /\ found.version = marked /\ marked <= Current /\ (found.tables = FALSE => eventRows = <<>>)
        /\ {"sessions", "events"} \subseteq layout
        /\ "byLocation" \in layout \/ "byEvent" \in layout
        /\ NewStore \/ found.version = Current => CurrentLayout \subseteq layout
        /\ found.version \in Nat
    BY <1>1, <2>1 DEF Opened, LaidOutAt, UpgradeTypeOK
  <2>3. UpgradeTypeOK'
    BY <1>1, <2>1 DEF UpgradeTypeOK, contentVars, Places, Features, CurrentLayout
  <2>4. LaidOutAs(marked)'
    BY <1>1, <2>1 DEF LaidOutAs, contentVars
  <2>5. Opened'
    BY <2>1, <2>2 DEF Opened, contentVars
  <2>6. CASE Older
    <3>1. Older'
      BY <2>1, <2>6 DEF Older, NewStore
    <3>2. LaidOutAt'
      BY <2>1, <2>2, <2>6, <3>1 DEF LaidOutAt, Creating
    <3> QED
      BY <1>2, <2>1, <2>3, <2>4, <2>5, <3>2 DEF UpgradeInv, UpgradeParts
  <2>7. CASE ~Older
    <3>1. NewStore \/ found.version = Current
      BY <2>2, <2>7 DEF Older, Current
    <3>2. CurrentLayout \subseteq layout' /\ "byLocation" \notin layout'
      BY <1>1, <2>1, <2>2, <3>1 DEF LaidOutAs, NewStore, Current
    <3>3. Contract(Current)'
      <4>1. CASE NewStore
        <5>1. Len(eventRows) = 0
          BY <1>1, <2>2, <4>1 DEF NewStore, UpgradeTypeOK
        <5>2. Contract(Current)
          BY <5>1 DEF Contract
        <5> QED
          BY <1>2, <2>1, <5>2
      <4>2. CASE found.version = Current
        BY <1>1, <1>2, <2>1, <2>2, <4>2
      <4> QED
        BY <3>1, <4>1, <4>2
    <3>4. found.version < 5 => FilesNamed(eventRows) = {}
      <4>1. CASE NewStore
        BY <1>1, <2>2, <4>1 DEF NewStore, UpgradeTypeOK, FilesNamed
      <4>2. CASE found.version = Current
        BY <4>2 DEF Current
      <4> QED
        BY <3>1, <4>1, <4>2
    <3>5. LaidOutAt'
      BY <1>2, <2>1, <2>2, <2>7, <3>2, <3>3, <3>4 DEF LaidOutAt, Creating
    <3> QED
      BY <1>2, <2>1, <2>3, <2>4, <2>5, <3>5 DEF UpgradeInv, UpgradeParts
  <2> QED
    BY <2>6, <2>7
<1>8. CASE Migrate
  <2>1. /\ opening = "migrate"
        /\ layout' = Upgraded.layout /\ derived' = Upgraded.derived /\ jobs' = Upgraded.jobs
        /\ eventRows' = Upgraded.eventRows /\ checkpointRows' = Upgraded.checkpointRows
        /\ usageLedger' = Upgraded.usageLedger
        /\ opening' = "mark" /\ UNCHANGED <<cursors, marked, found>>
    BY <1>8 DEF Migrate, Continues
  <2>2. PICK after : after = Upgraded
    OBVIOUS
  <2>3. /\ SoundStore(after)
        /\ \A p \in 1 .. Len(after.eventRows) : after.eventRows[p].valid = TRUE
        /\ CurrentLayout \subseteq after.layout /\ "byLocation" \notin after.layout
        /\ after.usageLedger.complete = TRUE => after.eventRows = <<>>
        /\ after.usageLedger.counted = {}
        /\ found.version < 5 => FilesNamed(after.eventRows) \subseteq after.jobs
    BY <2>1, <2>2, MigratedStore
  <2>4. /\ layout' = after.layout /\ derived' = after.derived /\ jobs' = after.jobs
        /\ eventRows' = after.eventRows /\ checkpointRows' = after.checkpointRows
        /\ usageLedger' = after.usageLedger
    BY <2>1, <2>2
  <2>5. /\ found.version = marked /\ marked <= Current /\ Older /\ found.version \in Nat
    BY <1>1, <2>1 DEF Opened, LaidOutAt, UpgradeTypeOK
  <2>6. UpgradeTypeOK'
    BY <1>1, <2>1, <2>3, <2>4 DEF UpgradeTypeOK, SoundStore, Stores, Places
  <2>7. IdsAreDistinct' /\ MadeOfThem'
    BY <2>3, <2>4 DEF IdsAreDistinct, SoundStore, Apart, MadeOfThem, MadeOf
  <2>8. \A v : Contract(v)'
    BY <2>3, <2>4 DEF Contract, SoundStore
  <2>9. Counted'
    <3>1. usageLedger'.complete = TRUE => Len(eventRows') = 0
      BY <2>3, <2>4
    <3>2. usageLedger'.counted = 1 .. 0
      BY <2>3, <2>4
    <3> QED
      BY <3>1, <3>2 DEF Counted
  <2>10. LaidOutAs(marked)'
    BY <2>1, <2>3, <2>4 DEF LaidOutAs, CurrentLayout
  <2>11. Opened'
    <3>1. found.tables = FALSE => eventRows' = <<>>
      <4>1. ASSUME found.tables = FALSE PROVE eventRows' = <<>>
        <5>1. found.version # 0
          BY <2>5, <4>1 DEF Older, NewStore
        <5>2. eventRows = <<>>
          BY <1>1, <2>1, <4>1 DEF Opened
        <5>3. Len(eventRows') = 0 /\ eventRows' \in Seq(StoredRows)
          BY <2>1, <2>6, <5>2, MigratedStore DEF UpgradeTypeOK
        <5> QED
          BY <5>3, EmptySeq
      <4> QED
        BY <4>1
    <3> QED
      BY <2>1, <2>5, <3>1 DEF Opened
  <2>12. LaidOutAt'
    <3>1. FilesNamed(eventRows)' = FilesNamed(after.eventRows)
      BY <2>4 DEF FilesNamed
    <3> QED
      BY <2>1, <2>3, <2>4, <2>8, <3>1 DEF LaidOutAt, Creating, CurrentLayout
  <2> QED
    BY <2>6, <2>7, <2>8, <2>9, <2>10, <2>11, <2>12 DEF UpgradeInv, UpgradeParts
<1>9. CASE MarkVersion
  <2>1. /\ opening = "mark" /\ marked' = Current /\ opening' = "open"
        /\ UNCHANGED contentVars /\ UNCHANGED <<layout, found>>
    BY <1>9 DEF MarkVersion
  <2>2. CurrentLayout \subseteq layout /\ "byLocation" \notin layout /\ Contract(Current)
    BY <1>1, <2>1 DEF LaidOutAt
  <2>3. UpgradeTypeOK'
    BY <1>1, <2>1 DEF UpgradeTypeOK, contentVars, Places, Current
  <2>4. IdsAreDistinct' /\ MadeOfThem' /\ Counted' /\ Contract(marked)'
    BY <1>1, <2>1, <2>2 DEF contentVars, IdsAreDistinct, Apart, Contract, MadeOfThem, MadeOf,
       Counted
  <2>5. LaidOutAs(marked)'
    BY <2>1, <2>2 DEF LaidOutAs, CurrentLayout
  <2>6. Opened' /\ LaidOutAt'
    BY <2>1 DEF Opened, LaidOutAt, Creating
  <2> QED
    BY <2>3, <2>4, <2>5, <2>6 DEF UpgradeInv, UpgradeParts
<1>10. ASSUME opening = "open", UNCHANGED <<marked, layout, jobs, opening, found>>,
              UpgradeTypeOK', IdsAreDistinct', Contract(marked)', MadeOfThem', Counted'
       PROVE  UpgradeInv'
  <2>1. marked = Current
    BY <1>1, <1>10 DEF LaidOutAt
  <2>2. LaidOutAs(marked)'
    BY <1>1, <1>10, <2>1 DEF LaidOutAs, CurrentLayout, Current
  <2>3. Opened' /\ LaidOutAt'
    BY <1>10, <2>1 DEF Opened, LaidOutAt, Creating
  <2> QED
    BY <1>10, <2>2, <2>3 DEF UpgradeInv, UpgradeParts
<1>11. CASE Record
  <2>1. PICK f \in Files :
          /\ opening = "open"
          /\ eventRows' = Append(eventRows,
                            Row(3 + Len(eventRows), FALSE, FALSE, "canonical", TRUE, f))
          /\ cursors' = cursors \cup {f}
          /\ derived' = Append(derived, [of |-> eventRows'[Len(eventRows')], versioned |-> TRUE])
          /\ usageLedger' = [usageLedger EXCEPT !.counted = @ \cup {Len(eventRows')}]
          /\ UNCHANGED <<marked, layout, checkpointRows, jobs, opening, found>>
    BY <1>11 DEF Record
  <2>2. PICK n \in Nat : n = Len(eventRows) /\ n = Len(derived)
    BY <1>1, LenProperties DEF UpgradeTypeOK
  <2>3. PICK row : /\ row = Row(3 + n, FALSE, FALSE, "canonical", TRUE, f)
                   /\ eventRows' = Append(eventRows, row)
    BY <2>1, <2>2, Zenon
  <2>4. /\ row \in StoredRows /\ row.name = 3 + n /\ row.ts = "canonical" /\ row.valid = TRUE
    BY <2>2, <2>3 DEF Row, StoredRows, Stamps
  <2>5. /\ eventRows' \in Seq(StoredRows) /\ Len(eventRows') = n + 1
        /\ eventRows'[n + 1] = row
        /\ \A p \in 1 .. n : eventRows'[p] = eventRows[p]
    <3>1. eventRows' = Append(eventRows, row) /\ eventRows \in Seq(StoredRows)
      BY <1>1, <2>3 DEF UpgradeTypeOK
    <3>2. PICK longer : longer = Append(eventRows, row)
      OBVIOUS
    <3>3. /\ longer \in Seq(StoredRows) /\ Len(longer) = Len(eventRows) + 1
          /\ longer[Len(eventRows) + 1] = row
          /\ \A p \in 1 .. Len(eventRows) : longer[p] = eventRows[p]
      BY <2>4, <3>1, <3>2, AppendProperties
    <3> QED
      BY <2>2, <3>1, <3>2, <3>3
  <2>6. PICK change \in Derivations : change = [of |-> row, versioned |-> TRUE]
    BY <2>4 DEF Derivations
  <2>7. derived' = Append(derived, change)
    BY <2>1, <2>5, <2>6
  <2>8. /\ derived' \in Seq(Derivations) /\ Len(derived') = n + 1
        /\ derived'[n + 1] = change
        /\ \A p \in 1 .. n : derived'[p] = derived[p]
    BY <1>1, <2>2, <2>7, AppendProperties DEF UpgradeTypeOK
  <2>9. PICK more : more = usageLedger.counted \cup {n + 1}
    OBVIOUS
  <2>10. usageLedger' = [usageLedger EXCEPT !.counted = more]
    BY <2>1, <2>5, <2>9
  <2>11. /\ usageLedger' \in [counted : SUBSET Nat, complete : BOOLEAN]
         /\ usageLedger'.counted = more /\ usageLedger'.complete = usageLedger.complete
    BY <1>1, <2>9, <2>10 DEF UpgradeTypeOK
  <2>12. UpgradeTypeOK'
    BY <1>1, <2>1, <2>5, <2>8, <2>11 DEF UpgradeTypeOK
  <2>13. IdsAreDistinct'
    <3>1. \A p \in 1 .. n : eventRows[p].name <= 2 + p /\ eventRows[p].name \in Nat
      <4>1. \A p \in 1 .. n : eventRows[p] \in StoredRows
        BY <1>1, <2>2 DEF UpgradeTypeOK
      <4> QED
        BY <1>1, <2>2, <4>1 DEF IdsAreDistinct, StoredRows
    <3>2. \A p \in 1 .. n + 1 : eventRows'[p].name <= 2 + p
      BY <2>2, <2>4, <2>5, <3>1
    <3>3. \A p \in 1 .. n : eventRows'[p].name # eventRows'[n + 1].name
      BY <2>2, <2>4, <2>5, <3>1
    <3>4. Apart(eventRows)
      BY <1>1 DEF IdsAreDistinct
    <3>5. ASSUME NEW p \in 1 .. n + 1, NEW q \in 1 .. n + 1, p # q,
                 eventRows'[p].warning = FALSE, eventRows'[q].warning = FALSE,
                 eventRows'[p].name = eventRows'[q].name
          PROVE  eventRows'[p].suffixed # eventRows'[q].suffixed
      <4>1. p \in 1 .. n /\ q \in 1 .. n
        BY <2>2, <3>3, <3>5
      <4> QED
        BY <2>2, <2>5, <3>4, <3>5, <4>1 DEF Apart
    <3> QED
      BY <2>5, <3>2, <3>5 DEF IdsAreDistinct, Apart
  <2>14. Contract(marked)'
    <3> SUFFICES ASSUME NEW p \in 1 .. n + 1
                 PROVE  /\ marked >= 2 => eventRows'[p].ts \notin {"none", "loose"}
                        /\ marked >= 4 => eventRows'[p].valid = TRUE
      BY <2>1, <2>5 DEF Contract
    <3>1. CASE p = n + 1
      BY <2>4, <2>5, <3>1
    <3>2. CASE p \in 1 .. n
      BY <1>1, <2>2, <2>5, <3>2 DEF Contract
    <3>3. p = n + 1 \/ p \in 1 .. n
      BY <2>2
    <3> QED
      BY <3>1, <3>2, <3>3
  <2>15. MadeOfThem'
    <3>1. Len(checkpointRows) \in Nat /\ Len(checkpointRows) <= n
      BY <1>1, <2>2, LenProperties DEF MadeOfThem, MadeOf, UpgradeTypeOK
    <3>2. \A p \in 1 .. Len(checkpointRows) : checkpointRows[p] = eventRows'[p]
      BY <1>1, <2>2, <2>5, <3>1 DEF MadeOfThem, MadeOf
    <3>3. \A p \in 1 .. n + 1 : derived'[p].versioned = TRUE => derived'[p].of = eventRows'[p]
      <4> SUFFICES ASSUME NEW p \in 1 .. n + 1, derived'[p].versioned = TRUE
                   PROVE  derived'[p].of = eventRows'[p]
        OBVIOUS
      <4>1. CASE p = n + 1
        <5>1. derived'[p] = change /\ eventRows'[p] = row
          BY <2>5, <2>8, <4>1
        <5> QED
          BY <2>6, <5>1
      <4>2. CASE p \in 1 .. n
        <5>1. derived'[p] = derived[p] /\ eventRows'[p] = eventRows[p]
          BY <2>5, <2>8, <4>2
        <5>2. derived[p].versioned = TRUE => derived[p].of = eventRows[p]
          BY <1>1, <2>2, <4>2 DEF MadeOfThem, MadeOf
        <5> QED
          BY <4>2, <5>1, <5>2
      <4>3. p = n + 1 \/ p \in 1 .. n
        BY <2>2
      <4> QED
        BY <4>1, <4>2, <4>3
    <3>4. MadeOf(eventRows', checkpointRows, derived')
      BY <2>2, <2>5, <3>1, <3>2, <3>3 DEF MadeOf
    <3> QED
      BY <2>1, <3>4 DEF MadeOfThem
  <2>16. Counted'
    BY <1>1, <2>2, <2>5, <2>9, <2>11 DEF Counted
  <2> QED
    BY <1>10, <2>1, <2>12, <2>13, <2>14, <2>15, <2>16
<1>12. CASE Replay
  <2>1. /\ opening = "open" /\ checkpointRows' = eventRows
        /\ derived' = [p \in DOMAIN eventRows |->
                         IF derived[p].versioned THEN derived[p]
                         ELSE [of |-> eventRows[p], versioned |-> TRUE]]
        /\ UNCHANGED <<marked, layout, eventRows, cursors, jobs, usageLedger, opening, found>>
    BY <1>12 DEF Replay
  <2>2. PICK n \in Nat : n = Len(eventRows) /\ n = Len(derived) /\ DOMAIN eventRows = 1 .. n
    BY <1>1, LenProperties DEF UpgradeTypeOK
  <2>3. ASSUME NEW p \in 1 .. n
        PROVE  derived'[p] \in Derivations /\ derived'[p].of = eventRows[p]
    <3>1. derived[p] \in Derivations /\ eventRows[p] \in StoredRows
      BY <1>1, <2>2 DEF UpgradeTypeOK
    <3>2. derived'[p] = IF derived[p].versioned THEN derived[p]
                        ELSE [of |-> eventRows[p], versioned |-> TRUE]
      BY <2>1, <2>2
    <3>3. derived[p].versioned \in BOOLEAN
      BY <3>1 DEF Derivations
    <3>4. CASE derived[p].versioned = TRUE
      BY <1>1, <2>2, <3>1, <3>2, <3>4 DEF MadeOfThem, MadeOf
    <3>5. CASE derived[p].versioned = FALSE
      <4>1. derived'[p] = [of |-> eventRows[p], versioned |-> TRUE]
        BY <3>2, <3>5
      <4> QED
        BY <3>1, <4>1 DEF Derivations
    <3> QED
      BY <3>3, <3>4, <3>5
  <2>4. derived' \in [1 .. n -> Derivations]
    BY <2>1, <2>2, <2>3
  <2>5. derived' \in Seq(Derivations) /\ Len(derived') = n
    BY <2>2, <2>4
  <2>6. UpgradeTypeOK'
    BY <1>1, <2>1, <2>2, <2>5 DEF UpgradeTypeOK
  <2>7. MadeOfThem'
    <3>1. MadeOf(eventRows, eventRows, derived')
      BY <2>2, <2>3 DEF MadeOf
    <3> QED
      BY <2>1, <3>1 DEF MadeOfThem
  <2>8. IdsAreDistinct' /\ Contract(marked)' /\ Counted'
    BY <1>1, <2>1 DEF IdsAreDistinct, Apart, Contract, Counted
  <2> QED
    BY <1>10, <2>1, <2>6, <2>7, <2>8
<1>13. CASE Backfill
  <2>1. /\ opening = "open"
        /\ usageLedger' = [counted |-> DOMAIN eventRows, complete |-> TRUE]
        /\ UNCHANGED <<marked, layout, eventRows, checkpointRows, derived, cursors, jobs, opening,
                       found>>
    BY <1>13 DEF Backfill
  <2>2. DOMAIN eventRows = 1 .. Len(eventRows) /\ Len(eventRows) \in Nat
    BY <1>1, LenProperties DEF UpgradeTypeOK
  <2>3. /\ usageLedger' \in [counted : SUBSET Nat, complete : BOOLEAN] /\ Counted'
    BY <2>1, <2>2 DEF Counted
  <2>4. UpgradeTypeOK'
    BY <1>1, <2>1, <2>3 DEF UpgradeTypeOK
  <2>5. IdsAreDistinct' /\ Contract(marked)' /\ MadeOfThem'
    BY <1>1, <2>1 DEF IdsAreDistinct, Apart, Contract, MadeOfThem, MadeOf
  <2> QED
    BY <1>10, <2>1, <2>3, <2>4, <2>5
<1>14. CASE MigrationFails \/ CrashWhileOpening \/ ShutStore
  BY <1>3, <1>14 DEF MigrationFails, CrashWhileOpening, ShutStore
<1>15. CASE UNCHANGED upgradeVars
  <2>1. UNCHANGED contentVars /\ UNCHANGED <<marked, layout, opening, found>>
    BY <1>15 DEF upgradeVars, contentVars
  <2>2. UpgradeTypeOK' /\ LaidOutAs(marked)' /\ Opened' /\ (NewStore' <=> NewStore)
        /\ (Older' <=> Older)
    BY <1>1, <2>1 DEF UpgradeTypeOK, LaidOutAs, Opened, contentVars, NewStore, Older
  <2>3. LaidOutAt'
    BY <1>1, <1>2, <2>1, <2>2 DEF LaidOutAt, contentVars
  <2> QED
    BY <1>2, <2>1, <2>2, <2>3 DEF UpgradeInv, UpgradeParts
<1> QED
  BY <1>4, <1>5, <1>6, <1>7, <1>8, <1>9, <1>11, <1>12, <1>13, <1>14, <1>15 DEF UpgradeNext

\* A store satisfies the contract of the version it is marked with, at every
\* place of the constructor, in every reachable state (sqliteStore.ts,
\* schema.ts).
THEOREM UpgradeInvariant == UpgradeSpec => []UpgradeInv
<1> QED
  BY UpgradeInitially, UpgradeSteps, PTL DEF UpgradeSpec

\* A store marked with the current schema has its layout, sound rows with
\* different ids, a ledger that tells the truth about being complete and
\* nothing derived from a row as it was before, whatever version it came from
\* and wherever its upgrade was cut off.
THEOREM UpgradesAreComplete == UpgradeSpec => []UpgradeIsComplete
<1>1. UpgradeInv => UpgradeIsComplete
  <2> SUFFICES ASSUME UpgradeInv
               PROVE  UpgradeIsComplete
    OBVIOUS
  <2>1. /\ UpgradeTypeOK /\ IdsAreDistinct /\ Contract(marked) /\ MadeOfThem /\ Counted
        /\ LaidOutAs(marked) /\ LaidOutAt
    BY DEF UpgradeInv, UpgradeParts
  <2>2. DOMAIN eventRows = 1 .. Len(eventRows)
    BY <2>1 DEF UpgradeTypeOK
  <2>3. LaidOut
    <3>1. usageLedger.complete \in BOOLEAN
      BY <2>1 DEF UpgradeTypeOK
    <3> QED
      BY <2>1, <2>2, <3>1 DEF LaidOut, LaidOutAs, Counted, Current
  <2>4. RowsAreSound
    BY <2>1, <2>2, ApartIds DEF RowsAreSound, Contract, IdsAreDistinct, Current
  <2>5. ASSUME marked = Current
        PROVE  checkpointRows = SubSeq(eventRows, 1, Len(checkpointRows))
    <3>1. /\ checkpointRows \in Seq(StoredRows) /\ eventRows \in Seq(StoredRows)
          /\ Len(checkpointRows) \in Nat /\ Len(eventRows) \in Nat
          /\ Len(checkpointRows) <= Len(eventRows)
      BY <2>1, LenProperties DEF UpgradeTypeOK, MadeOfThem, MadeOf
    <3>2. PICK part : part = SubSeq(eventRows, 1, Len(checkpointRows))
      OBVIOUS
    <3>3. /\ part \in Seq(StoredRows) /\ Len(part) = Len(checkpointRows)
          /\ \A p \in 1 .. Len(checkpointRows) : part[p] = eventRows[p]
      BY <3>1, <3>2, SubSeqProperties
    <3>4. \A p \in 1 .. Len(checkpointRows) : checkpointRows[p] = part[p]
      BY <2>1, <3>3 DEF MadeOfThem, MadeOf
    <3> QED
      BY <3>1, <3>2, <3>3, <3>4, SeqEqual
  <2>6. \A p \in DOMAIN eventRows : derived[p].versioned => derived[p].of = eventRows[p]
    <3> SUFFICES ASSUME NEW p \in 1 .. Len(eventRows), derived[p].versioned
                 PROVE  derived[p].of = eventRows[p]
      BY <2>2
    <3>1. derived[p] \in Derivations
      BY <2>1 DEF UpgradeTypeOK
    <3>2. derived[p].versioned = TRUE
      BY <3>1 DEF Derivations
    <3> QED
      BY <2>1, <3>2 DEF MadeOfThem, MadeOf
  <2>7. DerivedAnew
    BY <2>1, <2>5, <2>6 DEF DerivedAnew, LaidOutAt
  <2> QED
    BY <2>3, <2>4, <2>7 DEF UpgradeIsComplete
<1> QED
  BY <1>1, UpgradeInvariant, PTL
=============================================================================
