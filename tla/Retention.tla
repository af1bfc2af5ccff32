------------------------------ MODULE Retention ------------------------------
(* How long sessions are kept.  The policy is written in two places, the     *)
(* configuration of operations and the store, by the daemon, by `config' and *)
(* by `retention'; a running daemon sweeps by what the store says.  It does  *)
(* not sweep before it has read what providers wrote while it was stopped,   *)
(* and what the usage of swept sessions was is added up elsewhere.           *)
EXTENDS Integers, FiniteSets, FiniteSetsExt

CONSTANTS
    KeptSessions,
    Periods,      \* the policies other than forever, in days
    MaxDay,       \* bound on the days that pass
    MaxWritten,   \* bound on what the providers write
    MaxChoices,   \* bound on the commands a user gives
    Batch,        \* 50 in the code
    HistoryDays,  \* how far back a starting daemon reads
    Resets        \* is the choice of a policy ever reset?

ASSUME RetentionAssumption ==
    /\ IsFiniteSet(KeptSessions) /\ Periods \subseteq Nat \ {0}
    /\ {MaxDay, MaxWritten, MaxChoices, HistoryDays} \subseteq Nat /\ Batch \in Nat \ {0}
    /\ Resets \in BOOLEAN

VARIABLES
    day,
    settings,     \* retention.days of operations-config.json, or Unset
    policy,       \* retention_days of the store
    sessionRow,   \* sessionRow[s]: the day of its last event and its status, or NoSession
    pins,
    tombstone,    \* tombstone[s]: who deleted the session, or "none"
    prepared,     \* is the usage of old events added up?
    keeper,       \* the daemon: "stopped", "starting" or "ready", or "blind"
    collecting,   \* or is collection paused?
    loaded,       \* the sessions it has coordinators for
    unread,       \* unread[s]: what a provider wrote and nobody read, or NothingUnread
    choice        \* the last policy a user chose, and how many commands there were

retentionVars == <<day, settings, policy, sessionRow, pins, tombstone, prepared,
                   keeper, collecting, loaded, unread, choice>>
storedVars == <<sessionRow, pins, tombstone>>

Forever == MaxDay + 1    \* longer than any session of the model is old
Policies == Periods \cup {Forever}
Unset == 0
NoSession == [last |-> -1, status |-> "none"]
NothingUnread == [day |-> -1, status |-> "none", missed |-> FALSE]

InStore == {s \in KeptSessions : sessionRow[s] # NoSession}

-----------------------------------------------------------------------------
\* What the policy is.

\* A policy that is not configured is the one of the store.
Resolved(days) == IF days = Unset THEN policy ELSE days

\* The daemon makes the store's policy its configuration, once, and then the
\* configured policy that of the store.
StartKeeper ==
    /\ keeper = "stopped"
    /\ keeper' = "starting"
    /\ settings' = IF settings = Unset /\ policy # Forever THEN policy ELSE settings
    /\ policy' = Resolved(settings')
    /\ UNCHANGED <<day, storedVars, prepared, collecting, loaded, unread, choice>>

Chooses(p) ==
    /\ choice.made < MaxChoices
    /\ choice' = [choice EXCEPT !.policy = p, !.made = @ + 1]

\* `config set retention.days', told to the daemon or written while it is stopped.
ConfigSet(p) ==
    /\ Chooses(p)
    /\ settings' = p /\ policy' = Resolved(settings')
    /\ UNCHANGED <<day, storedVars, prepared, keeper, collecting, loaded, unread>>

\* `config reset'.
ConfigReset ==
    /\ Resets /\ Chooses(Forever)
    /\ settings' = Unset /\ policy' = Resolved(settings')
    /\ UNCHANGED <<day, storedVars, prepared, keeper, collecting, loaded, unread>>

\* `retention forever' or `retention <days>', refused while a daemon runs.
RetentionSet(p) ==
    /\ keeper = "stopped"
    /\ Chooses(p)
    /\ policy' = p
    /\ UNCHANGED <<day, settings, storedVars, prepared, keeper, collecting, loaded, unread>>

-----------------------------------------------------------------------------
\* What is deleted.

\* Sessions that are old enough and not under way, by what the store says.
Candidates(except) ==
    {s \in InStore \ (pins \cup except) :
        /\ sessionRow[s].last + policy < day
        /\ sessionRow[s].status \notin {"working", "waiting"}}

\* The oldest of them, no more than a batch.
Oldest(set, batch) ==
    /\ batch \subseteq set
    /\ Cardinality(batch) = Min({Batch, Cardinality(set)})
    /\ \A s \in batch, t \in set \ batch : sessionRow[s].last <= sessionRow[t].last

Deletes(gone, by) ==
    /\ sessionRow' = [s \in KeptSessions |-> IF s \in gone THEN NoSession ELSE sessionRow[s]]
    /\ tombstone' = [s \in KeptSessions |-> IF s \in gone THEN by ELSE tombstone[s]]

\* Mutant: the daemon sweeps while it still reads what it missed.
MaySweepMutant == keeper # "stopped" /\ prepared

\* After startup discovery, and after the usage of old events is added up.
MaySweep == keeper \in {"ready", "blind"} /\ prepared

Sweep ==
    /\ MaySweep
    /\ \E batch \in (SUBSET KeptSessions) \ {{}} :
        /\ Oldest(Candidates(loaded), batch)
        /\ Deletes(batch, IF keeper = "blind" THEN "unseen" ELSE "swept")
    /\ UNCHANGED <<day, settings, policy, pins, prepared, keeper, collecting, loaded, unread, choice>>

\* `retention apply', refused while a daemon runs.
ApplyOffline ==
    /\ keeper = "stopped" /\ prepared
    /\ \E batch \in (SUBSET KeptSessions) \ {{}} :
        /\ Oldest(Candidates({}), batch)
        /\ Deletes(batch, "applied")
    /\ UNCHANGED <<day, settings, policy, pins, prepared, keeper, collecting, loaded, unread, choice>>

\* Forget of the page, or `forget --yes' while no daemon runs.
ForgetKept(s) ==
    /\ s \in InStore /\ Chooses(choice.policy)
    /\ Deletes({s}, "forgotten")
    /\ pins' = pins \ {s}
    /\ loaded' = loaded \ {s}
    /\ UNCHANGED <<day, settings, policy, prepared, keeper, collecting, unread>>

\* `pin' and `unpin', refused while a daemon runs.
Pin(s) ==
    /\ keeper = "stopped" /\ s \in InStore /\ Chooses(choice.policy)
    /\ pins' = IF s \in pins THEN pins \ {s} ELSE pins \cup {s}
    /\ UNCHANGED <<day, settings, policy, sessionRow, tombstone, prepared, keeper, collecting, loaded,
                   unread>>

-----------------------------------------------------------------------------
\* What the daemon reads.

\* What was written while the daemon was stopped is read if it is recent.
InWindow(s) == unread[s].day + HistoryDays >= day

\* A provider goes on with a session, whether or not a daemon runs.  What was
\* too old to be read is then found by watching.
Writes(s, status) ==
    /\ tombstone[s] = "none" /\ choice.written < MaxWritten
    /\ unread' = [unread EXCEPT ![s] =
                     [day |-> day, status |-> status,
                      missed |-> keeper = "stopped" \/ (@.missed /\ InWindow(s))]]
    /\ choice' = [choice EXCEPT !.written = @ + 1]
    /\ UNCHANGED <<day, settings, policy, storedVars, prepared, keeper, collecting, loaded>>

\* Events of a session that was deleted are dropped.
Reads(s) ==
    /\ keeper # "stopped" /\ collecting
    /\ unread[s] # NothingUnread /\ (unread[s].missed => InWindow(s))
    /\ unread' = [unread EXCEPT ![s] = NothingUnread]
    /\ IF tombstone[s] = "none"
         THEN /\ sessionRow' = [sessionRow EXCEPT ![s] =
                                   [last |-> unread[s].day, status |-> unread[s].status]]
              /\ loaded' = loaded \cup {s}
         ELSE UNCHANGED <<sessionRow, loaded>>
    /\ UNCHANGED <<day, settings, policy, pins, tombstone, prepared, keeper, collecting, choice>>

\* The first round of reading is over when everything recent was read.  It
\* is over at once, and the daemon has seen nothing, while collection is paused.
BackfillCompletes ==
    /\ keeper = "starting"
    /\ collecting => \A s \in KeptSessions : unread[s].missed => ~InWindow(s)
    /\ keeper' = IF collecting THEN "ready" ELSE "blind"
    /\ UNCHANGED <<day, settings, policy, storedVars, prepared, collecting, loaded, unread, choice>>

\* `pause' and `resume'.
PauseOrResume ==
    /\ Chooses(choice.policy)
    /\ collecting' = ~collecting
    /\ UNCHANGED <<day, settings, policy, storedVars, prepared, keeper, loaded, unread>>

\* The worker has added up the usage of old events.
Prepares ==
    /\ keeper # "stopped" /\ ~prepared
    /\ prepared' = TRUE
    /\ UNCHANGED <<day, settings, policy, storedVars, keeper, collecting, loaded, unread, choice>>

\* A coordinator that nothing touched for half an hour and that does not work.
Evicts(s) ==
    /\ s \in loaded /\ sessionRow[s].status # "working"
    /\ loaded' = loaded \ {s}
    /\ UNCHANGED <<day, settings, policy, storedVars, prepared, keeper, collecting, unread, choice>>

\* The daemon stops, or is killed.
StopKeeper ==
    /\ keeper # "stopped"
    /\ keeper' = "stopped" /\ loaded' = {}
    /\ unread' = [s \in KeptSessions |->
                     IF unread[s] = NothingUnread \/ tombstone[s] # "none"
                       THEN unread[s] ELSE [unread[s] EXCEPT !.missed = TRUE]]
    /\ UNCHANGED <<day, settings, policy, storedVars, prepared, collecting, choice>>

NextDay ==
    /\ day < MaxDay
    /\ day' = day + 1
    /\ UNCHANGED <<settings, policy, storedVars, prepared, keeper, collecting, loaded, unread, choice>>

-----------------------------------------------------------------------------
RetentionInit ==
    /\ day = 1
    /\ settings = Unset /\ policy = Forever
    /\ sessionRow = [s \in KeptSessions |-> [last |-> 0, status |-> "idle"]]
    /\ pins = {}
    /\ tombstone = [s \in KeptSessions |-> "none"]
    /\ prepared = FALSE
    /\ keeper = "stopped" /\ collecting = TRUE /\ loaded = {}
    /\ unread = [s \in KeptSessions |-> NothingUnread]
    /\ choice = [policy |-> Forever, made |-> 0, written |-> 0]

RetentionNext ==
    \/ StartKeeper \/ StopKeeper \/ BackfillCompletes \/ Prepares \/ NextDay
    \/ ConfigReset \/ PauseOrResume \/ Sweep \/ ApplyOffline
    \/ \E p \in Policies : ConfigSet(p) \/ RetentionSet(p)
    \/ \E s \in KeptSessions :
        \/ Reads(s) \/ Evicts(s) \/ ForgetKept(s) \/ Pin(s)
        \/ \E status \in {"working", "idle"} : Writes(s, status)

RetentionSpec == RetentionInit /\ [][RetentionNext]_retentionVars

-----------------------------------------------------------------------------
\* The daemon deletes no session that a provider went on with while it was
\* stopped, unless longer ago than it reads back, none that is loaded and none
\* that is pinned (daemon.ts applyRetention, docs/architecture.md 178-184).
NothingLiveIsSwept ==
    \A s \in KeptSessions :
        tombstone[s] = "swept" =>
            /\ unread[s].missed => ~InWindow(s)
            /\ s \notin loaded \cup pins

\* Nor does a daemon that was started while collection was paused (daemon.ts:
\* "Run the first bounded pass only after startup discovery has loaded every
\* currently active transcript.").
NothingUnseenIsSwept ==
    \A s \in KeptSessions : tombstone[s] = "unseen" => ~(unread[s].missed /\ InWindow(s))

\* What is deleted by hand while the daemon is stopped is no live session
\* either (main.ts retention apply).
NothingLiveIsApplied ==
    \A s \in KeptSessions : tombstone[s] = "applied" => ~unread[s].missed

\* A daemon sweeps by the policy the user chose last (main.ts retention:
\* "Session history is kept forever. Nothing was deleted.").
PolicyIsAsChosen == keeper # "stopped" => policy = choice.policy
=============================================================================
