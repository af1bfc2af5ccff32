----------------------------- MODULE HookSpool -----------------------------
(***************************************************************************)
(* The spool between the hook relay and the daemon.  A sender keeps one    *)
(* event in one file: it posts it or, under the quota lock, publishes it   *)
(* for the drain or drops it and says so in a pressure marker.  The drain  *)
(* claims files, ingests them and removes them once they are durable.      *)
(* QuotaLock shows that one sender at a time is inside the lock.           *)
(***************************************************************************)
EXTENDS Naturals, FiniteSets

CONSTANTS
    Envelopes,         \* the events, one sender each
    Lifecycle,     \* those of the lifecycle class, let into a reserve
    Observed,      \* those of a shed class, dropped before any other
    SheddingAt,    \* the backlog from which they are dropped
    MaxPending,    \* MAX_HOOK_PENDING_FILES
    MaxAbsolute,   \* MAX_HOOK_ABSOLUTE_PENDING_FILES
    MaxCrashes     \* bound on crashes of the daemon

ASSUME HookSpoolAssumption ==
    /\ IsFiniteSet(Envelopes)
    /\ Lifecycle \subseteq Envelopes /\ Observed \subseteq Envelopes \ Lifecycle
    /\ {SheddingAt, MaxPending, MaxAbsolute, MaxCrashes} \subseteq Nat
    /\ SheddingAt <= MaxPending /\ MaxPending <= MaxAbsolute

VARIABLES
    sender,    \* sender[h]: what h's sender does next
    place,     \* place[h]: the name its file has
    inside,    \* who holds the quota lock
    counted,   \* counted[h]: the backlog h has counted
    markers,   \* the pressure markers in place
    gaps,      \* the markers archived in the gap ledger
    dropped,   \* dropped[h]: the marker under which h was dropped
    pass,      \* the drain's pass: "idle", "claim", "unlink", "crashed"
    batch,     \* the files claimed in this pass
    fresh,     \* events ingested and not yet durable
    durable,   \* events stored
    crashes

spoolVars == <<sender, place, inside, counted, markers, gaps, dropped, pass,
               batch, fresh, durable, crashes>>
drainVars == <<pass, batch, fresh, crashes>>

Markers == {"shed", "retain", "breaker"}

Proceed(h, s) == sender' = [sender EXCEPT ![h] = s]
Rename(h, name) == place' = [place EXCEPT ![h] = name]
Named(name) == {h \in Envelopes : place[h] = name}

\* What the relay's globs count.
Backlog == Cardinality(Named("ready")) + Cardinality(Named("claimed"))

-----------------------------------------------------------------------------
(* The relay: capturing and posting                                        *)

\* A shed class is stopped by its own marker, not by that of the others.
Closed(h) ==
    \/ "breaker" \in markers
    \/ h \in Observed /\ "shed" \in markers
    \/ h \notin Observed \cup Lifecycle /\ "retain" \in markers

\* A marker stops the hook before its input is read.
Capture(h) ==
    /\ sender[h] = "start"
    /\ IF Closed(h)
       THEN Proceed(h, "exited") /\ UNCHANGED place
       ELSE Proceed(h, "post") /\ Rename(h, "plain")
    /\ UNCHANGED <<inside, counted, markers, gaps, dropped, durable>>
    /\ UNCHANGED drainVars

\* The detached sender looks at the markers again and leaves its file to the
\* drain when one is there.
Stop(h) ==
    /\ sender[h] = "post" /\ Closed(h)
    /\ Proceed(h, "exited")
    /\ UNCHANGED <<place, inside, counted, markers, gaps, dropped, durable>>
    /\ UNCHANGED drainVars

\* The daemon answers once the event is durable, or dies or is too slow for
\* its answer to arrive.
Post(h) ==
    /\ sender[h] = "post" /\ pass # "crashed"
    /\ durable' = durable \cup {h}
    /\ fresh' = fresh \ {h}
    /\ \E next \in {"posted", "queue"} : Proceed(h, next)
    /\ UNCHANGED <<place, inside, counted, markers, gaps, dropped, pass, batch, crashes>>

PostRefused(h) ==
    /\ sender[h] = "post"
    /\ Proceed(h, "queue")
    /\ UNCHANGED <<place, inside, counted, markers, gaps, dropped, durable>>
    /\ UNCHANGED drainVars

\* rm -f of a file the drain may have claimed meanwhile.
RemovePlain(h) ==
    place' = IF place[h] = "plain" THEN [place EXCEPT ![h] = "gone"] ELSE place

RemovePosted(h) ==
    /\ sender[h] = "posted"
    /\ RemovePlain(h)
    /\ Proceed(h, "exited")
    /\ UNCHANGED <<inside, counted, markers, gaps, dropped, durable>>
    /\ UNCHANGED drainVars

-----------------------------------------------------------------------------
(* The relay: publishing under the quota lock                              *)

Enter(h) ==
    /\ sender[h] = "queue" /\ inside = {}
    /\ inside' = {h}
    /\ Proceed(h, "count")
    /\ UNCHANGED <<place, counted, markers, gaps, dropped, durable>>
    /\ UNCHANGED drainVars

\* A contender that waited too long leaves its file to the drain.
PassOn(h) ==
    /\ sender[h] = "queue"
    /\ Proceed(h, "exited")
    /\ UNCHANGED <<place, inside, counted, markers, gaps, dropped, durable>>
    /\ UNCHANGED drainVars

\* Mutant: the claimed files are counted before the ready ones.
GlobsMutant == <<"claimed", "ready">>

\* The two globs, in their order.
Globs == <<"ready", "claimed">>

CountFirst(h) ==
    /\ sender[h] = "count"
    /\ counted' = [counted EXCEPT ![h] = Cardinality(Named(Globs[1]))]
    /\ Proceed(h, "recount")
    /\ UNCHANGED <<place, inside, markers, gaps, dropped, durable>>
    /\ UNCHANGED drainVars

CountSecond(h) ==
    /\ sender[h] = "recount"
    /\ counted' = [counted EXCEPT ![h] = @ + Cardinality(Named(Globs[2]))]
    /\ Proceed(h, "decide")
    /\ UNCHANGED <<place, inside, markers, gaps, dropped, durable>>
    /\ UNCHANGED drainVars

Sheds(h) == h \in Observed /\ counted[h] >= SheddingAt
Fits(h) == counted[h] < (IF h \in Lifecycle THEN MaxAbsolute ELSE MaxPending)

Publish(h) ==
    /\ sender[h] = "decide"
    /\ ~Sheds(h) /\ Fits(h) /\ place[h] = "plain"
    /\ Rename(h, "ready")
    /\ inside' = inside \ {h}
    /\ Proceed(h, "exited")
    /\ UNCHANGED <<counted, markers, gaps, dropped, durable>>
    /\ UNCHANGED drainVars

\* No room; or the rename fails, as the drain has taken the file.
Mark(h) ==
    /\ sender[h] = "decide"
    /\ Sheds(h) \/ ~Fits(h) \/ place[h] # "plain"
    /\ LET marker == IF Sheds(h) THEN "shed"
                     ELSE IF h \in Lifecycle THEN "breaker" ELSE "retain"
       IN  /\ markers' = markers \cup {marker}
           /\ dropped' = [dropped EXCEPT ![h] = marker]
    /\ Proceed(h, "discard")
    /\ UNCHANGED <<place, inside, counted, gaps, durable>>
    /\ UNCHANGED drainVars

Discard(h) ==
    /\ sender[h] = "discard"
    /\ RemovePlain(h)
    /\ inside' = inside \ {h}
    /\ Proceed(h, "exited")
    /\ UNCHANGED <<counted, markers, gaps, dropped, durable>>
    /\ UNCHANGED drainVars

\* The lock of a killed sender is reaped.
KillSender(h) ==
    /\ sender[h] \notin {"start", "exited"}
    /\ Proceed(h, "exited")
    /\ inside' = inside \ {h}
    /\ UNCHANGED <<place, counted, markers, gaps, dropped, durable>>
    /\ UNCHANGED drainVars

-----------------------------------------------------------------------------
(* The drain                                                               *)

StartPass ==
    /\ pass = "idle"
    /\ pass' = "claim"
    /\ UNCHANGED <<sender, place, inside, counted, markers, gaps, dropped, batch,
                   fresh, durable, crashes>>

\* Mutant: only published files are claimed.
ClaimableMutant(h) == place[h] \in {"ready", "claimed", "orphan"}

\* A plain file is claimed ten seconds after it was written, whatever its
\* sender is about; claimed files are those an earlier pass left.
Claimable(h) == place[h] \in {"plain", "ready", "claimed", "orphan"}

ClaimFile(h) ==
    /\ pass = "claim"
    /\ Claimable(h) /\ h \notin batch
    /\ Rename(h, IF place[h] \in {"plain", "orphan"} THEN "orphan" ELSE "claimed")
    /\ batch' = batch \cup {h}
    /\ fresh' = fresh \cup ({h} \ durable)
    /\ UNCHANGED <<sender, inside, counted, markers, gaps, dropped, pass, durable, crashes>>

\* Mutant: the files of a session that could not be flushed are removed too.
KeptMutant(stored) == batch

Kept(stored) == batch \cap stored

\* One transaction per session, each of which may fail; what is not durable
\* keeps its file.
FlushBatch ==
    /\ pass = "claim"
    /\ pass' = "unlink"
    /\ \E flushed \in SUBSET fresh :
         /\ durable' = durable \cup flushed
         /\ fresh' = fresh \ flushed
         /\ batch' = Kept(durable')
    /\ UNCHANGED <<sender, place, inside, counted, markers, gaps, dropped, crashes>>

Unlink(h) ==
    /\ pass = "unlink" /\ h \in batch
    /\ Rename(h, "gone")
    /\ batch' = batch \ {h}
    /\ UNCHANGED <<sender, inside, counted, markers, gaps, dropped, pass, fresh,
                   durable, crashes>>

Relieved(m) == Backlog < (IF m = "shed" THEN SheddingAt ELSE MaxPending)

\* Mutant: a marker is removed before its episode is recorded.
ReleasedMutant(m) ==
    \/ m \in markers /\ markers' = markers \ {m} /\ UNCHANGED gaps
    \/ m \notin markers /\ gaps' = gaps \cup {m} /\ UNCHANGED markers

\* archiveCollectionGap: the episode is recorded, then the marker removed.
Released(m) ==
    \/ m \notin gaps /\ gaps' = gaps \cup {m} /\ UNCHANGED markers
    \/ m \in gaps /\ markers' = markers \ {m} /\ UNCHANGED gaps

ReleaseMarker(m) ==
    /\ pass = "unlink" /\ batch = {}
    /\ m \in markers /\ Relieved(m)
    /\ Released(m)
    /\ UNCHANGED <<sender, place, inside, counted, dropped, drainVars>>
    /\ UNCHANGED durable

EndPass ==
    /\ pass = "unlink" /\ batch = {}
    /\ pass' = "idle"
    /\ UNCHANGED <<sender, place, inside, counted, markers, gaps, dropped, batch,
                   fresh, durable, crashes>>

CrashDaemon ==
    /\ pass # "crashed" /\ crashes < MaxCrashes
    /\ crashes' = crashes + 1
    /\ pass' = "crashed"
    /\ batch' = {}
    /\ fresh' = {}
    /\ UNCHANGED <<sender, place, inside, counted, markers, gaps, dropped, durable>>

StartAgain ==
    /\ pass = "crashed"
    /\ pass' = "idle"
    /\ UNCHANGED <<sender, place, inside, counted, markers, gaps, dropped, batch,
                   fresh, durable, crashes>>

-----------------------------------------------------------------------------
SpoolInit ==
    /\ sender = [h \in Envelopes |-> "start"]
    /\ place = [h \in Envelopes |-> "none"]
    /\ inside = {}
    /\ counted = [h \in Envelopes |-> 0]
    /\ markers = {} /\ gaps = {}
    /\ dropped = [h \in Envelopes |-> "none"]
    /\ pass = "idle" /\ batch = {} /\ fresh = {} /\ durable = {}
    /\ crashes = 0

Send(h) ==
    \/ Capture(h) \/ Stop(h) \/ Post(h) \/ PostRefused(h) \/ RemovePosted(h)
    \/ Enter(h) \/ PassOn(h) \/ CountFirst(h) \/ CountSecond(h)
    \/ Publish(h) \/ Mark(h) \/ Discard(h)

Drain ==
    \/ StartPass
    \/ \E h \in Envelopes : ClaimFile(h)
    \/ FlushBatch
    \/ \E h \in Envelopes : Unlink(h)
    \/ \E m \in Markers : ReleaseMarker(m)
    \/ EndPass
    \/ StartAgain

SpoolNext ==
    \/ \E h \in Envelopes : Send(h) \/ KillSender(h)
    \/ Drain
    \/ CrashDaemon

SpoolSpec == SpoolInit /\ [][SpoolNext]_spoolVars

Stores(h) == FlushBatch /\ h \in batch /\ h \in durable'

\* The drain's timer comes round and a dead daemon is started again; a pass
\* takes up what it listed, and no session fails to flush for ever.
SpoolFairSpec ==
    /\ SpoolSpec
    /\ WF_spoolVars(Drain)
    /\ \A h \in Envelopes : SF_spoolVars(ClaimFile(h)) /\ SF_spoolVars(Stores(h))

-----------------------------------------------------------------------------
(* Properties                                                              *)

\* The published backlog never exceeds the ceiling, while the drain renames
\* files between the two globs of a count (MAX_HOOK_ABSOLUTE_PENDING_FILES).
CeilingHolds == Backlog <= MaxAbsolute

\* An event whose file is gone is stored, or was dropped under a marker that
\* is in place or in the gap ledger, whoever dies in between.
NothingLost ==
    \A h \in Envelopes :
        place[h] = "gone" => h \in durable \/ dropped[h] \in markers \cup gaps

\* Every captured event is stored in the end, or dropped: no crash, kill or
\* given-up wait leaves its file in the spool for ever.
EveryFileSettles == \A h \in Envelopes : place[h] = "plain" ~> place[h] = "gone"
=============================================================================
