----------------------------- MODULE SyncOutbox -----------------------------
(***************************************************************************)
(* The outbox that carries a user's decisions, and their deletions, to one *)
(* destination: one stream, one grant and its scope, two lanes.            *)
(*                                                                         *)
(* Every method is one SQLite transaction and so one action; a method that *)
(* throws changes nothing and is no step.  The database is one record,     *)
(* which a backup copies whole.  The destination is outside the code: it   *)
(* does what the wire contract asks of a receiver; what it decided, it may *)
(* answer at any time, any number of times: answers get lost, repeated and *)
(* late.                                                                   *)
(***************************************************************************)
EXTENDS Naturals, Sequences, FiniteSets, SequencesExt

CONSTANTS
    Items,          \* the ids a captured decision may draw, all random
    MaxRevision,    \* bound on the revisions of an item and of the grant
    MaxMutations,     \* bound on the transactions that enqueue
    MaxSaved,       \* bound on the transactions a backup holds
    MaxRestores,    \* bound on how often a backup is restored
    ReusesBackups   \* whether a backup older than the generation is restored

Lanes == {"control", "data"}

ASSUME SyncOutboxAssumption ==
    /\ IsFiniteSet(Items)
    /\ {MaxRevision, MaxMutations, MaxSaved, MaxRestores} \subseteq Nat
    /\ ReusesBackups \in BOOLEAN

VARIABLES
    db,         \* the database of the replica
    backedUp,   \* the last copy of it, as a backup
    changes,    \* how many transactions enqueued; it names their operations
    drawn,      \* the item ids drawn so far
    restores,   \* how often the backup was restored
    dest        \* the destination

outboxVars == <<db, backedUp, changes, drawn, restores, dest>>

Larger(m, n) == IF m < n THEN n ELSE m

-----------------------------------------------------------------------------
(* The database                                                            *)

NoItem == [rev |-> 0, grant |-> 0]

\* log[lane] is the lane's outbox, the operation at position p being the
\* (p+1)th; acked[lane] counts what the cursor covers.
EmptyDb ==
    [generation |-> 0,
     log |-> [l \in Lanes |-> <<>>],
     acked |-> [l \in Lanes |-> 0],
     consent |-> <<>>,                 \* the status of each grant revision
     live |-> [i \in Items |-> NoItem],
     tombs |-> [i \in Items |-> 0],    \* deleted through this revision
     done |-> {}]                      \* tombstones with a receipt

Consent(d, r) == [type |-> d.consent[r], stamp |-> changes, rev |-> r]
PutItem(d, i) == [type |-> "item.put", stamp |-> changes, item |-> i,
              rev |-> d.live[i].rev, grant |-> d.live[i].grant]
Delete(d, i) == [type |-> "item.delete", stamp |-> changes, item |-> i,
                 through |-> d.tombs[i]]

\* Mutant: the fence counts the next position too.
ScopeDeleteMutant(d) == [type |-> "scope.delete", stamp |-> changes,
                         through |-> Len(d.log["data"]) + 1]

\* The fence counts the data operations produced so far.
ScopeDelete(d) == [type |-> "scope.delete", stamp |-> changes,
                   through |-> Len(d.log["data"])]

Enqueue(d, lane, op) == [d EXCEPT !.log[lane] = Append(@, op)]

Revision(d) == Len(d.consent)
Active(d) == Revision(d) > 0 /\ d.consent[Revision(d)] = "consent.put"
LiveItems(d) == {i \in Items : d.live[i].rev > 0}
Buried(d) == {i \in Items : d.tombs[i] > 0}

\* Every live item of the scope gets a tombstone; one fenced operation
\* tells the destination.
WithScopeDeleted(d) ==
    Enqueue([d EXCEPT
               !.tombs = [i \in Items |-> Larger(@[i], d.live[i].rev)],
               !.live = [i \in Items |-> NoItem]],
            "control", ScopeDelete(d))

\* A new generation: positions start afresh, and the consent revisions, the
\* live items and the tombstones are sent again.
Redescribed(d) ==
    LET live == SetToSeq(LiveItems(d))
        buried == SetToSeq(Buried(d))
    IN  [d EXCEPT
           !.generation = @ + 1,
           !.acked = [l \in Lanes |-> 0],
           !.log = [control |-> [r \in 1 .. Revision(d) |-> Consent(d, r)]
                                  \o [k \in 1 .. Len(buried) |-> Delete(d, buried[k])],
                    data |-> [k \in 1 .. Len(live) |-> PutItem(d, live[k])]]]

-----------------------------------------------------------------------------
(* What the user does                                                      *)

Commit(d) ==
    /\ changes < MaxMutations
    /\ db' = d
    /\ changes' = changes + 1
    /\ UNCHANGED <<backedUp, restores, dest>>

WithRevision(status) == [db EXCEPT !.consent = Append(@, status)]

\* A grant may follow a revoked revision.
GrantConsent ==
    /\ Revision(db) < MaxRevision
    /\ LET d == WithRevision("consent.put")
       IN  Commit(Enqueue(d, "control", Consent(d, Revision(d))))
    /\ UNCHANGED drawn

RevokeConsent ==
    /\ Active(db)
    /\ LET d == WithRevision("consent.revoke")
       IN  Commit(WithScopeDeleted(Enqueue(d, "control", Consent(d, Revision(d)))))
    /\ UNCHANGED drawn

WithItem(i, item) ==
    LET d == [db EXCEPT !.live[i] = item] IN Enqueue(d, "data", PutItem(d, i))

CaptureDecision(i) ==
    /\ i \notin drawn
    /\ Active(db)
    /\ Commit(WithItem(i, [rev |-> 1, grant |-> Revision(db)]))
    /\ drawn' = drawn \cup {i}

\* The item keeps the grant revision it cites, which must be the current one.
ReviseDecision(i) ==
    /\ db.live[i].rev \in 1 .. MaxRevision - 1
    /\ Active(db) /\ db.live[i].grant = Revision(db)
    /\ Commit(WithItem(i, [db.live[i] EXCEPT !.rev = @ + 1]))
    /\ UNCHANGED drawn

DeleteItem(i) ==
    /\ i \in LiveItems(db)
    /\ LET d == [db EXCEPT !.tombs[i] = Larger(@, db.live[i].rev), !.live[i] = NoItem]
       IN  Commit(Enqueue(d, "control", Delete(d, i)))
    /\ UNCHANGED drawn

DeleteScope ==
    /\ Revision(db) > 0
    /\ Commit(WithScopeDeleted(db))
    /\ UNCHANGED drawn

BeginGeneration == Commit(Redescribed(db)) /\ UNCHANGED drawn

Backup ==
    /\ changes <= MaxSaved
    /\ backedUp' = db
    /\ UNCHANGED <<db, changes, drawn, restores, dest>>

\* The recovery path for a restored backup: a new generation of what the
\* backup holds.
Restore ==
    /\ restores < MaxRestores /\ changes < MaxMutations
    /\ ReusesBackups \/ backedUp.generation = db.generation
    /\ db' = Redescribed(backedUp)
    /\ changes' = changes + 1
    /\ restores' = restores + 1
    /\ UNCHANGED <<backedUp, drawn, dest>>

-----------------------------------------------------------------------------
(* The destination: sync-contract, receiver obligations                    *)

EmptyDest ==
    [generation |-> 0,
     got |-> [l \in Lanes |-> <<>>],       \* what it decided, in order
     fence |-> 0,
     consent |-> [rev |-> 0, type |-> "none"],
     live |-> [i \in Items |-> [rev |-> 0, at |-> 0]],
     tombs |-> [i \in Items |-> 0]]

\* A new generation starts new positions; what is held stays, and counts as
\* put before anything in it.
KnownDestination == IF dest.generation = db.generation THEN dest
         ELSE [dest EXCEPT !.generation = db.generation,
                           !.got = [l \in Lanes |-> <<>>],
                           !.fence = 0,
                           !.live = [i \in Items |-> [@[i] EXCEPT !.at = 0]]]

\* The operations of a batch, up to a refusal that the cursor is not past.
Position(lane) == Len(KnownDestination.got[lane]) + 1
Batched(lane) ==
    /\ dest.generation <= db.generation
    /\ Position(lane) \in db.acked[lane] + 1 .. Len(db.log[lane])
    /\ \A p \in db.acked[lane] + 1 .. Position(lane) - 1 : KnownDestination.got[lane][p].ok

Decided(d, lane, op, ok) ==
    [d EXCEPT !.got[lane] = Append(@, [stamp |-> op.stamp, ok |-> ok])]

Erased(live, gone) ==
    [i \in Items |-> IF i \in gone THEN [rev |-> 0, at |-> 0] ELSE live[i]]

Applied(d, op, p) ==
    CASE op.type = "item.put" ->
           [d EXCEPT !.live[op.item] = [rev |-> op.rev, at |-> p]]
      [] op.type = "item.delete" ->
           [d EXCEPT !.tombs[op.item] = Larger(@, op.through),
                     !.live = Erased(@, {i \in {op.item} : @[i].rev <= op.through})]
      [] op.type = "scope.delete" ->
           [d EXCEPT !.fence = Larger(@, op.through),
                     !.live = Erased(@, {i \in Items : @[i].at <= op.through})]
      [] OTHER ->
           [d EXCEPT !.consent = IF op.rev > @.rev
                                 THEN [rev |-> op.rev, type |-> op.type] ELSE @]

\* A put that is deleted, fenced or under a grant revoked since stays refused;
\* one under a revision still to come is neither refused nor accepted.
Refuses(d, op, p) ==
    /\ op.type = "item.put"
    /\ \/ op.rev <= d.tombs[op.item]
       \/ p <= d.fence
       \/ d.consent.type = "consent.revoke" /\ op.grant < d.consent.rev

Accept(lane) ==
    /\ Batched(lane)
    /\ LET p == Position(lane)
           op == db.log[lane][p]
       IN  /\ ~Refuses(KnownDestination, op, p)
           /\ op.type = "item.put" => op.grant <= dest.consent.rev
           /\ dest' = Applied(Decided(KnownDestination, lane, op, TRUE), op, p)
    /\ UNCHANGED <<db, backedUp, changes, drawn, restores>>

Refuse ==
    /\ Batched("data")
    /\ LET p == Position("data")
           op == db.log["data"][p]
       IN  /\ Refuses(KnownDestination, op, p)
           /\ dest' = Decided(KnownDestination, "data", op, FALSE)
    /\ UNCHANGED <<db, backedUp, changes, drawn, restores>>

Respond(lane, through, rejected) ==
    [generation |-> dest.generation, lane |-> lane,
     through |-> through, rejected |-> rejected]

\* What it may answer: what it decided, and that it refuses a control
\* operation which it then takes.
Responses ==
    (UNION {{IF dest.got[lane][p].ok THEN Respond(lane, p, 0) ELSE Respond(lane, p - 1, p) :
                p \in DOMAIN dest.got[lane]} : lane \in Lanes})
    \cup {Respond("control", p - 1, p) : p \in 1 .. Len(dest.got["control"]) + 1}

-----------------------------------------------------------------------------
(* What the destination answers                                            *)

\* Mutant: a refusal is stepped over on either lane.
SkipsMutant(ack, cursor) == ack.rejected = cursor + 1

\* Only the very next data operation is stepped over.
Skips(ack, cursor) == ack.lane = "data" /\ ack.rejected = cursor + 1

Acknowledge(ack) ==
    /\ ack.generation = db.generation
    /\ ack.through <= Len(db.log[ack.lane])
    /\ ack.rejected <= Len(db.log[ack.lane])
    /\ LET cursor == Larger(db.acked[ack.lane], ack.through)
       IN  db' = [db EXCEPT !.acked[ack.lane] =
                    IF Skips(ack, cursor) THEN ack.rejected ELSE cursor]
    /\ UNCHANGED <<backedUp, changes, drawn, restores, dest>>

\* A receipt counts only for an operation that is in the outbox.
RecordDeletionReceipt ==
    /\ dest.generation = db.generation
    /\ \E p \in DOMAIN dest.got["control"] \cap DOMAIN db.log["control"] :
         LET op == db.log["control"][p] IN
         /\ op.type = "item.delete"
         /\ op.stamp = dest.got["control"][p].stamp
         /\ db' = [db EXCEPT !.done =
                     @ \cup (IF db.tombs[op.item] <= op.through THEN {op.item} ELSE {})]
    /\ UNCHANGED <<backedUp, changes, drawn, restores, dest>>

-----------------------------------------------------------------------------
OutboxInit ==
    /\ db = EmptyDb /\ backedUp = EmptyDb
    /\ changes = 0 /\ restores = 0
    /\ drawn = {}
    /\ dest = EmptyDest

OutboxNext ==
    \/ GrantConsent
    \/ RevokeConsent
    \/ \E i \in Items : CaptureDecision(i) \/ ReviseDecision(i) \/ DeleteItem(i)
    \/ DeleteScope
    \/ BeginGeneration
    \/ Backup
    \/ Restore
    \/ \E lane \in Lanes : Accept(lane)
    \/ Refuse
    \/ \E ack \in Responses : Acknowledge(ack)
    \/ RecordDeletionReceipt

OutboxSpec == OutboxInit /\ [][OutboxNext]_outboxVars

-----------------------------------------------------------------------------
(* Properties                                                              *)

Synced(lane) ==
    dest.generation = db.generation /\ Len(dest.got[lane]) = Len(db.log[lane])

\* The cursor covers only what the destination decided on, in the current
\* generation, and on the control lane only what it accepted: no late,
\* repeated or superseded acknowledgement moves it further (acknowledge).
CursorCoversDecided ==
    \A lane \in Lanes : \A p \in 1 .. db.acked[lane] :
        /\ dest.generation = db.generation
        /\ p <= Len(dest.got[lane])
        /\ dest.got[lane][p].stamp = db.log[lane][p].stamp
        /\ lane = "control" => dest.got[lane][p].ok

\* Once the control lane is through, or a receipt is recorded, no deleted
\* revision is live at the destination, whatever data arrives late and
\* whichever generation deleted it (enqueueScopeDelete, beginGeneration).
\* Both lanes through, the destination holds what the replica holds, unless
\* a restored backup forgot some of it.
Converges ==
    /\ \A i \in Buried(db) :
        Synced("control") \/ i \in db.done =>
            dest.live[i].rev \notin 1 .. db.tombs[i]
    /\ restores = 0 /\ Synced("control") /\ Synced("data") =>
        \A i \in Items : dest.live[i].rev = db.live[i].rev

\* Both together: what the destination holds follows what was decided here.
DestinationFollows == CursorCoversDecided /\ Converges
=============================================================================
