--------------------------- MODULE DeliveryProofs ---------------------------
(***************************************************************************)
(* The theorems about what must arrive: the quota lock of the hook spool,  *)
(* for any number of senders; the spooled envelopes, for any number of     *)
(* senders, deaths and drains; and the events of a session in a page, for  *)
(* any events, reloads and lost connections.                               *)
(***************************************************************************)
EXTENDS MCDelivery, FiniteSetTheorems, SequenceTheorems, TLAPS

-----------------------------------------------------------------------------
(* The quota lock                                                          *)

\* Where a sender may be in the lock's protocol.
RelaySteps ==
    {"create", "sign", "inside", "guard", "read", "probe", "reread", "remove", "unguard",
     "exited", "killed"}
\* The steps taken under the reclaim guard.
Guarding == {"read", "probe", "reread", "remove", "unguard"}

\* Types of the lock, its owner, its guard and the senders' steps.
QuotaTypeOK ==
    /\ step \in [Contenders -> RelaySteps]
    /\ owner \in Contenders \cup {Nobody, NoFile}
    /\ reaper \in Contenders \cup {Nobody}
    /\ read \in [Contenders -> Contenders \cup {Nobody, NoFile}]

\* The lock is signed by the one inside, and unsigned while the one who made it
\* signs.
LockIsSigned ==
    /\ \A s \in Contenders : step[s] = "inside" => owner = s
    /\ \A s \in Contenders : step[s] = "sign" => owner = Nobody
    /\ \A s, t \in Contenders : step[s] = "sign" /\ step[t] = "sign" => s = t

\* Only the holder of the guard reclaims.
OneReaper == \A s \in Contenders : step[s] \in Guarding => reaper = s

\* Whoever is about to be removed is dead and still the owner.
ReapsTheDead ==
    \A s \in Contenders :
        /\ step[s] \in {"probe", "reread", "remove"} => read[s] \in Contenders
        /\ step[s] \in {"reread", "remove"} => Exited(read[s])
        /\ step[s] = "remove" => owner = read[s]

QuotaInv == QuotaTypeOK /\ LockIsSigned /\ OneReaper /\ ReapsTheDead

-----------------------------------------------------------------------------
\* Nobody and no file are not senders.
LEMMA QuotaNames ==
    /\ Nobody \notin Contenders /\ NoFile \notin Contenders /\ Nobody # NoFile
    /\ GuardExpires \in BOOLEAN
BY QuotaLockAssumption

\* When a sender goes on, the others stay where they are.
LEMMA GoOnOne ==
    ASSUME QuotaTypeOK, NEW s \in Contenders, NEW x \in RelaySteps, GoOn(s, x)
    PROVE  /\ step' \in [Contenders -> RelaySteps]
           /\ step'[s] = x
           /\ \A t \in Contenders \ {s} : step'[t] = step[t]
BY DEF QuotaTypeOK, GoOn

\* Whoever has exited has exited for good.
LEMMA ExitedStay ==
    ASSUME QuotaTypeOK, NEW s \in Contenders, NEW x \in RelaySteps, GoOn(s, x), ~Exited(s)
    PROVE  \A t \in Contenders : Exited(t) => Exited(t)'
BY GoOnOne DEF Exited

\* A step outside the lock that writes neither the owner nor the guard.
LEMMA QuietSender ==
    ASSUME QuotaInv, NEW s \in Contenders, ~Exited(s),
           NEW x \in {"create", "guard", "exited", "killed"}, GoOn(s, x),
           UNCHANGED <<owner, reaper, read>>
    PROVE  QuotaInv'
<1>1. x \in RelaySteps
  BY DEF RelaySteps
<1>2. /\ step' \in [Contenders -> RelaySteps] /\ step'[s] = x
      /\ \A t \in Contenders \ {s} : step'[t] = step[t]
      /\ \A t \in Contenders : Exited(t) => Exited(t)'
  BY <1>1, GoOnOne, ExitedStay DEF QuotaInv
<1>3. LockIsSigned' /\ OneReaper'
  BY <1>2 DEF QuotaInv, LockIsSigned, OneReaper, Guarding
<1>4. ReapsTheDead'
  <2> SUFFICES ASSUME NEW t \in Contenders, step'[t] \in {"probe", "reread", "remove"}
               PROVE  /\ read[t] \in Contenders
                      /\ step'[t] \in {"reread", "remove"} => Exited(read[t])'
                      /\ step'[t] = "remove" => owner = read[t]
    BY DEF ReapsTheDead
  <2>1. t # s /\ step'[t] = step[t]
    BY <1>2
  <2> QED BY <1>2, <2>1 DEF QuotaInv, ReapsTheDead
<1> QED BY <1>2, <1>3, <1>4 DEF QuotaInv, QuotaTypeOK

\* The owner changes while nobody is about to remove it.
LEMMA OwnerSteps ==
    ASSUME QuotaInv, NEW s \in Contenders, NEW x \in {"sign", "inside", "exited", "unguard"},
           GoOn(s, x), ~Exited(s), UNCHANGED <<reaper, read>>,
           owner' \in Contenders \cup {Nobody, NoFile},
           \A t \in Contenders \ {s} : step[t] = "remove" => owner' = owner,
           LockIsSigned',
           x = "unguard" => reaper = s
    PROVE  QuotaInv'
<1>1. x \in RelaySteps
  BY DEF RelaySteps
<1>2. /\ step' \in [Contenders -> RelaySteps] /\ step'[s] = x
      /\ \A t \in Contenders \ {s} : step'[t] = step[t]
      /\ \A t \in Contenders : Exited(t) => Exited(t)'
  BY <1>1, GoOnOne, ExitedStay DEF QuotaInv
<1>3. OneReaper'
  BY <1>2 DEF QuotaInv, OneReaper, Guarding
<1>4. ReapsTheDead'
  <2> SUFFICES ASSUME NEW t \in Contenders, step'[t] \in {"probe", "reread", "remove"}
               PROVE  /\ read[t] \in Contenders
                      /\ step'[t] \in {"reread", "remove"} => Exited(read[t])'
                      /\ step'[t] = "remove" => owner' = read[t]
    BY DEF ReapsTheDead
  <2>1. t # s /\ step'[t] = step[t]
    BY <1>2
  <2> QED BY <1>2, <2>1 DEF QuotaInv, ReapsTheDead
<1> QED BY <1>2, <1>3, <1>4 DEF QuotaInv, QuotaTypeOK

\* A step of the reaper, under its guard.
LEMMA ReaperSteps ==
    ASSUME QuotaInv, NEW s \in Contenders, NEW x \in Guarding, GoOn(s, x), ~Exited(s),
           step[s] \notin {"sign", "inside"}, owner' = owner, reaper' = s,
           reaper = s \/ reaper = Nobody,
           read' \in [Contenders -> Contenders \cup {Nobody, NoFile}],
           \A t \in Contenders \ {s} : read'[t] = read[t],
           x \in {"probe", "reread", "remove"} => read'[s] \in Contenders,
           x \in {"reread", "remove"} => Exited(read'[s]),
           x = "remove" => owner = read'[s]
    PROVE  QuotaInv'
<1>1. x \in RelaySteps /\ x \notin {"sign", "inside"}
  BY DEF RelaySteps, Guarding
<1>2. /\ step' \in [Contenders -> RelaySteps] /\ step'[s] = x
      /\ \A t \in Contenders \ {s} : step'[t] = step[t]
      /\ \A t \in Contenders : Exited(t) => Exited(t)'
  BY <1>1, GoOnOne, ExitedStay DEF QuotaInv
<1>3. LockIsSigned'
  BY <1>1, <1>2 DEF QuotaInv, LockIsSigned
<1>4. OneReaper'
  BY <1>2, QuotaNames DEF QuotaInv, OneReaper
<1>5. ReapsTheDead'
  <2> SUFFICES ASSUME NEW t \in Contenders, step'[t] \in {"probe", "reread", "remove"}
               PROVE  /\ read'[t] \in Contenders
                      /\ step'[t] \in {"reread", "remove"} =>
                           step'[read'[t]] \in {"exited", "killed"}
                      /\ step'[t] = "remove" => owner = read'[t]
    BY DEF ReapsTheDead, Exited
  <2>1. CASE t = s
    BY <1>2, <2>1 DEF Exited
  <2>2. CASE t # s
    BY <1>2, <2>2 DEF QuotaInv, ReapsTheDead, Exited
  <2> QED BY <2>1, <2>2
<1> QED BY <1>2, <1>3, <1>4, <1>5 DEF QuotaInv, QuotaTypeOK

\* Every step keeps the invariant (acquireSpoolQuotaLock, reclaimDeadOwner).
LEMMA QuotaSteps ==
    ASSUME QuotaInv, ~GuardExpires, QuotaNext
    PROVE  QuotaInv'
<1> USE DEF QuotaInv
<1>1. ASSUME NEW s \in Contenders, Create(s) PROVE QuotaInv'
  <2>1. ~Exited(s) /\ step[s] = "create"
    BY <1>1 DEF Create, Exited
  <2>2. CASE owner = NoFile
    <3>1. owner' = Nobody /\ GoOn(s, "sign") /\ "sign" \in RelaySteps /\ UNCHANGED <<reaper, read>>
      BY <1>1, <2>2 DEF Create, RelaySteps
    <3>2. step'[s] = "sign" /\ \A t \in Contenders \ {s} : step'[t] = step[t]
      BY <3>1, GoOnOne
    <3>3. \A t \in Contenders : step[t] \notin {"sign", "inside", "remove"}
      BY <2>2, QuotaNames DEF LockIsSigned, ReapsTheDead
    <3>4. LockIsSigned'
      BY <3>1, <3>2, <3>3 DEF LockIsSigned
    <3> QED BY <2>1, <3>1, <3>3, <3>4, OwnerSteps
  <2>3. CASE owner # NoFile
    BY <1>1, <2>1, <2>3, QuietSender DEF Create
  <2> QED BY <2>2, <2>3
<1>2. ASSUME NEW s \in Contenders, Sign(s) PROVE QuotaInv'
  <2>1. /\ ~Exited(s) /\ step[s] = "sign" /\ owner' = s /\ GoOn(s, "inside")
        /\ "inside" \in RelaySteps /\ UNCHANGED <<reaper, read>>
    BY <1>2 DEF Sign, Exited, RelaySteps
  <2>2. owner = Nobody
    BY <2>1 DEF LockIsSigned
  <2>3. step'[s] = "inside" /\ \A t \in Contenders \ {s} : step'[t] = step[t]
    BY <2>1, GoOnOne
  <2>4. \A t \in Contenders \ {s} : step[t] \notin {"sign", "inside", "remove"}
    BY <2>1, <2>2, QuotaNames DEF LockIsSigned, ReapsTheDead
  <2>5. LockIsSigned'
    BY <2>1, <2>3, <2>4 DEF LockIsSigned
  <2> QED BY <2>1, <2>4, <2>5, OwnerSteps
<1>3. ASSUME NEW s \in Contenders, MakeGuard(s) PROVE QuotaInv'
  <2>1. ~Exited(s) /\ step[s] = "guard" /\ UNCHANGED <<owner, read>>
    BY <1>3 DEF MakeGuard, Exited
  <2>2. CASE reaper = Nobody /\ reaper' = s /\ GoOn(s, "read")
    <3>1. "read" \in Guarding /\ "read" \notin {"probe", "reread", "remove"}
      BY DEF Guarding
    <3> QED BY <2>1, <2>2, <3>1, ReaperSteps DEF QuotaTypeOK
  <2>3. CASE UNCHANGED reaper /\ (GoOn(s, "create") \/ GoOn(s, "exited"))
    BY <2>1, <2>3, QuietSender
  <2> QED BY <1>3, <2>2, <2>3 DEF MakeGuard
<1>4. ASSUME NEW s \in Contenders, ReadOwner(s) PROVE QuotaInv'
  <2>1. /\ ~Exited(s) /\ step[s] = "read" /\ UNCHANGED <<owner, reaper>> /\ reaper = s
        /\ read' = [read EXCEPT ![s] = owner]
    BY <1>4 DEF ReadOwner, Exited, OneReaper, Guarding
  <2>2. PICK x \in {"probe", "unguard"} : GoOn(s, x) /\ (x = "probe" => owner \in Contenders)
    BY <1>4 DEF ReadOwner
  <2>3. read'[s] = owner /\ read' \in [Contenders -> Contenders \cup {Nobody, NoFile}]
    BY <2>1 DEF QuotaTypeOK
  <2>4. \A t \in Contenders \ {s} : read'[t] = read[t]
    BY <2>1 DEF QuotaTypeOK
  <2>5. x \in Guarding
    BY DEF Guarding
  <2> QED BY <2>1, <2>2, <2>3, <2>4, <2>5, ReaperSteps
<1>5. ASSUME NEW s \in Contenders, Probe(s) PROVE QuotaInv'
  <2>1. /\ ~Exited(s) /\ step[s] = "probe" /\ UNCHANGED <<owner, reaper, read>> /\ reaper = s
        /\ read[s] \in Contenders
    BY <1>5 DEF Probe, Exited, OneReaper, Guarding, ReapsTheDead
  <2>2. PICK x \in {"reread", "unguard"} : GoOn(s, x) /\ (x = "reread" => Exited(read[s]))
    BY <1>5 DEF Probe
  <2>3. x \in Guarding
    BY DEF Guarding
  <2> QED BY <2>1, <2>2, <2>3, ReaperSteps DEF QuotaTypeOK
<1>6. ASSUME NEW s \in Contenders, Reread(s) PROVE QuotaInv'
  <2>1. /\ ~Exited(s) /\ step[s] = "reread" /\ UNCHANGED <<owner, reaper, read>> /\ reaper = s
        /\ read[s] \in Contenders /\ Exited(read[s])
    BY <1>6 DEF Reread, Exited, OneReaper, Guarding, ReapsTheDead
  <2>2. PICK x \in {"remove", "unguard"} : GoOn(s, x) /\ (x = "remove" => owner = read[s])
    BY <1>6 DEF Reread
  <2>3. x \in Guarding
    BY DEF Guarding
  <2> QED BY <2>1, <2>2, <2>3, ReaperSteps DEF QuotaTypeOK
<1>7. ASSUME NEW s \in Contenders, Remove(s) PROVE QuotaInv'
  <2>1. /\ ~Exited(s) /\ step[s] = "remove" /\ owner' = NoFile /\ GoOn(s, "unguard")
        /\ "unguard" \in RelaySteps /\ UNCHANGED <<reaper, read>>
    BY <1>7 DEF Remove, Exited, RelaySteps
  <2>2. reaper = s /\ owner = read[s] /\ read[s] \in Contenders /\ Exited(read[s])
    BY <2>1 DEF OneReaper, Guarding, ReapsTheDead
  <2>3. \A t \in Contenders \ {s} : step[t] # "remove"
    BY <2>2 DEF OneReaper, Guarding
  <2>4. \A t \in Contenders : step[t] \notin {"sign", "inside"}
    BY <2>2, QuotaNames DEF LockIsSigned, Exited
  <2>5. step'[s] = "unguard" /\ \A t \in Contenders \ {s} : step'[t] = step[t]
    BY <2>1, GoOnOne
  <2>6. LockIsSigned'
    BY <2>4, <2>5 DEF LockIsSigned
  <2> QED BY <2>1, <2>2, <2>3, <2>6, OwnerSteps
<1>8. ASSUME NEW s \in Contenders, Unguard(s) PROVE QuotaInv'
  <2>1. /\ ~Exited(s) /\ step[s] = "unguard" /\ reaper' = Nobody /\ GoOn(s, "create")
        /\ "create" \in RelaySteps /\ UNCHANGED <<owner, read>>
    BY <1>8 DEF Unguard, Exited, RelaySteps
  <2>2. \A t \in Contenders \ {s} : step[t] \notin Guarding
    BY <2>1 DEF OneReaper, Guarding
  <2>3. /\ step' \in [Contenders -> RelaySteps] /\ step'[s] = "create"
        /\ \A t \in Contenders \ {s} : step'[t] = step[t]
    BY <2>1, GoOnOne
  <2>4. LockIsSigned'
    BY <2>1, <2>3 DEF LockIsSigned
  <2>5. OneReaper' /\ ReapsTheDead'
    BY <2>2, <2>3 DEF OneReaper, ReapsTheDead, Guarding
  <2> QED BY <2>1, <2>3, <2>4, <2>5 DEF QuotaTypeOK
<1>9. ASSUME NEW s \in Contenders, ReleaseQuota(s) PROVE QuotaInv'
  <2>1. /\ ~Exited(s) /\ step[s] = "inside" /\ GoOn(s, "exited")
        /\ "exited" \in RelaySteps /\ UNCHANGED <<reaper, read>>
    BY <1>9 DEF ReleaseQuota, Exited, RelaySteps
  <2>2. owner = s /\ owner' = NoFile
    BY <1>9, <2>1 DEF ReleaseQuota, LockIsSigned
  <2>3. \A t \in Contenders \ {s} : step[t] \notin {"remove", "sign", "inside"}
    BY <2>1, <2>2, QuotaNames DEF ReapsTheDead, LockIsSigned
  <2>5. step'[s] = "exited" /\ \A t \in Contenders \ {s} : step'[t] = step[t]
    BY <2>1, GoOnOne
  <2>6. LockIsSigned'
    BY <2>3, <2>5 DEF LockIsSigned
  <2> QED BY <2>1, <2>2, <2>3, <2>6, OwnerSteps
<1>10. ASSUME NEW s \in Contenders, Kill(s) PROVE QuotaInv'
  BY <1>10, QuietSender DEF Kill
<1>11. CASE ExpireGuard
  <2>1. /\ reaper \in Contenders /\ Exited(reaper) /\ reaper' = Nobody
        /\ UNCHANGED <<step, owner, read>>
    BY <1>11 DEF ExpireGuard, QuotaTypeOK
  <2>2. \A t \in Contenders : step[t] \notin Guarding
    BY <2>1 DEF OneReaper, Guarding, Exited
  <2> QED
    BY <2>1, <2>2 DEF QuotaTypeOK, LockIsSigned, OneReaper, ReapsTheDead, Guarding
<1> QED
  BY <1>1, <1>2, <1>3, <1>4, <1>5, <1>6, <1>7, <1>8, <1>9, <1>10, <1>11 DEF QuotaNext, Contend

\* It holds at the start.
LEMMA QuotaStart == QuotaInit => QuotaInv
BY QuotaNames DEF QuotaInit, QuotaInv, QuotaTypeOK, LockIsSigned, OneReaper, ReapsTheDead,
   RelaySteps, Guarding

\* It depends on the variables of the lock alone.
LEMMA QuotaStutter == QuotaInv /\ UNCHANGED quotaVars => QuotaInv'
BY DEF quotaVars, QuotaInv, QuotaTypeOK, LockIsSigned, OneReaper, ReapsTheDead, Exited

\* It admits one sender.
LEMMA OneInsideHolds == QuotaInv => OneInside
BY DEF QuotaInv, LockIsSigned, OneInside

\* Where no guard expires under a reclaimer that is still at work, a lock is
\* removed only from a dead owner (hookIngress.ts).
THEOREM QuotaInvariant ==
    ASSUME ~GuardExpires
    PROVE  QuotaSpec => []QuotaInv
<1>1. QuotaInv /\ [QuotaNext]_quotaVars => QuotaInv'
  BY QuotaSteps, QuotaStutter
<1> QED BY <1>1, QuotaStart, PTL DEF QuotaSpec

-----------------------------------------------------------------------------
(* The hook spool                                                          *)

\* Where a sender may be.
SenderSteps ==
    {"start", "post", "posted", "queue", "count", "recount", "decide", "discard", "exited"}
\* What a captured envelope's file may be called.
Names == {"none", "plain", "ready", "claimed", "orphan", "gone"}
\* The steps taken inside the quota lock.
InLock == {"count", "recount", "decide", "discard"}

\* Types of the files, the senders, the markers and the drain's pass.
SpoolTypeOK ==
    /\ sender \in [Envelopes -> SenderSteps]
    /\ place \in [Envelopes -> Names]
    /\ inside \in SUBSET Envelopes
    /\ counted \in [Envelopes -> Nat]
    /\ dropped \in [Envelopes -> {"none"} \cup Markers]
    /\ batch \in SUBSET Envelopes
    /\ pass \in {"idle", "claim", "unlink", "crashed"}

\* Only what the store has is unlinked.
BatchIsStored == pass = "unlink" => batch \subseteq durable

\* An envelope that is gone was stored, or its drop is in a marker or a
\* recorded gap.
DropsAreMarked ==
    \A h \in Envelopes :
        /\ dropped[h] # "none" => dropped[h] \in markers \cup gaps
        /\ sender[h] = "discard" => dropped[h] # "none"
        /\ sender[h] = "posted" => h \in durable
        /\ place[h] = "gone" => h \in durable \/ dropped[h] # "none"

\* Who counts is alone in the lock.
OneCounts == \A h \in Envelopes : sender[h] \in InLock => inside = {h}

\* What a sender counted is at least what the queue holds now.
CountsCover ==
    \A h \in Envelopes :
        /\ sender[h] = "recount" => Cardinality(Named("ready")) <= counted[h]
        /\ sender[h] = "decide" => Backlog <= counted[h]

\* The inductive invariant.
SpoolInv ==
    /\ SpoolTypeOK /\ BatchIsStored /\ DropsAreMarked /\ OneCounts
    /\ CountsCover /\ CeilingHolds

-----------------------------------------------------------------------------
\* Counting files.

\* Files of a name are a finite set.
LEMMA FilesAreFinite ==
    ASSUME NEW name
    PROVE  IsFiniteSet(Named(name)) /\ Cardinality(Named(name)) \in Nat
<1>1. IsFiniteSet(Envelopes)
  BY HookSpoolAssumption
<1>2. Named(name) \subseteq Envelopes
  BY DEF Named
<1> QED BY <1>1, <1>2, FS_Subset, FS_CardinalityType

\* So they are after a step.
LEMMA FilesAreFiniteNext ==
    ASSUME NEW name
    PROVE  IsFiniteSet(Named(name)') /\ Cardinality(Named(name)') \in Nat
<1>1. IsFiniteSet(Envelopes)
  BY HookSpoolAssumption
<1>2. Named(name)' \subseteq Envelopes
  BY DEF Named
<1>3. IsFiniteSet(Named(name)')
  BY <1>1, <1>2, FS_Subset
<1> QED BY <1>3, FS_CardinalityType

\* The bounds of the queue are numbers, and the absolute one is no smaller.
LEMMA SpoolBounds ==
    /\ SheddingAt \in Nat /\ MaxPending \in Nat /\ MaxAbsolute \in Nat
    /\ MaxPending <= MaxAbsolute
BY HookSpoolAssumption

\* No file is added to what is counted.
NoneAdded == Named("ready")' \subseteq Named("ready") /\ Named("claimed")' \subseteq Named("claimed")

\* Without a file added no count grows.
LEMMA NoneAddedCounts ==
    ASSUME NoneAdded
    PROVE  /\ Cardinality(Named("ready")') <= Cardinality(Named("ready"))
           /\ Backlog' <= Backlog
<1>1. Cardinality(Named("ready")') <= Cardinality(Named("ready"))
  BY FilesAreFinite, FS_Subset DEF NoneAdded
<1>2. Cardinality(Named("claimed")') <= Cardinality(Named("claimed"))
  BY FilesAreFinite, FS_Subset DEF NoneAdded
<1> QED BY <1>1, <1>2, FilesAreFinite, FilesAreFiniteNext DEF Backlog

\* A published file is claimed: it is counted under its other name.
LEMMA ClaimCounts ==
    ASSUME NEW h \in Envelopes, h \in Named("ready"), h \notin Named("claimed"),
           Named("ready")' = Named("ready") \ {h}, Named("claimed")' = Named("claimed") \cup {h}
    PROVE  /\ Cardinality(Named("ready")') <= Cardinality(Named("ready"))
           /\ Backlog' = Backlog
<1>1. Cardinality(Named("ready")') = Cardinality(Named("ready")) - 1
  BY FilesAreFinite, FS_RemoveElement
<1>2. Cardinality(Named("claimed")') = Cardinality(Named("claimed")) + 1
  BY FilesAreFinite, FS_AddElement
<1> QED BY <1>1, <1>2, FilesAreFinite, FilesAreFiniteNext DEF Backlog

\* A published envelope is one more.
LEMMA PublishCounts ==
    ASSUME NEW h \in Envelopes, h \notin Named("ready"),
           Named("ready")' = Named("ready") \cup {h}, Named("claimed")' = Named("claimed")
    PROVE  Backlog' = Backlog + 1
<1>1. Cardinality(Named("ready")') = Cardinality(Named("ready")) + 1
  BY FilesAreFinite, FS_AddElement
<1> QED BY <1>1, FilesAreFinite, FilesAreFiniteNext DEF Backlog

\* The backlog is a number.
LEMMA BacklogIsNat == Backlog \in Nat
BY FilesAreFinite DEF Backlog

\* So it is after a step.
LEMMA BacklogNextIsNat == Backlog' \in Nat
BY FilesAreFiniteNext DEF Backlog

-----------------------------------------------------------------------------
\* What a step of one sender, or of the drain, keeps.

\* The counts of whoever holds the lock go on covering the backlog.
LEMMA CountsStay ==
    ASSUME SpoolInv, Backlog' <= Backlog, Cardinality(Named("ready")') <= Cardinality(Named("ready")),
           \A g \in Envelopes : sender'[g] \in {"recount", "decide"} =>
               sender'[g] = sender[g] /\ counted'[g] = counted[g]
    PROVE  CountsCover' /\ CeilingHolds'
<1>1. CountsCover'
  <2> SUFFICES ASSUME NEW g \in Envelopes, sender'[g] \in {"recount", "decide"}
               PROVE  /\ sender'[g] = "recount" => Cardinality(Named("ready")') <= counted'[g]
                      /\ sender'[g] = "decide" => Backlog' <= counted'[g]
    BY DEF CountsCover
  <2>1. sender'[g] = sender[g] /\ counted'[g] = counted[g] /\ counted[g] \in Nat
    BY DEF SpoolInv, SpoolTypeOK
  <2> QED
    BY <2>1, FilesAreFinite, FilesAreFiniteNext, BacklogIsNat, BacklogNextIsNat
       DEF SpoolInv, CountsCover
<1>2. CeilingHolds'
  BY BacklogIsNat, BacklogNextIsNat, SpoolBounds DEF SpoolInv, CeilingHolds
<1> QED BY <1>1, <1>2

\* When a sender moves, the others stay where they are.
LEMMA SenderMoves ==
    ASSUME SpoolInv, NEW h \in Envelopes, NEW x \in SenderSteps, Proceed(h, x)
    PROVE  /\ sender' \in [Envelopes -> SenderSteps]
           /\ sender'[h] = x
           /\ \A g \in Envelopes \ {h} : sender'[g] = sender[g]
BY DEF SpoolInv, SpoolTypeOK, Proceed

\* When a file is renamed, the others keep their names.
LEMMA RenameOne ==
    ASSUME SpoolInv, NEW h \in Envelopes, NEW x \in Names, Rename(h, x)
    PROVE  /\ place' \in [Envelopes -> Names]
           /\ place'[h] = x
           /\ \A g \in Envelopes \ {h} : place'[g] = place[g]
BY DEF SpoolInv, SpoolTypeOK, Rename

\* A name that is not counted is given to a file.
LEMMA RenamedAway ==
    ASSUME SpoolInv, NEW h \in Envelopes, NEW x \in Names \ {"ready", "claimed"},
           place'[h] = x \/ place'[h] = place[h],
           \A g \in Envelopes \ {h} : place'[g] = place[g]
    PROVE  NoneAdded
BY DEF NoneAdded, Named

\* A sender goes on; it neither counts nor writes a marker, and its file is
\* left as it is or gets a name that is not counted.
LEMMA SenderGoesOn ==
    ASSUME SpoolInv, NEW h \in Envelopes, NEW x \in SenderSteps \ {"recount", "decide", "discard"},
           Proceed(h, x),
           UNCHANGED <<counted, markers, gaps, dropped, pass, batch>>,
           place' \in [Envelopes -> Names],
           \A g \in Envelopes \ {h} : place'[g] = place[g],
           place'[h] \in Names \ {"ready", "claimed"} \/ place'[h] = place[h],
           durable \subseteq durable',
           place'[h] = "gone" => place[h] = "gone" \/ h \in durable' \/ dropped[h] # "none",
           x = "posted" => h \in durable',
           \/ x \notin InLock /\ inside' = inside \ {h}
           \/ x \notin InLock /\ sender[h] \notin InLock /\ inside' = inside
           \/ x \in InLock /\ inside' = {h} /\ inside = {}
    PROVE  SpoolInv'
<1>1. /\ sender' \in [Envelopes -> SenderSteps] /\ sender'[h] = x
      /\ \A g \in Envelopes \ {h} : sender'[g] = sender[g]
  BY SenderMoves
<1>2. NoneAdded
  BY RenamedAway DEF NoneAdded, Named
<1>3. CountsCover' /\ CeilingHolds'
  BY <1>1, <1>2, NoneAddedCounts, CountsStay
<1>4. inside' \in SUBSET Envelopes
  BY DEF SpoolInv, SpoolTypeOK
<1>5. SpoolTypeOK'
  BY <1>1, <1>4 DEF SpoolInv, SpoolTypeOK
<1>6. BatchIsStored'
  BY DEF SpoolInv, BatchIsStored
<1>7. DropsAreMarked'
  BY <1>1 DEF SpoolInv, DropsAreMarked
<1>8. OneCounts'
  BY <1>1 DEF SpoolInv, OneCounts
<1> QED BY <1>3, <1>5, <1>6, <1>7, <1>8 DEF SpoolInv

\* The drain goes on: no sender moves, nothing counted is added.
LEMMA DrainGoesOn ==
    ASSUME SpoolInv, UNCHANGED <<sender, inside, counted, dropped>>,
           place' \in [Envelopes -> Names],
           Backlog' <= Backlog, Cardinality(Named("ready")') <= Cardinality(Named("ready")),
           durable \subseteq durable', markers \cup gaps \subseteq markers' \cup gaps',
           \A g \in Envelopes : place'[g] = "gone" => place[g] = "gone" \/ g \in durable',
           batch' \in SUBSET Envelopes, pass' \in {"idle", "claim", "unlink", "crashed"},
           BatchIsStored'
    PROVE  SpoolInv'
<1>1. CountsCover' /\ CeilingHolds'
  BY CountsStay
<1>2. SpoolTypeOK'
  BY DEF SpoolInv, SpoolTypeOK
<1>3. DropsAreMarked'
  BY DEF SpoolInv, DropsAreMarked
<1>4. OneCounts'
  BY DEF SpoolInv, OneCounts
<1> QED BY <1>1, <1>2, <1>3, <1>4 DEF SpoolInv

\* Without a rename no count changes.
LEMMA NothingRenamed ==
    ASSUME SpoolInv, place' = place
    PROVE  /\ Backlog' <= Backlog /\ Cardinality(Named("ready")') <= Cardinality(Named("ready"))
           /\ NoneAdded
<1>1. NoneAdded
  BY DEF NoneAdded, Named
<1> QED BY <1>1, NoneAddedCounts

-----------------------------------------------------------------------------
\* One step per action: the relay.

\* The steps before the queue: capture, post and what follows it.
LEMMA PostingSteps ==
    ASSUME SpoolInv, NEW h \in Envelopes,
           Capture(h) \/ Stop(h) \/ Post(h) \/ PostRefused(h) \/ RemovePosted(h)
    PROVE  SpoolInv'
<1> USE DEF drainVars
<1>t. place \in [Envelopes -> Names] /\ inside \ {h} = inside \ {h}
  BY DEF SpoolInv, SpoolTypeOK
<1>1. CASE Capture(h)
  <2>1. sender[h] \notin InLock /\ UNCHANGED <<inside, counted, markers, gaps, dropped, durable, pass, batch>>
    BY <1>1 DEF Capture, InLock
  <2>2. CASE Closed(h)
    <3>1. Proceed(h, "exited") /\ place' = place
      BY <1>1, <2>2 DEF Capture
    <3>2. "exited" \in SenderSteps \ {"recount", "decide", "discard"} /\ "exited" \notin InLock
      BY DEF SenderSteps, InLock
    <3> QED BY <1>t, <2>1, <3>1, <3>2, SenderGoesOn
  <2>3. CASE ~Closed(h)
    <3>1. Proceed(h, "post") /\ Rename(h, "plain")
      BY <1>1, <2>3 DEF Capture
    <3>2. /\ "post" \in SenderSteps \ {"recount", "decide", "discard"} /\ "post" \notin InLock
          /\ "plain" \in Names \ {"ready", "claimed"}
      BY DEF SenderSteps, InLock, Names
    <3>3. /\ place' \in [Envelopes -> Names] /\ place'[h] = "plain"
          /\ \A g \in Envelopes \ {h} : place'[g] = place[g]
      BY <3>1, <3>2, RenameOne
    <3> QED BY <2>1, <3>1, <3>2, <3>3, SenderGoesOn
  <2> QED BY <2>2, <2>3
<1>2. CASE Stop(h) \/ PostRefused(h)
  <2>1. /\ sender[h] \notin InLock
        /\ UNCHANGED <<place, inside, counted, markers, gaps, dropped, durable, pass, batch>>
    BY <1>2 DEF Stop, PostRefused, InLock
  <2>2. PICK x \in {"exited", "queue"} : Proceed(h, x)
    BY <1>2 DEF Stop, PostRefused
  <2>3. x \in SenderSteps \ {"recount", "decide", "discard"} /\ x \notin InLock /\ x # "posted"
    BY DEF SenderSteps, InLock
  <2> QED BY <1>t, <2>1, <2>2, <2>3, SenderGoesOn
<1>3. CASE Post(h)
  <2>1. /\ sender[h] \notin InLock /\ durable' = durable \cup {h}
        /\ UNCHANGED <<place, inside, counted, markers, gaps, dropped, pass, batch>>
    BY <1>3 DEF Post, InLock
  <2>2. PICK x \in {"posted", "queue"} : Proceed(h, x)
    BY <1>3 DEF Post
  <2>3. x \in SenderSteps \ {"recount", "decide", "discard"} /\ x \notin InLock
    BY DEF SenderSteps, InLock
  <2> QED BY <1>t, <2>1, <2>2, <2>3, SenderGoesOn
<1>4. CASE RemovePosted(h)
  <2>1. /\ sender[h] \notin InLock /\ h \in durable /\ Proceed(h, "exited")
        /\ UNCHANGED <<inside, counted, markers, gaps, dropped, durable, pass, batch>>
    BY <1>4 DEF RemovePosted, InLock, SpoolInv, DropsAreMarked
  <2>2. "exited" \in SenderSteps \ {"recount", "decide", "discard"} /\ "exited" \notin InLock
    BY DEF SenderSteps, InLock
  <2>3. place' = [place EXCEPT ![h] = "gone"] \/ place' = place
    BY <1>4 DEF RemovePosted, RemovePlain
  <2>4. "gone" \in Names \ {"ready", "claimed"}
    BY DEF Names
  <2>5. /\ place' \in [Envelopes -> Names] /\ (place'[h] = "gone" \/ place'[h] = place[h])
        /\ \A g \in Envelopes \ {h} : place'[g] = place[g]
    BY <1>t, <2>3, <2>4
  <2> QED BY <2>1, <2>2, <2>4, <2>5, SenderGoesOn
<1> QED BY <1>1, <1>2, <1>3, <1>4

\* The steps that enter the lock, pass it on, discard and die.
LEMMA QueueSteps ==
    ASSUME SpoolInv, NEW h \in Envelopes,
           Enter(h) \/ PassOn(h) \/ Discard(h) \/ KillSender(h)
    PROVE  SpoolInv'
<1> USE DEF drainVars
<1>t. place \in [Envelopes -> Names]
  BY DEF SpoolInv, SpoolTypeOK
<1>1. CASE Enter(h)
  <2>1. /\ Proceed(h, "count") /\ inside = {} /\ inside' = {h}
        /\ UNCHANGED <<place, counted, markers, gaps, dropped, durable, pass, batch>>
    BY <1>1 DEF Enter
  <2>2. "count" \in SenderSteps \ {"recount", "decide", "discard"} /\ "count" \in InLock
    BY DEF SenderSteps, InLock
  <2> QED BY <1>t, <2>1, <2>2, SenderGoesOn
<1>2. CASE PassOn(h)
  <2>1. /\ Proceed(h, "exited") /\ sender[h] \notin InLock
        /\ UNCHANGED <<place, inside, counted, markers, gaps, dropped, durable, pass, batch>>
    BY <1>2 DEF PassOn, InLock
  <2>2. "exited" \in SenderSteps \ {"recount", "decide", "discard"} /\ "exited" \notin InLock
    BY DEF SenderSteps, InLock
  <2> QED BY <1>t, <2>1, <2>2, SenderGoesOn
<1>3. CASE Discard(h)
  <2>1. /\ Proceed(h, "exited") /\ dropped[h] # "none" /\ inside' = inside \ {h}
        /\ UNCHANGED <<counted, markers, gaps, dropped, durable, pass, batch>>
    BY <1>3 DEF Discard, SpoolInv, DropsAreMarked
  <2>2. "exited" \in SenderSteps \ {"recount", "decide", "discard"} /\ "exited" \notin InLock
    BY DEF SenderSteps, InLock
  <2>3. place' = [place EXCEPT ![h] = "gone"] \/ place' = place
    BY <1>3 DEF Discard, RemovePlain
  <2>4. "gone" \in Names \ {"ready", "claimed"}
    BY DEF Names
  <2>5. /\ place' \in [Envelopes -> Names] /\ (place'[h] = "gone" \/ place'[h] = place[h])
        /\ \A g \in Envelopes \ {h} : place'[g] = place[g]
    BY <1>t, <2>3, <2>4
  <2> QED BY <2>1, <2>2, <2>4, <2>5, SenderGoesOn
<1>4. CASE KillSender(h)
  <2>1. /\ Proceed(h, "exited") /\ inside' = inside \ {h}
        /\ UNCHANGED <<place, counted, markers, gaps, dropped, durable, pass, batch>>
    BY <1>4 DEF KillSender
  <2>2. "exited" \in SenderSteps \ {"recount", "decide", "discard"} /\ "exited" \notin InLock
    BY DEF SenderSteps, InLock
  <2> QED BY <1>t, <2>1, <2>2, SenderGoesOn
<1> QED BY <1>1, <1>2, <1>3, <1>4

\* Whoever holds the lock is the only one to count.
LEMMA AloneInside ==
    ASSUME SpoolInv, NEW h \in Envelopes, sender[h] \in InLock
    PROVE  \A g \in Envelopes \ {h} : sender[g] \notin InLock
BY DEF SpoolInv, OneCounts

\* The queue is counted, and counted again under the lock.
LEMMA CountingSteps ==
    ASSUME SpoolInv, NEW h \in Envelopes, CountFirst(h) \/ CountSecond(h)
    PROVE  SpoolInv'
<1> USE DEF drainVars
<1>1. PICK x \in {"recount", "decide"} : Proceed(h, x)
  BY DEF CountFirst, CountSecond
<1>2. x \in SenderSteps /\ x \in InLock /\ sender[h] \in InLock
  BY DEF SenderSteps, InLock, CountFirst, CountSecond
<1>3. /\ sender' \in [Envelopes -> SenderSteps] /\ sender'[h] = x
      /\ \A g \in Envelopes \ {h} : sender'[g] = sender[g] /\ sender[g] \notin InLock
  BY <1>1, <1>2, SenderMoves, AloneInside
<1>4. UNCHANGED <<place, inside, markers, gaps, dropped, durable, pass, batch>>
  BY DEF CountFirst, CountSecond
<1>5. Named("ready")' = Named("ready") /\ Named("claimed")' = Named("claimed") /\ Backlog' = Backlog
  BY <1>4 DEF Named, Backlog
<1>6. counted[h] \in Nat /\ counted \in [Envelopes -> Nat]
  BY DEF SpoolInv, SpoolTypeOK
<1>7. CASE CountFirst(h)
  <2>1. counted' = [counted EXCEPT ![h] = Cardinality(Named("ready"))] /\ sender'[h] = "recount"
    BY <1>7, SenderMoves DEF CountFirst, Globs, SenderSteps
  <2>2. counted' \in [Envelopes -> Nat] /\ counted'[h] = Cardinality(Named("ready"))
    BY <1>6, <2>1, FilesAreFinite
  <2>3. CountsCover'
    BY <1>3, <1>5, <2>1, <2>2, FilesAreFinite DEF CountsCover, InLock
  <2> QED
    BY <1>2, <1>3, <1>4, <1>5, <2>1, <2>2, <2>3 DEF SpoolInv, SpoolTypeOK, BatchIsStored, DropsAreMarked,
       OneCounts, CeilingHolds
<1>8. CASE CountSecond(h)
  <2>1. /\ counted' = [counted EXCEPT ![h] = @ + Cardinality(Named("claimed"))]
        /\ sender[h] = "recount" /\ sender'[h] = "decide"
    BY <1>8, SenderMoves DEF CountSecond, Globs, SenderSteps
  <2>2. counted'[h] = counted[h] + Cardinality(Named("claimed"))
    BY <1>6, <2>1
  <2>3. Cardinality(Named("ready")) <= counted[h]
    BY <2>1 DEF SpoolInv, CountsCover
  <2>4. counted' \in [Envelopes -> Nat] /\ Backlog <= counted'[h]
    BY <1>6, <2>1, <2>2, <2>3, FilesAreFinite DEF Backlog
  <2>5. CountsCover'
    BY <1>3, <1>5, <2>1, <2>4 DEF CountsCover, InLock
  <2> QED
    BY <1>2, <1>3, <1>4, <1>5, <2>1, <2>4, <2>5 DEF SpoolInv, SpoolTypeOK, BatchIsStored, DropsAreMarked,
       OneCounts, CeilingHolds
<1> QED BY <1>7, <1>8

\* An envelope is renamed into the queue when the count allows it.
LEMMA PublishSteps ==
    ASSUME SpoolInv, NEW h \in Envelopes, Publish(h)
    PROVE  SpoolInv'
<1> USE DEF drainVars
<1>1. /\ sender[h] = "decide" /\ sender[h] \in InLock /\ place[h] = "plain" /\ Fits(h)
      /\ Rename(h, "ready") /\ Proceed(h, "exited") /\ inside' = inside \ {h}
      /\ "ready" \in Names /\ "exited" \in SenderSteps /\ "exited" \notin InLock
      /\ UNCHANGED <<counted, markers, gaps, dropped, durable, pass, batch>>
  BY DEF Publish, InLock, Names, SenderSteps
<1>2. /\ sender' \in [Envelopes -> SenderSteps] /\ sender'[h] = "exited"
      /\ \A g \in Envelopes \ {h} : sender'[g] = sender[g] /\ sender[g] \notin InLock
  BY <1>1, SenderMoves, AloneInside
<1>3. /\ place' \in [Envelopes -> Names] /\ place'[h] = "ready"
      /\ \A g \in Envelopes \ {h} : place'[g] = place[g]
  BY <1>1, RenameOne
<1>4. /\ h \notin Named("ready")
      /\ Named("ready")' = Named("ready") \cup {h} /\ Named("claimed")' = Named("claimed")
  BY <1>1, <1>3 DEF Named
<1>5. Backlog' = Backlog + 1
  BY <1>4, PublishCounts
<1>6. Backlog <= counted[h] /\ counted[h] < MaxAbsolute /\ counted[h] \in Nat
  BY <1>1, SpoolBounds DEF SpoolInv, SpoolTypeOK, CountsCover, Fits
<1>7. CeilingHolds'
  BY <1>5, <1>6, BacklogIsNat, SpoolBounds DEF CeilingHolds
<1>8. CountsCover'
  BY <1>1, <1>2 DEF CountsCover, InLock
<1>9. SpoolTypeOK'
  BY <1>1, <1>2, <1>3 DEF SpoolInv, SpoolTypeOK
<1>10. OneCounts'
  BY <1>1, <1>2 DEF OneCounts
<1>11. BatchIsStored' /\ DropsAreMarked'
  BY <1>1, <1>2, <1>3 DEF SpoolInv, BatchIsStored, DropsAreMarked
<1> QED BY <1>7, <1>8, <1>9, <1>10, <1>11 DEF SpoolInv

\* A drop is decided and its marker written first.
LEMMA MarkSteps ==
    ASSUME SpoolInv, NEW h \in Envelopes, Mark(h)
    PROVE  SpoolInv'
<1> USE DEF drainVars
<1>1. /\ sender[h] \in InLock /\ Proceed(h, "discard") /\ "discard" \in SenderSteps /\ "discard" \in InLock
      /\ UNCHANGED <<place, inside, counted, gaps, durable, pass, batch>>
  BY DEF Mark, InLock, SenderSteps
<1>2. PICK m \in Markers : markers' = markers \cup {m} /\ dropped' = [dropped EXCEPT ![h] = m]
  BY DEF Mark, Markers
<1>3. /\ sender' \in [Envelopes -> SenderSteps] /\ sender'[h] = "discard"
      /\ \A g \in Envelopes \ {h} : sender'[g] = sender[g] /\ sender[g] \notin InLock
  BY <1>1, SenderMoves, AloneInside
<1>4. /\ dropped' \in [Envelopes -> {"none"} \cup Markers] /\ dropped'[h] = m
      /\ \A g \in Envelopes \ {h} : dropped'[g] = dropped[g]
  BY <1>2 DEF SpoolInv, SpoolTypeOK
<1>5. m # "none"
  BY DEF Markers
<1>6. CountsCover' /\ CeilingHolds'
  BY <1>1, <1>3, NothingRenamed, CountsStay
<1>7. DropsAreMarked'
  BY <1>1, <1>2, <1>3, <1>4, <1>5 DEF SpoolInv, DropsAreMarked
<1>8. SpoolTypeOK' /\ BatchIsStored'
  BY <1>1, <1>3, <1>4 DEF SpoolInv, SpoolTypeOK, BatchIsStored
<1>9. OneCounts'
  BY <1>1, <1>3 DEF SpoolInv, OneCounts
<1> QED BY <1>6, <1>7, <1>8, <1>9 DEF SpoolInv

-----------------------------------------------------------------------------
\* One step per action: the drain.

\* The drain claims a file, or finds it gone.
LEMMA ClaimSteps ==
    ASSUME SpoolInv, NEW h \in Envelopes, ClaimFile(h)
    PROVE  SpoolInv'
<1>1. /\ pass = "claim" /\ UNCHANGED <<sender, inside, counted, markers, gaps, dropped, pass, durable>>
      /\ batch' = batch \cup {h} /\ Claimable(h)
  BY DEF ClaimFile
<1>2. CASE place[h] \in {"plain", "orphan"}
  <2>1. Rename(h, "orphan") /\ "orphan" \in Names \ {"ready", "claimed"}
    BY <1>2 DEF ClaimFile, Names
  <2>2. /\ place' \in [Envelopes -> Names] /\ place'[h] = "orphan"
        /\ \A g \in Envelopes \ {h} : place'[g] = place[g]
    BY <2>1, RenameOne
  <2>3. Backlog' <= Backlog /\ Cardinality(Named("ready")') <= Cardinality(Named("ready"))
    BY <2>1, <2>2, RenamedAway, NoneAddedCounts
  <2>4. BatchIsStored' /\ batch' \in SUBSET Envelopes
    BY <1>1 DEF SpoolInv, SpoolTypeOK, BatchIsStored
  <2>5. \A g \in Envelopes : place'[g] = "gone" => place[g] = "gone"
    BY <2>2
  <2> QED BY <1>1, <2>2, <2>3, <2>4, <2>5, DrainGoesOn
<1>3. CASE place[h] \in {"ready", "claimed"}
  <2>1. Rename(h, "claimed") /\ "claimed" \in Names
    BY <1>3 DEF ClaimFile, Names
  <2>2. /\ place' \in [Envelopes -> Names] /\ place'[h] = "claimed"
        /\ \A g \in Envelopes \ {h} : place'[g] = place[g]
    BY <2>1, RenameOne
  <2>3. Backlog' <= Backlog /\ Cardinality(Named("ready")') <= Cardinality(Named("ready"))
    <3>1. CASE place[h] = "claimed"
      <4>1. NoneAdded
        BY <2>2, <3>1 DEF NoneAdded, Named
      <4> QED BY <4>1, NoneAddedCounts
    <3>2. CASE place[h] = "ready"
      <4>1. /\ h \in Named("ready") /\ h \notin Named("claimed")
            /\ Named("ready")' = Named("ready") \ {h} /\ Named("claimed")' = Named("claimed") \cup {h}
        BY <2>2, <3>2 DEF Named
      <4> QED BY <4>1, ClaimCounts, BacklogIsNat
    <3> QED BY <1>3, <3>1, <3>2
  <2>4. BatchIsStored' /\ batch' \in SUBSET Envelopes
    BY <1>1 DEF SpoolInv, SpoolTypeOK, BatchIsStored
  <2>5. \A g \in Envelopes : place'[g] = "gone" => place[g] = "gone"
    BY <2>2
  <2> QED BY <1>1, <2>2, <2>3, <2>4, <2>5, DrainGoesOn
<1> QED BY <1>1, <1>2, <1>3 DEF Claimable

\* The drain unlinks what the store has.
LEMMA UnlinkSteps ==
    ASSUME SpoolInv, NEW h \in Envelopes, Unlink(h)
    PROVE  SpoolInv'
<1>1. /\ pass = "unlink" /\ h \in batch /\ Rename(h, "gone") /\ batch' = batch \ {h}
      /\ UNCHANGED <<sender, inside, counted, markers, gaps, dropped, pass, durable>>
      /\ "gone" \in Names \ {"ready", "claimed"}
  BY DEF Unlink, Names
<1>2. /\ place' \in [Envelopes -> Names] /\ place'[h] = "gone"
      /\ \A g \in Envelopes \ {h} : place'[g] = place[g]
  BY <1>1, RenameOne
<1>3. Backlog' <= Backlog /\ Cardinality(Named("ready")') <= Cardinality(Named("ready"))
  BY <1>1, <1>2, RenamedAway, NoneAddedCounts
<1>4. h \in durable /\ BatchIsStored' /\ batch' \in SUBSET Envelopes
  BY <1>1 DEF SpoolInv, SpoolTypeOK, BatchIsStored
<1> QED BY <1>1, <1>2, <1>3, <1>4, DrainGoesOn

\* The drain's other steps: passes, flushes, markers released, the daemon's
\* death and start.
LEMMA OtherDrainSteps ==
    ASSUME SpoolInv, NEW m \in Markers,
           \/ StartPass \/ FlushBatch \/ ReleaseMarker(m) \/ EndPass \/ StartAgain \/ CrashDaemon
    PROVE  SpoolInv'
<1> USE DEF drainVars
<1>1. UNCHANGED <<sender, place, inside, counted, dropped>>
  BY DEF StartPass, FlushBatch, ReleaseMarker, EndPass, StartAgain, CrashDaemon
<1>2. place' \in [Envelopes -> Names] /\ \A g \in Envelopes : place'[g] = place[g]
  BY <1>1 DEF SpoolInv, SpoolTypeOK
<1>3. durable \subseteq durable'
  BY DEF StartPass, FlushBatch, ReleaseMarker, EndPass, StartAgain, CrashDaemon
<1>4. markers \cup gaps \subseteq markers' \cup gaps'
  BY DEF StartPass, FlushBatch, ReleaseMarker, Released, EndPass, StartAgain, CrashDaemon
<1>5. /\ batch' \in SUBSET Envelopes /\ pass' \in {"idle", "claim", "unlink", "crashed"}
      /\ BatchIsStored'
  <2>1. CASE FlushBatch
    <3>1. batch' = batch \cap durable' /\ pass' = "unlink"
      BY <2>1 DEF FlushBatch, Kept
    <3> QED BY <3>1 DEF SpoolInv, SpoolTypeOK, BatchIsStored
  <2>2. CASE StartPass \/ ReleaseMarker(m) \/ EndPass \/ StartAgain \/ CrashDaemon
    BY <2>2 DEF StartPass, ReleaseMarker, EndPass, StartAgain, CrashDaemon, SpoolInv, SpoolTypeOK,
       BatchIsStored
  <2> QED BY <2>1, <2>2
<1>6. Backlog' <= Backlog /\ Cardinality(Named("ready")') <= Cardinality(Named("ready"))
  BY <1>1, NothingRenamed
<1> QED BY <1>1, <1>2, <1>3, <1>4, <1>5, <1>6, DrainGoesOn

\* Every step keeps the invariant.
LEMMA SpoolSteps ==
    ASSUME SpoolInv, SpoolNext
    PROVE  SpoolInv'
<1>1. "shed" \in Markers
  BY DEF Markers
<1>2. ASSUME NEW h \in Envelopes, Send(h) \/ KillSender(h) PROVE SpoolInv'
  BY <1>2, PostingSteps, QueueSteps, CountingSteps, PublishSteps, MarkSteps DEF Send
<1>3. CASE Drain
  BY <1>1, <1>3, ClaimSteps, UnlinkSteps, OtherDrainSteps DEF Drain
<1>4. CASE CrashDaemon
  BY <1>1, <1>4, OtherDrainSteps
<1> QED BY <1>2, <1>3, <1>4 DEF SpoolNext

\* It holds at the start.
LEMMA SpoolStart == SpoolInit => SpoolInv
<1> SUFFICES ASSUME SpoolInit PROVE SpoolInv
  OBVIOUS
<1>1. SpoolTypeOK /\ BatchIsStored /\ DropsAreMarked /\ OneCounts
  BY DEF SpoolInit, SpoolTypeOK, BatchIsStored, DropsAreMarked, OneCounts, SenderSteps, Names, InLock
<1>2. CountsCover
  BY DEF SpoolInit, CountsCover
<1>3. Named("ready") = {} /\ Named("claimed") = {}
  BY DEF SpoolInit, Named
<1>4. Backlog = 0
  BY <1>3, FS_EmptySet DEF Backlog
<1> QED BY <1>1, <1>2, <1>4, SpoolBounds DEF SpoolInv, CeilingHolds

\* It depends on the variables of the spool alone.
LEMMA SpoolStutter == SpoolInv /\ UNCHANGED spoolVars => SpoolInv'
BY DEF spoolVars, SpoolInv, SpoolTypeOK, BatchIsStored, DropsAreMarked, OneCounts, CountsCover,
   CeilingHolds, Backlog, Named

\* No captured envelope is lost without a trace.
LEMMA NothingLostHolds == SpoolInv => NothingLost
BY DEF SpoolInv, DropsAreMarked, NothingLost

\* What was counted under the lock covers the queue, and what is gone is stored
\* or marked, in every reachable state (the relay script of daemon.ts,
\* hookIngress.ts).
THEOREM SpoolInvariant == SpoolSpec => []SpoolInv
<1>1. SpoolInv /\ [SpoolNext]_spoolVars => SpoolInv'
  BY SpoolSteps, SpoolStutter
<1> QED BY <1>1, SpoolStart, PTL DEF SpoolSpec

\* Every envelope that was captured and is gone was stored or left a marker or
\* a recorded gap, for any number of senders, crashes of senders and of the
\* daemon, and drains.
THEOREM SpoolLosesNothing == SpoolSpec => []NothingLost
BY SpoolInvariant, NothingLostHolds, PTL

-----------------------------------------------------------------------------
(* The live session                                                        *)

\* What a page may be doing.
Modes == {"load", "connect", "follow", "failed"}
Frames == [generation : Nat, at : Nat, event : LiveEvents]
Snapshots == [generation : Nat, log : Seq(LiveEvents)]

\* Types of the log, the wire and the page.
LiveTypeOK ==
    /\ log \in Seq(LiveEvents)
    /\ flushed \in 0 .. Len(log)
    /\ follows \in BOOLEAN
    /\ wire \in Seq(Frames)
    /\ mode \in Modes
    /\ generation \in Nat
    /\ replies \in SUBSET Snapshots
    /\ after \in Nat
    /\ pending \in Seq(LiveEvents)
    /\ view \in Seq(LiveEvents)

\* seq is the start of the log.
Starts(seq) == Len(seq) <= Len(log) /\ \A p \in 1 .. Len(seq) : seq[p] = log[p]

\* Frames on the wire are events of the log at their position, and those of the
\* page's generation come from the stream it follows.
WireIsOfLog ==
    \A i \in 1 .. Len(wire) :
        /\ wire[i].generation <= generation
        /\ wire[i].generation = generation => mode = "follow"
        /\ wire[i].at \in 1 .. Len(log)
        /\ wire[i].event = log[wire[i].at]

\* Snapshots on their way are starts of the log; one at most is of the page's
\* generation, which then still loads.
RepliesAreOfLog ==
    \A r \in replies :
        /\ r.generation <= generation
        /\ r.generation = generation => mode = "load"
        /\ Starts(r.log)
        /\ \A q \in replies : r.generation = generation /\ q.generation = generation => q = r

\* The daemon publishes to a page that follows.
StreamIsFollowed == follows = TRUE => mode = "follow"

\* Between two loads, what the page shows and is about to fold is the start of
\* the log up to where the stream goes on.
ViewIsOfLog ==
    /\ mode \in {"load", "failed"} => pending = <<>>
    /\ mode \in {"connect", "follow"} =>
         /\ after = Len(view) + Len(pending) /\ after <= Len(log)
         /\ \A p \in 1 .. Len(view) : view[p] = log[p]
         /\ \A p \in 1 .. Len(pending) : pending[p] = log[Len(view) + p]

\* The inductive invariant.
LiveInv == LiveTypeOK /\ WireIsOfLog /\ RepliesAreOfLog /\ StreamIsFollowed /\ ViewIsOfLog

-----------------------------------------------------------------------------
\* A frame has its fields.
LEMMA FrameFields ==
    ASSUME NEW p \in Nat, NEW e \in LiveEvents, generation \in Nat
    PROVE  /\ Frame(p, e) \in Frames
           /\ Frame(p, e).generation = generation /\ Frame(p, e).at = p /\ Frame(p, e).event = e
BY DEF Frame, Frames

\* They are of their types.
LEMMA FrameTypes ==
    ASSUME NEW f \in Frames
    PROVE  f.generation \in Nat /\ f.at \in Nat /\ f.event \in LiveEvents
BY DEF Frames

\* A flush stores no more than there is.
LEMMA FlushedTypes ==
    ASSUME LiveTypeOK, NEW n \in FlushedTo
    PROVE  n \in 0 .. Len(log)
<1>1. Len(log) \in Nat
  BY LenProperties DEF LiveTypeOK
<1> QED BY <1>1 DEF FlushedTo, LiveTypeOK

\* The frames of a wire, each as the log has it and of no later generation.
SoundWire(w) ==
    \A i \in 1 .. Len(w) :
        w[i].generation <= generation /\ w[i].at \in 1 .. Len(log) /\ w[i].event = log[w[i].at]

\* Reading a frame leaves the others as they are.
LEMMA TailIsSound ==
    ASSUME LiveInv, wire # <<>>
    PROVE  /\ Tail(wire) \in Seq(Frames)
           /\ \A i \in 1 .. Len(Tail(wire)) : i + 1 \in 1 .. Len(wire) /\ Tail(wire)[i] = wire[i + 1]
           /\ SoundWire(Tail(wire))
           /\ Head(wire) = wire[1] /\ 1 \in 1 .. Len(wire)
<1>1. wire \in Seq(Frames) /\ Len(wire) \in Nat \ {0}
  BY EmptySeq DEF LiveInv, LiveTypeOK
<1>2. /\ Tail(wire) \in Seq(Frames) /\ Len(Tail(wire)) = Len(wire) - 1
      /\ \A i \in 1 .. Len(Tail(wire)) : Tail(wire)[i] = wire[i + 1]
  BY <1>1, EmptySeq, HeadTailProperties
<1>3. \A i \in 1 .. Len(Tail(wire)) : i + 1 \in 1 .. Len(wire)
  BY <1>1, <1>2
<1> QED BY <1>1, <1>2, <1>3 DEF SoundWire, LiveInv, WireIsOfLog

\* The page starts over: nothing of the old generation is left to fold.
LEMMA LoadFreshSteps ==
    ASSUME LiveInv, LoadFresh, UNCHANGED <<log, replies, view, after>>,
           flushed' \in 0 .. Len(log), wire' \in Seq(Frames), SoundWire(wire')
    PROVE  LiveInv'
<1>1. /\ generation' = generation + 1 /\ mode' = "load" /\ follows' = FALSE /\ pending' = <<>>
      /\ generation \in Nat
  BY DEF LoadFresh, LiveInv, LiveTypeOK
<1>2. LiveTypeOK'
  <2>1. <<>> \in Seq(LiveEvents) /\ "load" \in Modes /\ generation + 1 \in Nat /\ FALSE \in BOOLEAN
    BY <1>1, EmptySeq DEF Modes
  <2>2. /\ log' = log /\ replies' = replies /\ view' = view /\ after' = after
        /\ log \in Seq(LiveEvents) /\ replies \in SUBSET Snapshots /\ view \in Seq(LiveEvents)
        /\ after \in Nat
    BY DEF LiveInv, LiveTypeOK
  <2> QED
    BY <1>1, <2>1, <2>2 DEF LiveTypeOK
<1>3. WireIsOfLog'
  <2> SUFFICES ASSUME NEW i \in 1 .. Len(wire')
               PROVE  /\ wire'[i].generation <= generation' /\ wire'[i].generation # generation'
                      /\ wire'[i].at \in 1 .. Len(log) /\ wire'[i].event = log[wire'[i].at]
    BY DEF WireIsOfLog
  <2>1. wire'[i] \in Frames
    BY ElementOfSeq
  <2> QED BY <1>1, <2>1, FrameTypes DEF SoundWire
<1>4. RepliesAreOfLog'
  <2> SUFFICES ASSUME NEW r \in replies
               PROVE  r.generation <= generation' /\ r.generation # generation' /\ Starts(r.log)'
    BY DEF RepliesAreOfLog
  <2>1. r.generation \in Nat
    BY DEF LiveInv, LiveTypeOK, Snapshots
  <2> QED BY <1>1, <2>1 DEF LiveInv, RepliesAreOfLog, Starts
<1>5. StreamIsFollowed' /\ ViewIsOfLog'
  BY <1>1 DEF StreamIsFollowed, ViewIsOfLog
<1> QED BY <1>2, <1>3, <1>4, <1>5 DEF LiveInv

\* The reader opens the session anew.
LEMMA ReloadSteps ==
    ASSUME LiveInv, Reload
    PROVE  LiveInv'
<1>1. LoadFresh /\ UNCHANGED <<log, flushed, wire, replies, view, after>>
  BY DEF Reload
<1>2. flushed \in 0 .. Len(log) /\ wire \in Seq(Frames) /\ SoundWire(wire)
  BY DEF LiveInv, LiveTypeOK, WireIsOfLog, SoundWire
<1> QED BY <1>1, <1>2, LoadFreshSteps

\* An event is ingested and published.
LEMMA IngestLiveSteps ==
    ASSUME LiveInv, NEW e \in LiveEvents, IngestLive(e)
    PROVE  LiveInv'
<1>1. /\ log' = Append(log, e) /\ log \in Seq(LiveEvents) /\ Len(log) \in Nat /\ generation \in Nat
      /\ UNCHANGED <<flushed, follows, mode, generation, replies, after, pending, view>>
  BY LenProperties DEF IngestLive, pageVars, LiveInv, LiveTypeOK
<1>2. /\ log' \in Seq(LiveEvents) /\ Len(log') = Len(log) + 1
      /\ \A p \in 1 .. Len(log) : log'[p] = log[p]
      /\ log'[Len(log) + 1] = e
  BY <1>1, AppendProperties
<1>3. PICK f \in Frames : /\ f = Frame(Len(log) + 1, e)
                          /\ f.generation = generation /\ f.at = Len(log) + 1 /\ f.event = e
  BY <1>1, FrameFields
<1>4. wire' = wire \/ (follows = TRUE /\ wire' = Append(wire, f))
  BY <1>3 DEF IngestLive, LiveInv, LiveTypeOK
<1>5. /\ wire' \in Seq(Frames)
      /\ \A i \in 1 .. Len(wire') :
           \/ i \in 1 .. Len(wire) /\ wire'[i] = wire[i]
           \/ mode = "follow" /\ wire'[i] = f
  <2>1. wire \in Seq(Frames) /\ Len(wire) \in Nat
    BY LenProperties DEF LiveInv, LiveTypeOK
  <2>2. CASE wire' = wire
    BY <2>1, <2>2
  <2>3. CASE follows = TRUE /\ wire' = Append(wire, f)
    <3>1. /\ wire' \in Seq(Frames) /\ Len(wire') = Len(wire) + 1
          /\ \A i \in 1 .. Len(wire) : wire'[i] = wire[i]
          /\ wire'[Len(wire) + 1] = f
      BY <2>1, <2>3, AppendProperties
    <3>2. mode = "follow"
      BY <2>3 DEF LiveInv, StreamIsFollowed
    <3> QED BY <2>1, <3>1, <3>2
  <2> QED BY <1>4, <2>2, <2>3
<1>6. LiveTypeOK'
  BY <1>1, <1>2, <1>5 DEF LiveInv, LiveTypeOK
<1>7. WireIsOfLog'
  <2> SUFFICES ASSUME NEW i \in 1 .. Len(wire')
               PROVE  /\ wire'[i].generation <= generation
                      /\ wire'[i].generation = generation => mode = "follow"
                      /\ wire'[i].at \in 1 .. Len(log') /\ wire'[i].event = log'[wire'[i].at]
    BY <1>1 DEF WireIsOfLog
  <2>1. CASE i \in 1 .. Len(wire) /\ wire'[i] = wire[i]
    BY <1>1, <1>2, <2>1 DEF LiveInv, WireIsOfLog
  <2>2. CASE mode = "follow" /\ wire'[i] = f
    BY <1>1, <1>2, <1>3, <2>2
  <2> QED BY <1>5, <2>1, <2>2
<1>8. RepliesAreOfLog'
  <2> SUFFICES ASSUME NEW r \in replies PROVE Starts(r.log)'
    BY <1>1 DEF LiveInv, RepliesAreOfLog
  <2>1. Starts(r.log) /\ Len(r.log) \in Nat
    BY LenProperties DEF LiveInv, RepliesAreOfLog, LiveTypeOK, Snapshots
  <2> QED BY <1>1, <1>2, <2>1 DEF Starts
<1>9. ViewIsOfLog'
  <2>1. view \in Seq(LiveEvents) /\ pending \in Seq(LiveEvents) /\ after \in Nat
    BY DEF LiveInv, LiveTypeOK
  <2>2. Len(view) \in Nat /\ Len(pending) \in Nat
    BY <2>1, LenProperties
  <2>3. CASE mode \in {"connect", "follow"}
    <3>1. /\ after = Len(view) + Len(pending) /\ after <= Len(log)
          /\ \A p \in 1 .. Len(view) : view[p] = log[p]
          /\ \A p \in 1 .. Len(pending) : pending[p] = log[Len(view) + p]
      BY <2>3 DEF LiveInv, ViewIsOfLog
    <3>2. \A p \in 1 .. Len(view) : view[p] = log'[p]
      BY <1>1, <1>2, <2>2, <3>1
    <3>3. \A p \in 1 .. Len(pending) : pending[p] = log'[Len(view) + p]
      BY <1>1, <1>2, <2>2, <3>1
    <3>4. after <= Len(log')
      BY <1>1, <1>2, <2>1, <3>1
    <3> QED BY <1>1, <2>3, <3>1, <3>2, <3>3, <3>4 DEF ViewIsOfLog
  <2>4. CASE mode \notin {"connect", "follow"}
    BY <1>1, <2>4 DEF LiveInv, ViewIsOfLog
  <2> QED BY <2>3, <2>4
<1> QED BY <1>1, <1>6, <1>7, <1>8, <1>9 DEF LiveInv, StreamIsFollowed

\* The daemon flushes; it dies, and its log is as it was.
LEMMA DaemonLiveSteps ==
    ASSUME LiveInv, ~LosesTail, FlushLive \/ Crash
    PROVE  LiveInv'
<1>1. CASE FlushLive
  <2>1. /\ flushed' \in 0 .. Len(log)
        /\ UNCHANGED <<log, follows, wire, mode, generation, replies, after, pending, view>>
    BY <1>1, FlushedTypes DEF FlushLive, pageVars, LiveInv
  <2> QED
    BY <2>1 DEF LiveInv, LiveTypeOK, WireIsOfLog, RepliesAreOfLog, Starts, StreamIsFollowed, ViewIsOfLog
<1>2. CASE Crash
  <2>1. /\ flushed = Len(log) /\ log' = SubSeq(log, 1, flushed) /\ follows' = FALSE /\ wire' = <<>>
        /\ mode' = (IF mode = "follow" THEN "connect" ELSE mode)
        /\ UNCHANGED <<flushed, generation, replies, after, pending, view>>
    BY <1>2, LiveSessionAssumption DEF Crash
  <2>2. log' = log
    BY <2>1, SubSeqFull DEF LiveInv, LiveTypeOK
  <2>3. <<>> \in Seq(Frames) /\ Len(<<>>) = 0
    BY EmptySeq
  <2>4. LiveTypeOK'
    BY <2>1, <2>2, <2>3 DEF LiveInv, LiveTypeOK, Modes
  <2>5. WireIsOfLog'
    BY <2>1, <2>3 DEF WireIsOfLog
  <2> QED
    BY <2>1, <2>2, <2>4, <2>5 DEF LiveInv, RepliesAreOfLog, Starts, StreamIsFollowed, ViewIsOfLog
<1> QED BY <1>1, <1>2

\* The daemon answers with the whole log.
LEMMA AnswerSnapshotSteps ==
    ASSUME LiveInv, AnswerSnapshot
    PROVE  LiveInv'
<1>1. PICK r : r = [generation |-> generation, log |-> log]
  OBVIOUS
<1>2. /\ mode = "load" /\ \A q \in replies : q.generation # generation
      /\ replies' = replies \cup {r} /\ flushed' \in 0 .. Len(log)
      /\ UNCHANGED <<log, follows, wire, mode, generation, after, pending, view>>
  BY <1>1, FlushedTypes DEF AnswerSnapshot, LiveInv
<1>3. /\ r \in Snapshots /\ r.generation = generation /\ r.log = log
      /\ generation \in Nat /\ log \in Seq(LiveEvents) /\ Len(log) \in Nat
  BY <1>1, LenProperties DEF Snapshots, LiveInv, LiveTypeOK
<1>4. LiveTypeOK'
  BY <1>2, <1>3 DEF LiveInv, LiveTypeOK
<1>5. Starts(r.log)'
  BY <1>2, <1>3 DEF Starts
<1>6. RepliesAreOfLog'
  <2> SUFFICES ASSUME NEW q \in replies'
               PROVE  /\ q.generation <= generation
                      /\ q.generation = generation => mode = "load"
                      /\ Starts(q.log)'
                      /\ \A t \in replies' : q.generation = generation /\ t.generation = generation => t = q
    BY <1>2 DEF RepliesAreOfLog
  <2>1. CASE q = r
    BY <1>2, <1>3, <1>5, <2>1
  <2>2. CASE q \in replies
    <3>1. q.generation <= generation /\ q.generation # generation /\ Starts(q.log)
      BY <1>2, <2>2 DEF LiveInv, RepliesAreOfLog
    <3>2. Starts(q.log)'
      BY <1>2, <3>1 DEF Starts
    <3> QED BY <3>1, <3>2
  <2> QED BY <1>2, <2>1, <2>2
<1> QED
  BY <1>2, <1>4, <1>6 DEF LiveInv, WireIsOfLog, StreamIsFollowed, ViewIsOfLog

\* The request fails.
LEMMA FailSnapshotSteps ==
    ASSUME LiveInv, FailSnapshot
    PROVE  LiveInv'
<1>1. /\ mode = "load" /\ mode' = "failed" /\ \A q \in replies : q.generation # generation
      /\ UNCHANGED <<log, flushed, follows, wire, generation, replies, after, pending, view>>
  BY DEF FailSnapshot
<1> QED
  BY <1>1 DEF LiveInv, LiveTypeOK, Modes, WireIsOfLog, RepliesAreOfLog, Starts, StreamIsFollowed,
     ViewIsOfLog

\* A snapshot arrives: of the page's generation, and shown; or of an earlier
\* one, and passed over.
LEMMA ReceiveSnapshotSteps ==
    ASSUME LiveInv, NEW r \in replies, ReceiveSnapshot(r)
    PROVE  LiveInv'
<1>1. CASE SameGeneration(r.generation)
  <2>1. /\ view' = r.log /\ after' = Len(r.log) /\ mode' = "connect" /\ replies' = replies \ {r}
        /\ r.generation = generation
        /\ UNCHANGED <<log, flushed, follows, wire, generation, pending>>
    BY <1>1 DEF ReceiveSnapshot, SameGeneration
  <2>2. /\ mode = "load" /\ Starts(r.log) /\ r.log \in Seq(LiveEvents) /\ Len(r.log) \in Nat
    BY <2>1, LenProperties DEF LiveInv, LiveTypeOK, Snapshots, RepliesAreOfLog
  <2>3. pending = <<>> /\ Len(<<>>) = 0 /\ ~follows
    BY <2>2, EmptySeq DEF LiveInv, LiveTypeOK, ViewIsOfLog, StreamIsFollowed
  <2>4. LiveTypeOK'
    BY <2>1, <2>2 DEF LiveInv, LiveTypeOK, Modes
  <2>5. \A q \in replies \ {r} : q.generation # generation
    BY <2>1 DEF LiveInv, RepliesAreOfLog
  <2>6. RepliesAreOfLog'
    BY <2>1, <2>5 DEF LiveInv, RepliesAreOfLog, Starts
  <2>7. WireIsOfLog'
    BY <2>1, <2>2 DEF LiveInv, WireIsOfLog
  <2>8. ViewIsOfLog'
    BY <2>1, <2>2, <2>3 DEF ViewIsOfLog, Starts
  <2>9. StreamIsFollowed'
    BY <2>1, <2>3 DEF StreamIsFollowed
  <2> QED
    BY <2>4, <2>6, <2>7, <2>8, <2>9 DEF LiveInv
<1>2. CASE ~SameGeneration(r.generation)
  <2>1. /\ replies' = replies \ {r}
        /\ UNCHANGED <<log, flushed, follows, wire, mode, generation, after, pending, view>>
    BY <1>2 DEF ReceiveSnapshot
  <2>2. RepliesAreOfLog'
    BY <2>1 DEF LiveInv, RepliesAreOfLog, Starts
  <2> QED
    BY <2>1, <2>2 DEF LiveInv, LiveTypeOK, WireIsOfLog, StreamIsFollowed, ViewIsOfLog
<1> QED BY <1>1, <1>2

\* The stream is opened with what is stored past the page's position, or
\* refused.
LEMMA OpenStreamSteps ==
    ASSUME LiveInv, OpenStream
    PROVE  LiveInv'
<1>1. PICK stored \in FlushedTo :
        /\ flushed' = stored
        /\ IF Refused(stored)
           THEN LoadFresh /\ UNCHANGED wire
           ELSE /\ mode' = "follow"
                /\ follows' = TRUE
                /\ wire' = wire \o [k \in 1 .. (IF stored > after THEN stored - after ELSE 0)
                                     |-> Frame(after + k, log[after + k])]
                /\ UNCHANGED <<generation, pending>>
  BY DEF OpenStream
<1>2. mode = "connect" /\ UNCHANGED <<log, replies, after, view>>
  BY DEF OpenStream
<1>3. /\ stored \in 0 .. Len(log) /\ Len(log) \in Nat /\ after \in Nat /\ generation \in Nat
      /\ wire \in Seq(Frames) /\ Len(wire) \in Nat /\ SoundWire(wire)
      /\ log \in Seq(LiveEvents)
  BY FlushedTypes, LenProperties DEF LiveInv, LiveTypeOK, WireIsOfLog, SoundWire
<1>4. CASE Refused(stored)
  BY <1>1, <1>2, <1>3, <1>4, LoadFreshSteps
<1>5. CASE ~Refused(stored)
  <2>0. PICK n : n = (IF stored > after THEN stored - after ELSE 0)
    OBVIOUS
  <2>1. n \in Nat /\ n = (IF stored > after THEN stored - after ELSE 0)
    BY <1>3, <2>0
  <2>2. after <= Len(log) /\ after + n <= Len(log)
    BY <1>3, <1>5, <2>1 DEF Refused
  <2>3. PICK sent : sent = [k \in 1 .. n |-> Frame(after + k, log[after + k])]
    OBVIOUS
  <2>4. \A k \in 1 .. n : /\ sent[k] \in Frames
                          /\ sent[k].generation = generation /\ sent[k].at = after + k
                          /\ sent[k].event = log[after + k] /\ after + k \in 1 .. Len(log)
    <3> SUFFICES ASSUME NEW k \in 1 .. n
                 PROVE  /\ sent[k] \in Frames
                        /\ sent[k].generation = generation /\ sent[k].at = after + k
                        /\ sent[k].event = log[after + k] /\ after + k \in 1 .. Len(log)
      OBVIOUS
    <3>1. after + k \in 1 .. Len(log) /\ after + k \in Nat
      BY <1>3, <2>1, <2>2
    <3>2. log[after + k] \in LiveEvents
      BY <1>3, <3>1, ElementOfSeq
    <3>3. sent[k] = Frame(after + k, log[after + k])
      BY <2>3
    <3> QED BY <1>3, <3>1, <3>2, <3>3, FrameFields
  <2>5. sent \in Seq(Frames) /\ Len(sent) = n
    <3>1. \A k \in 1 .. n : Frame(after + k, log[after + k]) \in Frames
      BY <2>3, <2>4
    <3> QED BY <2>1, <2>3, <3>1, IsASeq
  <2>6. /\ wire' = wire \o sent /\ mode' = "follow" /\ follows' = TRUE
        /\ UNCHANGED <<log, replies, after, view, generation, pending>>
    BY <1>1, <1>2, <1>5, <2>1, <2>3
  <2>7. /\ wire' \in Seq(Frames) /\ Len(wire') = Len(wire) + n
        /\ \A i \in 1 .. Len(wire) + n :
             wire'[i] = (IF i <= Len(wire) THEN wire[i] ELSE sent[i - Len(wire)])
    BY <1>3, <2>5, <2>6, ConcatProperties
  <2>8. LiveTypeOK'
    BY <1>1, <1>3, <2>6, <2>7 DEF LiveInv, LiveTypeOK, Modes
  <2>9. WireIsOfLog'
    <3> SUFFICES ASSUME NEW i \in 1 .. Len(wire')
                 PROVE  /\ wire'[i].generation <= generation /\ wire'[i].at \in 1 .. Len(log)
                        /\ wire'[i].event = log[wire'[i].at]
      BY <2>6 DEF WireIsOfLog
    <3>1. CASE i \in 1 .. Len(wire) /\ wire'[i] = wire[i]
      BY <1>3, <3>1 DEF SoundWire
    <3>2. CASE i - Len(wire) \in 1 .. n /\ wire'[i] = sent[i - Len(wire)]
      BY <1>3, <2>4, <3>2
    <3>3. i \in 1 .. Len(wire) + n
      BY <2>7
    <3>4. CASE i <= Len(wire)
      BY <1>3, <2>1, <2>7, <3>1, <3>3, <3>4
    <3>5. CASE ~(i <= Len(wire))
      BY <1>3, <2>1, <2>7, <3>2, <3>3, <3>5
    <3> QED BY <3>4, <3>5
  <2>10. RepliesAreOfLog'
    <3>1. \A r \in replies : r.generation # generation
      BY <1>2 DEF LiveInv, RepliesAreOfLog
    <3> QED BY <2>6, <3>1 DEF LiveInv, RepliesAreOfLog, Starts
  <2>11. StreamIsFollowed' /\ ViewIsOfLog'
    BY <1>2, <2>6 DEF LiveInv, StreamIsFollowed, ViewIsOfLog
  <2> QED BY <2>8, <2>9, <2>10, <2>11 DEF LiveInv
<1> QED BY <1>4, <1>5

\* The stream is lost with what it carries.
LEMMA DropSteps ==
    ASSUME LiveInv, Drop
    PROVE  LiveInv'
<1>1. /\ mode = "follow" /\ mode' = "connect" /\ follows' = FALSE /\ wire' = <<>>
      /\ UNCHANGED <<log, flushed, generation, replies, after, pending, view>>
  BY DEF Drop, daemonVars
<1>2. <<>> \in Seq(Frames) /\ Len(<<>>) = 0
  BY EmptySeq
<1>3. LiveTypeOK'
  BY <1>1, <1>2 DEF LiveInv, LiveTypeOK, Modes
<1>4. RepliesAreOfLog'
  BY <1>1 DEF LiveInv, RepliesAreOfLog, Starts
<1>5. WireIsOfLog' /\ StreamIsFollowed' /\ ViewIsOfLog'
  BY <1>1, <1>2 DEF LiveInv, WireIsOfLog, StreamIsFollowed, ViewIsOfLog
<1> QED BY <1>3, <1>4, <1>5 DEF LiveInv

\* A frame is passed over, finds a gap, or is appended to what is folded next.
LEMMA ReceiveFrameSteps ==
    ASSUME LiveInv, ReceiveFrame
    PROVE  LiveInv'
<1>1. /\ Tail(wire) \in Seq(Frames)
      /\ \A i \in 1 .. Len(Tail(wire)) : i + 1 \in 1 .. Len(wire) /\ Tail(wire)[i] = wire[i + 1]
      /\ SoundWire(Tail(wire))
      /\ Head(wire) = wire[1] /\ 1 \in 1 .. Len(wire)
  BY TailIsSound DEF ReceiveFrame
<1>2. PICK frame : frame = Head(wire)
  OBVIOUS
<1>3. /\ wire' = Tail(wire)
      /\ UNCHANGED <<log, flushed, replies, view>>
      /\ IF ~SameGeneration(frame.generation) \/ Duplicate(frame)
         THEN UNCHANGED <<mode, generation, follows, after, pending>>
         ELSE IF Gap(frame)
         THEN LoadFresh /\ UNCHANGED after
         ELSE /\ after' = frame.at
              /\ pending' = Append(pending, frame.event)
              /\ UNCHANGED <<mode, generation, follows>>
  BY <1>2 DEF ReceiveFrame, daemonVars
<1>4. /\ frame \in Frames /\ frame = wire[1] /\ frame.at \in 1 .. Len(log)
      /\ frame.generation = generation => mode = "follow"
      /\ frame.event = log[frame.at] /\ frame.event \in LiveEvents
  <2>1. wire \in Seq(Frames) /\ frame = wire[1]
    BY <1>1, <1>2 DEF LiveInv, LiveTypeOK
  <2>2. frame \in Frames
    BY <1>1, <2>1, ElementOfSeq
  <2> QED BY <1>1, <2>1, <2>2, FrameTypes DEF LiveInv, WireIsOfLog
<1>5. /\ flushed \in 0 .. Len(log) /\ log \in Seq(LiveEvents) /\ Len(log) \in Nat
      /\ pending \in Seq(LiveEvents) /\ Len(pending) \in Nat /\ after \in Nat
      /\ view \in Seq(LiveEvents) /\ Len(view) \in Nat
  BY LenProperties DEF LiveInv, LiveTypeOK
<1>6. UNCHANGED <<mode, generation>> => WireIsOfLog'
  BY <1>1, <1>3 DEF LiveInv, WireIsOfLog
<1>7. CASE ~SameGeneration(frame.generation) \/ Duplicate(frame)
  <2>1. UNCHANGED <<log, flushed, replies, view, mode, generation, follows, after, pending>>
    BY <1>3, <1>7
  <2>2. WireIsOfLog'
    BY <1>6, <2>1
  <2>3. LiveTypeOK'
    BY <1>1, <1>3, <2>1 DEF LiveInv, LiveTypeOK
  <2>4. RepliesAreOfLog'
    BY <2>1 DEF LiveInv, RepliesAreOfLog, Starts
  <2>5. StreamIsFollowed' /\ ViewIsOfLog'
    BY <2>1 DEF LiveInv, StreamIsFollowed, ViewIsOfLog
  <2> QED BY <2>2, <2>3, <2>4, <2>5 DEF LiveInv
<1>8. CASE SameGeneration(frame.generation) /\ ~Duplicate(frame) /\ Gap(frame)
  <2>1. LoadFresh /\ UNCHANGED <<log, flushed, replies, view, after>>
    BY <1>3, <1>8
  <2> QED
    BY <1>1, <1>3, <1>5, <2>1, LoadFreshSteps
<1>9. CASE SameGeneration(frame.generation) /\ ~Duplicate(frame) /\ ~Gap(frame)
  <2>1. /\ after' = frame.at /\ pending' = Append(pending, frame.event) /\ mode = "follow"
        /\ UNCHANGED <<log, flushed, replies, view, mode, generation, follows>>
    BY <1>3, <1>4, <1>9 DEF SameGeneration
  <2>2. frame.at = after + 1
    BY <1>4, <1>5, <1>9 DEF Duplicate, Gap
  <2>3. /\ pending' \in Seq(LiveEvents) /\ Len(pending') = Len(pending) + 1
        /\ \A p \in 1 .. Len(pending) : pending'[p] = pending[p]
        /\ pending'[Len(pending) + 1] = frame.event
    BY <1>4, <1>5, <2>1, AppendProperties
  <2>4. /\ after = Len(view) + Len(pending) /\ after <= Len(log)
        /\ \A p \in 1 .. Len(view) : view[p] = log[p]
        /\ \A p \in 1 .. Len(pending) : pending[p] = log[Len(view) + p]
    BY <2>1 DEF LiveInv, ViewIsOfLog
  <2>5. \A p \in 1 .. Len(pending') : pending'[p] = log[Len(view) + p]
    <3> SUFFICES ASSUME NEW p \in 1 .. Len(pending') PROVE pending'[p] = log[Len(view) + p]
      OBVIOUS
    <3>1. CASE p \in 1 .. Len(pending)
      BY <2>3, <2>4, <3>1
    <3>2. CASE p = Len(pending) + 1
      <4>1. Len(view) + p = frame.at
        BY <1>5, <2>2, <2>4, <3>2
      <4> QED BY <1>4, <2>3, <3>2, <4>1
    <3> QED BY <1>5, <2>3, <3>1, <3>2
  <2>6. after' = Len(view) + Len(pending') /\ after' <= Len(log)
    BY <1>4, <1>5, <2>1, <2>2, <2>3, <2>4
  <2>7. ViewIsOfLog'
    BY <2>1, <2>4, <2>5, <2>6 DEF ViewIsOfLog
  <2>8. LiveTypeOK'
    BY <1>1, <1>3, <1>4, <1>5, <2>1, <2>3 DEF LiveInv, LiveTypeOK
  <2> QED
    BY <1>6, <2>1, <2>7, <2>8 DEF LiveInv, RepliesAreOfLog, Starts, StreamIsFollowed
<1> QED BY <1>7, <1>8, <1>9

\* The pending events are folded.
LEMMA FoldSteps ==
    ASSUME LiveInv, Fold
    PROVE  LiveInv'
<1>1. /\ pending # <<>> /\ view' = view \o pending /\ pending' = <<>>
      /\ UNCHANGED <<log, flushed, follows, wire, mode, generation, replies, after>>
  BY DEF Fold, daemonVars
<1>2. /\ view \in Seq(LiveEvents) /\ pending \in Seq(LiveEvents)
      /\ Len(view) \in Nat /\ Len(pending) \in Nat /\ after \in Nat
  BY LenProperties DEF LiveInv, LiveTypeOK
<1>3. /\ view' \in Seq(LiveEvents) /\ Len(view') = Len(view) + Len(pending)
      /\ \A i \in 1 .. Len(view) + Len(pending) :
           view'[i] = (IF i <= Len(view) THEN view[i] ELSE pending[i - Len(view)])
  BY <1>1, <1>2, ConcatProperties
<1>4. <<>> \in Seq(LiveEvents) /\ Len(<<>>) = 0
  BY EmptySeq
<1>5. LiveTypeOK'
  BY <1>1, <1>3, <1>4 DEF LiveInv, LiveTypeOK
<1>6. ViewIsOfLog'
  <2>1. CASE mode \in {"connect", "follow"}
    <3>1. /\ after = Len(view) + Len(pending) /\ after <= Len(log)
          /\ \A p \in 1 .. Len(view) : view[p] = log[p]
          /\ \A p \in 1 .. Len(pending) : pending[p] = log[Len(view) + p]
      BY <2>1 DEF LiveInv, ViewIsOfLog
    <3>2. \A p \in 1 .. Len(view') : view'[p] = log[p]
      <4> SUFFICES ASSUME NEW p \in 1 .. Len(view') PROVE view'[p] = log[p]
        OBVIOUS
      <4>1. CASE p \in 1 .. Len(view)
        BY <1>2, <1>3, <3>1, <4>1
      <4>2. CASE p - Len(view) \in 1 .. Len(pending)
        <5>1. pending[p - Len(view)] = log[Len(view) + (p - Len(view))]
          BY <3>1, <4>2
        <5>2. Len(view) + (p - Len(view)) = p
          BY <1>2, <1>3
        <5>3. view'[p] = pending[p - Len(view)]
          BY <1>2, <1>3, <4>2
        <5> QED BY <5>1, <5>2, <5>3
      <4> QED BY <1>2, <1>3, <4>1, <4>2
    <3> QED BY <1>1, <1>2, <1>3, <1>4, <2>1, <3>1, <3>2 DEF ViewIsOfLog
  <2>2. CASE mode \notin {"connect", "follow"}
    BY <1>1, <2>2 DEF ViewIsOfLog
  <2> QED BY <2>1, <2>2
<1> QED
  BY <1>1, <1>5, <1>6 DEF LiveInv, WireIsOfLog, RepliesAreOfLog, Starts, StreamIsFollowed

\* Every step keeps the invariant.
LEMMA LiveSteps ==
    ASSUME LiveInv, LiveNext, ~LosesTail
    PROVE  LiveInv'
<1>1. CASE \E e \in LiveEvents : IngestLive(e)
  BY <1>1, IngestLiveSteps
<1>2. CASE FlushLive \/ Crash
  BY <1>2, DaemonLiveSteps
<1>3. CASE Reload
  BY <1>3, ReloadSteps
<1>4. CASE FailSnapshot
  BY <1>4, FailSnapshotSteps
<1>5. CASE Drop
  BY <1>5, DropSteps
<1>6. CASE AnswerSnapshot
  BY <1>6, AnswerSnapshotSteps
<1>7. CASE \E r \in replies : ReceiveSnapshot(r)
  BY <1>7, ReceiveSnapshotSteps
<1>8. CASE OpenStream
  BY <1>8, OpenStreamSteps
<1>9. CASE ReceiveFrame
  BY <1>9, ReceiveFrameSteps
<1>10. CASE Fold
  BY <1>10, FoldSteps
<1> QED
  BY <1>1, <1>2, <1>3, <1>4, <1>5, <1>6, <1>7, <1>8, <1>9, <1>10 DEF LiveNext, PageStep

\* It holds at the start.
LEMMA LiveStart ==
    ASSUME LiveInit
    PROVE  LiveInv
<1>1. /\ <<>> \in Seq(LiveEvents) /\ <<>> \in Seq(Frames) /\ Len(<<>>) = 0
  BY EmptySeq
<1>2. LiveTypeOK
  <2>1. /\ 0 \in 0 .. Len(<<>>) /\ FALSE \in BOOLEAN /\ "load" \in Modes /\ {} \in SUBSET Snapshots
        /\ 0 \in Nat /\ 1 \in Nat
    BY <1>1 DEF Modes
  <2> QED BY <1>1, <2>1 DEF LiveInit, LiveTypeOK
<1> QED
  BY <1>1, <1>2 DEF LiveInit, LiveInv, WireIsOfLog, RepliesAreOfLog, StreamIsFollowed, ViewIsOfLog

\* Where a crash loses no published event, what a page shows, awaits and is
\* sent are parts of one log (httpServer.ts, sessionStore.ts).
THEOREM LiveInvariant ==
    ASSUME ~LosesTail
    PROVE  LiveSpec => []LiveInv
<1>1. LiveInit => LiveInv
  BY LiveStart
<1>2. LiveInv /\ [LiveNext]_liveVars => LiveInv'
  <2>1. LiveInv /\ UNCHANGED liveVars => LiveInv'
    BY DEF LiveInv, LiveTypeOK, WireIsOfLog, RepliesAreOfLog, Starts, StreamIsFollowed, ViewIsOfLog,
       liveVars
  <2> QED BY <2>1, LiveSteps
<1> QED BY <1>1, <1>2, PTL DEF LiveSpec

\* Equal position by position, what is shown is the start of the log.
LEMMA ViewIsPrefixHolds ==
    ASSUME LiveInv
    PROVE  ViewIsPrefix
<1> SUFFICES ASSUME mode = "follow"
             PROVE  view \o pending = SubSeq(log, 1, after) /\ after <= Len(log)
  BY DEF ViewIsPrefix
<1>1. /\ view \in Seq(LiveEvents) /\ pending \in Seq(LiveEvents) /\ log \in Seq(LiveEvents)
      /\ Len(view) \in Nat /\ Len(pending) \in Nat /\ Len(log) \in Nat
  BY LenProperties DEF LiveInv, LiveTypeOK
<1>2. /\ after = Len(view) + Len(pending) /\ after <= Len(log)
      /\ \A p \in 1 .. Len(view) : view[p] = log[p]
      /\ \A p \in 1 .. Len(pending) : pending[p] = log[Len(view) + p]
  BY DEF LiveInv, ViewIsOfLog
<1>3. /\ view \o pending \in Seq(LiveEvents) /\ Len(view \o pending) = after
      /\ \A i \in 1 .. after :
           (view \o pending)[i] = (IF i <= Len(view) THEN view[i] ELSE pending[i - Len(view)])
  BY <1>1, <1>2, ConcatProperties
<1>4. /\ SubSeq(log, 1, after) \in Seq(LiveEvents) /\ Len(SubSeq(log, 1, after)) = after
      /\ \A i \in 1 .. after : SubSeq(log, 1, after)[i] = log[i]
  BY <1>1, <1>2
<1>5. \A i \in 1 .. after : (view \o pending)[i] = log[i]
  <2> SUFFICES ASSUME NEW i \in 1 .. after PROVE (view \o pending)[i] = log[i]
    OBVIOUS
  <2>1. CASE i \in 1 .. Len(view)
    BY <1>1, <1>2, <1>3, <2>1
  <2>2. CASE i - Len(view) \in 1 .. Len(pending)
    <3>1. pending[i - Len(view)] = log[Len(view) + (i - Len(view))]
      BY <1>2, <2>2
    <3>2. Len(view) + (i - Len(view)) = i /\ ~(i <= Len(view))
      BY <1>1, <1>2, <2>2
    <3> QED BY <1>3, <3>1, <3>2
  <2> QED BY <1>1, <1>2, <2>1, <2>2
<1> QED BY <1>2, <1>3, <1>4, <1>5, SeqEqual

\* Where a crash loses no published event, a page that follows a session has
\* folded or is about to fold a prefix of its log: none missing, none twice,
\* none of another generation, for any events, lost connections and reloads.
THEOREM FollowedViewIsPrefix ==
    ASSUME ~LosesTail
    PROVE  LiveSpec => []ViewIsPrefix
<1>1. LiveSpec => []LiveInv
  BY LiveInvariant
<1>2. LiveInv => ViewIsPrefix
  BY ViewIsPrefixHolds
<1> QED BY <1>1, <1>2, PTL

-----------------------------------------------------------------------------
(* The parts together                                                      *)

\* The quota lock admits one sender and the queue it guards stays within its
\* absolute limit, in every behaviour of the parts together (hookIngress.ts and
\* the relay script of daemon.ts).
THEOREM SpoolStaysWithinLimits ==
    ASSUME ~GuardExpires
    PROVE  DeliverySpec => []SpoolLimitsHold
<1> DEFINE Inv == QuotaInv /\ SpoolInv
<1>1. DeliveryInit => Inv
  BY QuotaStart, SpoolStart DEF DeliveryInit
<1>2. Inv /\ [DeliveryNext]_deliveryVars => Inv'
  <2> SUFFICES ASSUME QuotaInv, SpoolInv, [DeliveryNext]_deliveryVars
               PROVE  QuotaInv' /\ SpoolInv'
    OBVIOUS
  <2>1. QuotaNext \/ UNCHANGED quotaVars
    BY DEF DeliveryNext, deliveryVars
  <2>2. SpoolNext \/ UNCHANGED spoolVars
    BY DEF DeliveryNext, deliveryVars
  <2>3. QuotaInv'
    BY <2>1, QuotaSteps, QuotaStutter
  <2>4. SpoolInv'
    BY <2>2, SpoolSteps, SpoolStutter
  <2> QED BY <2>3, <2>4
<1>3. Inv => SpoolLimitsHold
  BY OneInsideHolds DEF SpoolLimitsHold, SpoolInv
<1> QED BY <1>1, <1>2, <1>3, PTL DEF DeliverySpec

=============================================================================
