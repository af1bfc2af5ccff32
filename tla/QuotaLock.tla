----------------------------- MODULE QuotaLock -----------------------------
(***************************************************************************)
(* The lock under which hook senders measure the spool and publish into    *)
(* it: a file with the owner's process id, and a directory that guards     *)
(* whoever removes a dead owner's file.  Each action is one command of the *)
(* relay script, so senders interleave and die between any two.            *)
(***************************************************************************)
EXTENDS Naturals, FiniteSets

CONSTANTS
    Contenders,    \* the senders
    Nobody,        \* no sender
    NoFile,        \* no lock
    GuardExpires   \* whether the guard of a live reaper may come of age

ASSUME QuotaLockAssumption ==
    /\ IsFiniteSet(Contenders) /\ {Nobody, NoFile} \cap Contenders = {} /\ Nobody # NoFile
    /\ GuardExpires \in BOOLEAN

VARIABLES
    step,      \* step[s]: the command s runs next
    owner,     \* the lock: NoFile, Nobody before it is written, or an owner
    reaper,    \* who made the guard directory
    read       \* read[s]: the owner s read (LOCK_OWNER)

quotaVars == <<step, owner, reaper, read>>

GoOn(s, c) == step' = [step EXCEPT ![s] = c]

Exited(s) == step[s] \in {"exited", "killed"}

-----------------------------------------------------------------------------
\* printf > with noclobber creates the file and then writes it.
Create(s) ==
    /\ step[s] = "create"
    /\ IF owner = NoFile
       THEN owner' = Nobody /\ GoOn(s, "sign")
       ELSE GoOn(s, "guard") /\ UNCHANGED owner
    /\ UNCHANGED <<reaper, read>>

Sign(s) ==
    /\ step[s] = "sign"
    /\ owner' = s
    /\ GoOn(s, "inside")
    /\ UNCHANGED <<reaper, read>>

\* Only the sender that makes the directory may reap; the others try again,
\* up to a limit, and leave their file for the drain.
MakeGuard(s) ==
    /\ step[s] = "guard"
    /\ \/ reaper = Nobody /\ reaper' = s /\ GoOn(s, "read")
       \/ reaper # Nobody /\ UNCHANGED reaper /\ GoOn(s, "create")
       \/ UNCHANGED reaper /\ GoOn(s, "exited")
    /\ UNCHANGED <<owner, read>>

ReadOwner(s) ==
    /\ step[s] = "read"
    /\ read' = [read EXCEPT ![s] = owner]
    /\ GoOn(s, IF owner \in Contenders THEN "probe" ELSE "unguard")
    /\ UNCHANGED <<owner, reaper>>

\* kill -0
Probe(s) ==
    /\ step[s] = "probe"
    /\ GoOn(s, IF Exited(read[s]) THEN "reread" ELSE "unguard")
    /\ UNCHANGED <<owner, reaper, read>>

\* Mutant: what was read before the probe is removed.
RereadMutant(s) ==
    /\ step[s] = "reread"
    /\ GoOn(s, "remove")
    /\ UNCHANGED <<owner, reaper, read>>

Reread(s) ==
    /\ step[s] = "reread"
    /\ GoOn(s, IF owner = read[s] THEN "remove" ELSE "unguard")
    /\ UNCHANGED <<owner, reaper, read>>

Remove(s) ==
    /\ step[s] = "remove"
    /\ owner' = NoFile
    /\ GoOn(s, "unguard")
    /\ UNCHANGED <<reaper, read>>

\* rmdir removes whatever guard is there.
Unguard(s) ==
    /\ step[s] = "unguard"
    /\ reaper' = Nobody
    /\ GoOn(s, "create")
    /\ UNCHANGED <<owner, read>>

\* release_quota_lock, at every exit but a kill.
ReleaseQuota(s) ==
    /\ step[s] = "inside"
    /\ owner' = IF owner = s THEN NoFile ELSE owner
    /\ GoOn(s, "exited")
    /\ UNCHANGED <<reaper, read>>

Kill(s) ==
    /\ ~Exited(s)
    /\ GoOn(s, "killed")
    /\ UNCHANGED <<owner, reaper, read>>

\* Mutant: the drain leaves the guard to the senders.
ExpireGuardMutant == FALSE /\ UNCHANGED quotaVars

\* recoverStaleQuotaReaping: the drain removes a guard five minutes old.
ExpireGuard ==
    /\ reaper # Nobody
    /\ Exited(reaper) \/ GuardExpires
    /\ reaper' = Nobody
    /\ UNCHANGED <<step, owner, read>>

-----------------------------------------------------------------------------
QuotaInit ==
    /\ step = [s \in Contenders |-> "create"]
    /\ owner = NoFile
    /\ reaper = Nobody
    /\ read = [s \in Contenders |-> Nobody]

Contend(s) ==
    \/ Create(s) \/ Sign(s) \/ MakeGuard(s)
    \/ ReadOwner(s) \/ Probe(s) \/ Reread(s) \/ Remove(s) \/ Unguard(s)
    \/ ReleaseQuota(s)

QuotaNext ==
    \/ \E s \in Contenders : Contend(s) \/ Kill(s)
    \/ ExpireGuard

QuotaSpec == QuotaInit /\ [][QuotaNext]_quotaVars

\* Every sender goes on until it exits or is killed, and the drain comes by.
QuotaFairSpec ==
    /\ QuotaSpec
    /\ \A s \in Contenders : WF_quotaVars(Contend(s))
    /\ WF_quotaVars(ExpireGuard)

-----------------------------------------------------------------------------
(* Properties                                                              *)

\* Two senders never measure and publish at once, whoever is killed and
\* whoever reaps (the quota lock of the relay script).
OneInside ==
    \A s, t \in Contenders : step[s] = "inside" /\ step[t] = "inside" => s = t

\* A killed owner that signed does not hold up the last sender, and neither
\* does a killed reaper: it gets in, or gives up for its own reasons
\* (recoverStaleQuotaReaping).
DeadAreReaped ==
    \A s \in Contenders :
        (owner # Nobody /\ \A t \in Contenders \ {s} : step[t] = "killed")
            ~> (Exited(s) \/ step[s] = "inside")
=============================================================================
