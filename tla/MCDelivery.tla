----------------------------- MODULE MCDelivery -----------------------------
(* What must arrive, for TLC: records of a transcript in the store, spooled *)
(* hook events past the quota lock into it, and live events in a page.  The *)
(* parts share neither state nor steps here, so a behaviour is one of the   *)
(* part chosen at its start.                                                *)
EXTENDS QuotaLock, HookSpool, LiveSession, MCIngest

VARIABLE part

deliveryVars == <<part, quotaVars, spoolVars, liveVars, vars>>

DeliveryInit ==
    /\ part \in {"quota", "spool", "live", "ingest"}
    /\ QuotaInit /\ SpoolInit /\ LiveInit /\ Init

DeliveryNext ==
    /\ UNCHANGED part
    /\ \/ part = "quota" /\ QuotaNext /\ UNCHANGED <<spoolVars, liveVars, vars>>
       \/ part = "spool" /\ SpoolNext /\ UNCHANGED <<quotaVars, liveVars, vars>>
       \/ part = "live" /\ LiveNext /\ UNCHANGED <<quotaVars, spoolVars, vars>>
       \/ part = "ingest" /\ Next /\ UNCHANGED <<quotaVars, spoolVars, liveVars>>

\* The fairness of QuotaFairSpec, SpoolFairSpec, LiveFairSpec and FairSpec,
\* each for the behaviours of its part.
DeliverySpec ==
    /\ DeliveryInit /\ [][DeliveryNext]_deliveryVars
    /\ \A s \in Contenders : WF_quotaVars(part = "quota" /\ Contend(s))
    /\ WF_quotaVars(part = "quota" /\ ExpireGuard)
    /\ WF_spoolVars(part = "spool" /\ Drain)
    /\ \A h \in Envelopes :
         /\ SF_spoolVars(part = "spool" /\ ClaimFile(h))
         /\ SF_spoolVars(part = "spool" /\ Stores(h))
    /\ WF_liveVars(part = "live" /\ PageStep)
    /\ WF_liveVars(part = "live" /\ Reload /\ mode = "failed")
    /\ \A f \in Files :
         /\ WF_vars(part = "ingest" /\ Changed(f) /\ ReadNow(f))
         /\ WF_vars(part = "ingest" /\ ReadChunk(f))
         /\ WF_vars(part = "ingest" /\ FinishRead(f))
    /\ \A s \in Sessions : WF_vars(part = "ingest" /\ FlushSucceeds(s))
    /\ WF_vars(part = "ingest" /\ Resume)
    /\ WF_vars(part = "ingest" /\ stopping /\ RestartDaemon)

-----------------------------------------------------------------------------
\* The quota lock admits one sender, and the queue it guards never holds more
\* than its absolute limit.
SpoolLimitsHold == OneInside /\ CeilingHolds
=============================================================================
