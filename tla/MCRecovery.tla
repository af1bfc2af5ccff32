----------------------------- MODULE MCRecovery -----------------------------
(* What recovers once the failures stop, for TLC: a credential lock whose   *)
(* holder died, and the reading of a provider database.  The parts share    *)
(* nothing here, so a behaviour is one of the part chosen at its start.     *)
EXTENDS MCCredentialLock, StoreTailer

VARIABLE part

recoveryVars == <<part, vars, storeVars>>

RecoveryInit ==
    /\ part \in {"credential", "store"}
    /\ Init /\ StoreInit
    /\ part = "credential" => job = "none"

RecoveryNext ==
    /\ UNCHANGED part
    /\ \/ part = "credential" /\ Next /\ UNCHANGED storeVars
       \/ part = "store" /\ StoreNext /\ UNCHANGED vars

\* The fairness of FairSpec and of StoreFairSpec, each for its part.
RecoverySpec ==
    /\ RecoveryInit /\ [][RecoveryNext]_recoveryVars
    /\ \A p \in Processes :
         /\ WF_vars(part = "credential" /\ Take(p))
         /\ WF_vars(part = "credential" /\ Work(p))
    /\ WF_storeVars(part = "store" /\ Poll)
    /\ WF_storeVars(part = "store" /\ FlushQueue)
=============================================================================
