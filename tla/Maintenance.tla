---------------------------- MODULE Maintenance ----------------------------
(***************************************************************************)
(* Storage optimization: one operation per command-line process, under the *)
(* directory lock of maintenance.ts.  It pauses collection, copies the     *)
(* store into a new file, verifies the copy and renames it over the store, *)
(* while daemons come and go.  A process may be killed at every step, and  *)
(* most steps may throw.                                                   *)
(*                                                                         *)
(* Two constants narrow what the surroundings do; with either TRUE the     *)
(* code does not keep what it promises (see the README).                   *)
(***************************************************************************)
EXTENDS Naturals, FiniteSets

CONSTANTS
    Operations,    \* the processes, one operation each
    MaxFileRows,       \* bound on the rows committed to the store
    LocksRace,     \* whether two processes may be acquiring at once
    DaemonsRace    \* whether a daemon stops or starts around the swap

ASSUME MaintenanceAssumption ==
    /\ MaxFileRows \in Nat
    /\ {LocksRace, DaemonsRace} \subseteq BOOLEAN
    /\ {"store", "none", "free", "ownerless"} \cap Operations = {}

VARIABLES
    doing,        \* doing[o]: the step o is at
    mutex,        \* "free", "ownerless", or the operation the owner file names
    phase,        \* the phase in maintenance.json
    paused,       \* whether the pause marker is there
    wasPaused,    \* wasPaused[o]: whether it was when o began
    sawOptimized, \* sawOptimized[o]: what o's preflight saw
    path,         \* the file under the store's name: "store" or o's copy
    fileRows,     \* the rows of each file
    kept,         \* kept[o]: the file under o's rollback name
    connection,   \* the file a running daemon has open, or "none"
    committed     \* history: the rows ever committed

lockVars == <<mutex>>
fileVars == <<path, fileRows, kept>>
daemonVars == <<connection, committed>>
maintenanceVars == <<doing, mutex, phase, paused, wasPaused, sawOptimized, path,
                     fileRows, kept, connection, committed>>

Advance(o, step) == doing' = [doing EXCEPT ![o] = step]
Ended(o) == doing[o] \in {"exited", "dead"}
Optimized == path # "store"

-----------------------------------------------------------------------------
(* The lock                                                                *)

Acquiring(o) == doing[o] \in {"acquire", "stale", "reclaim", "remake", "name"}

\* storageOptimizationPreflight; a blocked operation never begins.
Preflight(o) ==
    /\ doing[o] = "start"
    /\ LocksRace \/ \A p \in Operations \ {o} : ~Acquiring(p)
    /\ sawOptimized' = [sawOptimized EXCEPT ![o] = Optimized]
    /\ Advance(o, "acquire")
    /\ UNCHANGED <<mutex, phase, paused, wasPaused, fileVars, daemonVars>>

\* An owner is judged by its process; an ownerless lock counts as stale.
Stale ==
    \/ mutex = "ownerless"
    \/ mutex \in Operations /\ Ended(mutex)

Acquire(o) ==
    /\ doing[o] = "acquire"
    /\ IF mutex = "free"
       THEN mutex' = "ownerless" /\ Advance(o, "name")
       ELSE Advance(o, IF Stale THEN "stale" ELSE "exited") /\ UNCHANGED mutex
    /\ UNCHANGED <<phase, paused, wasPaused, sawOptimized, fileVars, daemonVars>>

\* What a dead operation left unfinished is marked.
MarkRecovery(o) ==
    /\ doing[o] = "stale"
    /\ phase' = IF phase \in {"idle", "completed"} THEN phase ELSE "recovery"
    /\ Advance(o, "reclaim")
    /\ UNCHANGED <<mutex, paused, wasPaused, sawOptimized, fileVars, daemonVars>>

RemoveStale(o) ==
    /\ doing[o] = "reclaim"
    /\ mutex' = "free"
    /\ Advance(o, "remake")
    /\ UNCHANGED <<phase, paused, wasPaused, sawOptimized, fileVars, daemonVars>>

Remake(o) ==
    /\ doing[o] = "remake"
    /\ IF mutex = "free"
       THEN mutex' = "ownerless" /\ Advance(o, "name")
       ELSE Advance(o, "exited") /\ UNCHANGED mutex
    /\ UNCHANGED <<phase, paused, wasPaused, sawOptimized, fileVars, daemonVars>>

\* The owner file is written, in a directory made again if it is gone.
Name(o) ==
    /\ doing[o] = "name"
    /\ mutex' = o
    /\ Advance(o, "begin")
    /\ UNCHANGED <<phase, paused, wasPaused, sawOptimized, fileVars, daemonVars>>

\* The lock of another operation is left alone.
ReleaseMaintenance(o) ==
    /\ doing[o] = "release"
    /\ mutex' = IF mutex = o THEN "free" ELSE mutex
    /\ Advance(o, "exited")
    /\ UNCHANGED <<phase, paused, wasPaused, sawOptimized, fileVars, daemonVars>>

-----------------------------------------------------------------------------
(* runStorageOptimizationMaintenance                                       *)

\* An operation whose preflight saw an optimized store neither pauses nor
\* publishes, but calls optimizeStoreLayout all the same.
Begin(o) ==
    /\ doing[o] = "begin"
    /\ wasPaused' = [wasPaused EXCEPT ![o] = paused]
    /\ IF sawOptimized[o]
       THEN Advance(o, "optimize") /\ UNCHANGED phase
       ELSE Advance(o, "pause") /\ phase' = "pause"
    /\ UNCHANGED <<mutex, paused, sawOptimized, fileVars, daemonVars>>

PauseCollection(o) ==
    /\ doing[o] = "pause"
    /\ paused' = TRUE
    /\ Advance(o, "drain")
    /\ UNCHANGED <<mutex, phase, wasPaused, sawOptimized, fileVars, daemonVars>>

\* The queue must still be empty (else Throw); checkpointStore checks and
\* folds the log, which changes no row.
PublishReplacement(o) ==
    /\ doing[o] \in {"drain", "checkpoint"}
    /\ phase' = doing[o]
    /\ Advance(o, IF doing[o] = "drain" THEN "checkpoint" ELSE "optimize")
    /\ UNCHANGED <<mutex, paused, wasPaused, sawOptimized, fileVars, daemonVars>>

AfterFailure(o) == IF sawOptimized[o] THEN "release" ELSE "undo"

Throw(o) ==
    /\ doing[o] \in {"pause", "drain", "checkpoint", "optimize", "verify", "probe",
                  "link", "swap", "finish", "resume"}
    /\ Advance(o, AfterFailure(o))
    /\ kept' = [kept EXCEPT ![o] = "none"]
    /\ UNCHANGED <<mutex, phase, paused, wasPaused, sawOptimized, path, fileRows, daemonVars>>

ResumeCollection(o) == paused' = (paused /\ wasPaused[o])

Undo(o) ==
    /\ doing[o] = "undo"
    /\ ResumeCollection(o)
    /\ phase' = "failure"
    /\ Advance(o, "release")
    /\ UNCHANGED <<mutex, wasPaused, sawOptimized, fileVars, daemonVars>>

Finish(o) ==
    /\ doing[o] = "finish"
    /\ IF sawOptimized[o]
       THEN Advance(o, "complete") /\ UNCHANGED phase
       ELSE Advance(o, "resume") /\ phase' = "resume"
    /\ UNCHANGED <<mutex, paused, wasPaused, sawOptimized, fileVars, daemonVars>>

Resume(o) ==
    /\ doing[o] = "resume"
    /\ ResumeCollection(o)
    /\ Advance(o, "complete")
    /\ UNCHANGED <<mutex, phase, wasPaused, sawOptimized, fileVars, daemonVars>>

Complete(o) ==
    /\ doing[o] = "complete"
    /\ phase' = "completed"
    /\ Advance(o, "release")
    /\ UNCHANGED <<mutex, paused, wasPaused, sawOptimized, fileVars, daemonVars>>

-----------------------------------------------------------------------------
(* optimizeStoreLayout                                                     *)

Copy(o) ==
    /\ doing[o] = "optimize"
    /\ phase' = IF sawOptimized[o] THEN phase ELSE "optimize"
    /\ IF Optimized
       THEN Advance(o, "finish") /\ UNCHANGED fileRows
       ELSE Advance(o, "verify") /\ fileRows' = [fileRows EXCEPT ![o] = fileRows["store"]]
    /\ UNCHANGED <<mutex, paused, wasPaused, sawOptimized, path, kept, daemonVars>>

\* Mutant: the digests are not compared.
VerifiedMutant(o) == TRUE

\* Counts and digests of the copy and of the store it is a copy of.
Verified(o) == fileRows[o] = fileRows["store"]

Verify(o) ==
    /\ doing[o] = "verify"
    /\ Verified(o)
    /\ Advance(o, "probe")
    /\ UNCHANGED <<mutex, phase, paused, wasPaused, sawOptimized, fileVars, daemonVars>>

\* Mutant: the answer of the journal_mode change is not read.
ExclusiveMutant(o) == TRUE

\* Leaving WAL mode succeeds when no one else has the file open.
Exclusive(o) ==
    /\ connection # path
    /\ path # "store" \/ \A p \in Operations : doing[p] # "verify"

Probe(o) ==
    /\ doing[o] = "probe"
    /\ Exclusive(o)
    /\ Advance(o, "link")
    /\ UNCHANGED <<mutex, phase, paused, wasPaused, sawOptimized, fileVars, daemonVars>>

LinkRollback(o) ==
    /\ doing[o] = "link"
    /\ kept' = [kept EXCEPT ![o] = path]
    /\ Advance(o, "swap")
    /\ UNCHANGED <<mutex, phase, paused, wasPaused, sawOptimized, path, fileRows, daemonVars>>

Swap(o) ==
    /\ doing[o] = "swap"
    /\ path' = o
    /\ Advance(o, "reopen")
    /\ UNCHANGED <<mutex, phase, paused, wasPaused, sawOptimized, fileRows, kept, daemonVars>>

\* The rollback file goes when the new store opens; otherwise it comes back,
\* or stays for a recovery by hand when it cannot be renamed.
Reopen(o) ==
    /\ doing[o] = "reopen"
    /\ \/ Advance(o, "finish") /\ UNCHANGED path /\ kept' = [kept EXCEPT ![o] = "none"]
       \/ Advance(o, AfterFailure(o)) /\ path' = kept[o] /\ kept' = [kept EXCEPT ![o] = "none"]
       \/ Advance(o, AfterFailure(o)) /\ UNCHANGED <<path, kept>>
    /\ UNCHANGED <<mutex, phase, paused, wasPaused, sawOptimized, fileRows, daemonVars>>

KillOperation(o) ==
    /\ ~Ended(o)
    /\ Advance(o, "dead")
    /\ UNCHANGED <<mutex, phase, paused, wasPaused, sawOptimized, fileVars, daemonVars>>

-----------------------------------------------------------------------------
(* The daemon and the user                                                 *)

Swapping(o) == doing[o] \in {"link", "swap", "reopen"}

StartDaemon ==
    /\ connection = "none"
    /\ DaemonsRace \/ \A o \in Operations : ~Swapping(o)
    /\ connection' = path
    /\ UNCHANGED <<doing, mutex, phase, paused, wasPaused, sawOptimized, fileVars, committed>>

WriteRow ==
    /\ connection # "none" /\ Cardinality(committed) < MaxFileRows
    /\ LET row == Cardinality(committed) + 1
       IN  /\ committed' = committed \cup {row}
           /\ fileRows' = [fileRows EXCEPT ![connection] = @ \cup {row}]
    /\ UNCHANGED <<doing, mutex, phase, paused, wasPaused, sawOptimized, path, kept, connection>>

StopDaemon ==
    /\ connection # "none"
    /\ DaemonsRace \/ \A o \in Operations : doing[o] # "probe"
    /\ connection' = "none"
    /\ UNCHANGED <<doing, mutex, phase, paused, wasPaused, sawOptimized, fileVars, committed>>

MaintenanceInit ==
    /\ doing = [o \in Operations |-> "start"]
    /\ mutex = "free"
    /\ phase = "idle"
    /\ paused \in BOOLEAN
    /\ wasPaused = [o \in Operations |-> FALSE]
    /\ sawOptimized = [o \in Operations |-> FALSE]
    /\ path = "store"
    /\ fileRows = [i \in {"store"} \cup Operations |-> {}]
    /\ kept = [o \in Operations |-> "none"]
    /\ connection = "none"
    /\ committed = {}

OperationStep(o) ==
    \/ Preflight(o) \/ Acquire(o) \/ MarkRecovery(o) \/ RemoveStale(o)
    \/ Remake(o) \/ Name(o) \/ Begin(o) \/ PauseCollection(o) \/ PublishReplacement(o)
    \/ Copy(o) \/ Verify(o) \/ Probe(o) \/ LinkRollback(o) \/ Swap(o)
    \/ Reopen(o) \/ Finish(o) \/ Resume(o) \/ Complete(o)
    \/ Throw(o) \/ Undo(o) \/ ReleaseMaintenance(o)

MaintenanceNext ==
    \/ \E o \in Operations : OperationStep(o) \/ KillOperation(o)
    \/ StartDaemon \/ WriteRow \/ StopDaemon

MaintenanceSpec == MaintenanceInit /\ [][MaintenanceNext]_maintenanceVars

-----------------------------------------------------------------------------
(* Properties                                                              *)

\* Whatever step fails and whoever is killed, the file under the store's name
\* has every row ever committed (optimizeStore.ts:420 "verified sibling").
NoRowLost == committed \subseteq fileRows[path]

\* "An atomic directory lock permits one maintenance owner. A live owner
\* blocks a second operation." (docs/decisions/0004-unify-local-operations.md)
Working(o) == ~Acquiring(o) /\ ~Ended(o) /\ doing[o] # "start"

OneOwner == \A o, p \in Operations : Working(o) /\ Working(p) => o = p
=============================================================================
