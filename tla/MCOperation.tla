----------------------------- MODULE MCOperation -----------------------------
(* The operation of a machine, for TLC: the daemons and the commands that    *)
(* start, stop and supervise them, the files of always-on mode, the ledger   *)
(* of alerts, the change feed a consumer follows, the opening of a store,    *)
(* how long it keeps sessions, and what several processes, pages and calls   *)
(* change at once: the outbox and its destination, the store under           *)
(* maintenance, the settings of a page, the calls of the explainer, and the  *)
(* maps of a repository.                                                     *)
(* The parts share neither state nor steps here, so a behaviour is one of    *)
(* the part chosen at its start.                                             *)
EXTENDS Lifecycle, MacService, Alerts, ConsumerFeed, StoreUpgrade, Retention,
        SyncOutbox, Maintenance, PageSettings, Explainer, ProjectMap, TLC

CONSTANTS p1, p2, k1, k2, s1

VARIABLE part

processVars == <<lifecycleVars, macVars, alertVars, feedVars>>
keepingVars == <<upgradeVars, retentionVars>>
contendedVars == <<outboxVars, maintenanceVars, settingsVars, explainerVars, mapVars>>
operationVars == <<part, processVars, keepingVars, contendedVars>>

AllKinds == {"start", "stop", "restart", "offline", "install", "enable", "disable", "uninstall"}

\* The parts that are not chosen have one initial state.
NoCommands ==
    /\ counts.starts = 0
    /\ service = [installed |-> 0, enabled |-> FALSE, loaded |-> FALSE, owed |-> FALSE]
    /\ \A c \in Commands : command[c].kind = "stop" /\ command[c].version = 1

OperationInit ==
    /\ part \in {"lifecycle", "service", "alerts", "feed", "upgrade", "retention",
                 "outbox", "maintenance", "settings", "explainer", "map"}
    /\ UpgradeInit
    /\ part = "upgrade" \/ layout = {}
    /\ LifecycleInit
    /\ part = "lifecycle" \/ NoCommands
    /\ MacInit /\ AlertsInit /\ FeedInit /\ RetentionInit
    /\ OutboxInit /\ MaintenanceInit /\ SettingsInit /\ ExplainerInit /\ MapInit
    /\ part = "maintenance" \/ ~paused
    /\ part = "explainer" \/ cadence = "off"
    /\ part = "map" \/ resolves = CHOOSE d \in GitDirs : TRUE

ProcessNext ==
    \/ part = "lifecycle" /\ LifecycleNext /\ UNCHANGED <<macVars, alertVars, feedVars>>
    \/ part = "service" /\ MacNext /\ UNCHANGED <<lifecycleVars, alertVars, feedVars>>
    \/ part = "alerts" /\ AlertsNext /\ UNCHANGED <<lifecycleVars, macVars, feedVars>>
    \/ part = "feed" /\ FeedNext /\ UNCHANGED <<lifecycleVars, macVars, alertVars>>

KeepingNext ==
    \/ part = "upgrade" /\ UpgradeNext /\ UNCHANGED retentionVars
    \/ part = "retention" /\ RetentionNext /\ UNCHANGED upgradeVars

ContendedNext ==
    \/ /\ part = "outbox" /\ OutboxNext
       /\ UNCHANGED <<maintenanceVars, settingsVars, explainerVars, mapVars>>
    \/ /\ part = "maintenance" /\ MaintenanceNext
       /\ UNCHANGED <<outboxVars, settingsVars, explainerVars, mapVars>>
    \/ /\ part = "settings" /\ SettingsNext
       /\ UNCHANGED <<outboxVars, maintenanceVars, explainerVars, mapVars>>
    \/ /\ part = "explainer" /\ ExplainerNext
       /\ UNCHANGED <<outboxVars, maintenanceVars, settingsVars, mapVars>>
    \/ /\ part = "map" /\ MapNext
       /\ UNCHANGED <<outboxVars, maintenanceVars, settingsVars, explainerVars>>

OperationNext ==
    /\ UNCHANGED part
    /\ \/ ProcessNext /\ UNCHANGED <<keepingVars, contendedVars>>
       \/ KeepingNext /\ UNCHANGED <<processVars, contendedVars>>
       \/ ContendedNext /\ UNCHANGED <<processVars, keepingVars>>

OperationSpec == OperationInit /\ [][OperationNext]_operationVars

Interchangeable == Permutations(Pids) \cup Permutations(Commands)
=============================================================================
