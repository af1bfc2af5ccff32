----------------------------- MODULE Lifecycle -----------------------------
(***************************************************************************)
(* The daemons of one state directory, and the commands that start, stop,  *)
(* replace and supervise them or write the store while none runs.  What a  *)
(* command knows is what daemon.json and one probe of the named port told  *)
(* it; between that answer and what it does next everything may change.    *)
(* launchd is external: it starts what is loaded and starts again what     *)
(* exits with an error.                                                    *)
(***************************************************************************)
EXTENDS Naturals, FiniteSets

CONSTANTS
    Pids,          \* process ids of the machine
    Commands,      \* commands run, each of a kind chosen at the start
    Kinds,         \* the kinds of command of this instance
    MaxStarts,     \* bound on the daemons ever started
    MaxCrashes,    \* bound on crashes, and on pids that another program takes
    Stalls,        \* whether a daemon may be too busy to answer a probe in time
    UnlinkRaces    \* whether another daemon may publish between the last look
                   \* of a dying daemon at daemon.json and its removal

ASSUME LifecycleAssumption ==
    /\ {MaxStarts, MaxCrashes} \subseteq Nat
    /\ {Stalls, UnlinkRaces} \subseteq BOOLEAN
    /\ Kinds \subseteq {"start", "stop", "restart", "offline", "install", "enable",
                        "disable", "uninstall"}
    /\ "none" \notin Pids

VARIABLES
    process,    \* process[p]: what runs under pid p
    daemonJson, \* the instance daemon.json names; token 0 when it is not there
    service,    \* the LaunchAgent: version installed (0: none), enabled, loaded,
                \* and whether launchd owes a start
    command,    \* command[c]: where the command is
    struck,     \* history: a program that is no daemon was sent SIGTERM
    counts      \* starts and crashes so far

lifecycleVars == <<process, daemonJson, service, command, struck, counts>>

CliVersions == 1..2
NoJson == [pid |-> "none", token |-> 0, version |-> 0]

Free == [at |-> "free", token |-> 0, version |-> 0, supervised |-> FALSE]
Runs(p) == process[p].at \notin {"free", "foreign"}
StoreOpen(p) == process[p].at \in {"boot", "bound", "serving", "stopping", "closing"}
PortHeld(p) == process[p].at \in {"bound", "serving", "stopping"}
Vacant(p) == process[p].at = "free"
Supervised == {p \in Pids : Runs(p) /\ process[p].supervised}

Put(p, step) == process' = [process EXCEPT ![p].at = step]

-----------------------------------------------------------------------------
(* A daemon                                                                *)

\* A pid a command is about to signal or waits for is not handed out again.
Unclaimed(p) == \A c \in Commands : ~(command[c].at \in {"kill", "wait"} /\ command[c].pid = p)

CanStart == counts.starts < MaxStarts /\ \E p \in Pids : Vacant(p) /\ Unclaimed(p)

\* The state a process p of this version starts in, of the next instance.
Boots(p, version, supervised) ==
    /\ counts.starts < MaxStarts /\ Vacant(p) /\ Unclaimed(p)
    /\ counts' = [counts EXCEPT !.starts = @ + 1]
    /\ process' = [process EXCEPT ![p] = [at |-> "boot", token |-> counts.starts + 1,
                                          version |-> version, supervised |-> supervised]]

\* KeepAlive: launchd owes a start when what it supervises exits with an error.
Exits(p, failing) ==
    /\ process' = [process EXCEPT ![p] = Free]
    /\ service' = [service EXCEPT !.owed =
                       @ \/ (failing /\ process[p].supervised /\ service.loaded)]

\* startDaemon opens the store before it takes the port; a taken port ends it.
Bind(p) ==
    /\ process[p].at = "boot"
    /\ IF \E q \in Pids : PortHeld(q)
       THEN Exits(p, TRUE)
       ELSE Put(p, "bound") /\ UNCHANGED service
    /\ UNCHANGED <<daemonJson, command, struck, counts>>

\* The spool is drained before daemon.json names this instance.
Publish(p) ==
    /\ process[p].at = "bound"
    /\ UnlinkRaces \/ \A q \in Pids : process[q].at # "unlinking"
    /\ Put(p, "serving")
    /\ daemonJson' = [pid |-> p, token |-> process[p].token, version |-> process[p].version]
    /\ UNCHANGED <<service, command, struck, counts>>

\* stop(): the server answers until the warm-up has stopped; then the port
\* is given up before the sessions are flushed and the store closed.
CloseServer(p) ==
    /\ process[p].at = "stopping"
    /\ Put(p, "closing")
    /\ UNCHANGED <<daemonJson, service, command, struck, counts>>

CloseStore(p) ==
    /\ process[p].at = "closing"
    /\ Put(p, "closed")
    /\ UNCHANGED <<daemonJson, service, command, struck, counts>>

\* Mutant: whatever daemon.json names is removed.
OwnJsonMutant(p) == TRUE

OwnJson(p) == daemonJson.pid = p

LookAtJson(p) ==
    /\ process[p].at = "closed"
    /\ IF OwnJson(p) THEN Put(p, "unlinking") /\ UNCHANGED service ELSE Exits(p, FALSE)
    /\ UNCHANGED <<daemonJson, command, struck, counts>>

Unlink(p) ==
    /\ process[p].at = "unlinking"
    /\ Exits(p, FALSE)
    /\ daemonJson' = NoJson
    /\ UNCHANGED <<command, struck, counts>>

Crash(p) ==
    /\ Runs(p) /\ counts.crashes < MaxCrashes
    /\ Exits(p, TRUE)
    /\ counts' = [counts EXCEPT !.crashes = @ + 1]
    /\ UNCHANGED <<daemonJson, command, struck>>

\* Another program gets the pid that a stale daemon.json names.
Reuse(p) ==
    /\ Vacant(p) /\ daemonJson.pid = p /\ Unclaimed(p) /\ counts.crashes < MaxCrashes
    /\ Put(p, "foreign")
    /\ counts' = [counts EXCEPT !.crashes = @ + 1]
    /\ UNCHANGED <<daemonJson, service, command, struck>>

KeepAlive(p) ==
    /\ service.owed /\ service.loaded /\ Supervised = {}
    /\ Boots(p, service.installed, TRUE)
    /\ service' = [service EXCEPT !.owed = FALSE]
    /\ UNCHANGED <<daemonJson, command, struck>>

\* SIGTERM.  The handler is there once the daemon serves.  A second signal
\* finds stop() already called, so that its exit(0) comes at once.
Signalled(p) ==
    CASE process[p].at = "serving"                       -> [process[p] EXCEPT !.at = "stopping"]
      [] process[p].at = "foreign"                       -> process[p]
      [] OTHER                                           -> Free

-----------------------------------------------------------------------------
(* What a command can learn                                                *)

Alive(j) ==
    /\ j.token # 0
    /\ process[j.pid].at \in {"serving", "stopping"}
    /\ process[j.pid].token = j.token

\* presenceOf: a probe that is not answered in time tells no more than the pid.
Presence(j) ==
    CASE j.token = 0 -> {"absent"}
      [] Alive(j)    -> {"reachable"} \cup (IF Stalls THEN {"unresponsive"} ELSE {})
      [] OTHER       -> IF Vacant(j.pid) THEN {"absent"} ELSE {"unresponsive"}

At(c, step) == command' = [command EXCEPT ![c].at = step]
Ends(c, answer) == command' = [command EXCEPT ![c].at = "done", ![c].answer = answer]
Returns(c, j) ==
    command' = [command EXCEPT ![c].at = "done", ![c].answer = "running", ![c].token = j.token]
\* stopDaemon is called, and what follows it.
Stops(c, next) == command' = [command EXCEPT ![c].at = "find", ![c].next = next]

-----------------------------------------------------------------------------
(* stopDaemon                                                              *)

\* What a caller makes of the outcome.
AfterStop(c, outcome) ==
    LET next == command[c].next
        goes == \/ next = "deactivate"
                \/ next \in {"ensure", "activate"} /\ outcome \in {"nothing", "exited"}
                \/ next = "launch" /\ outcome = "exited"
    IN  IF goes THEN At(c, next) ELSE Ends(c, IF next = "report" THEN outcome ELSE "failed")

\* Mutant: a live pid is enough to be signalled.
SignalsMutant(j) == TRUE

\* Only the tokened answer of the same pid makes it a target.
Signals(j) == Alive(j)

NothingToStop == IF daemonJson.token = 0 THEN TRUE ELSE Vacant(daemonJson.pid)

Find(c) ==
    /\ command[c].at = "find"
    /\ \/ NothingToStop /\ AfterStop(c, "nothing")
       \/ /\ ~NothingToStop /\ (Stalls \/ ~Signals(daemonJson))
          /\ AfterStop(c, "unsignaled")
       \/ /\ ~NothingToStop /\ Signals(daemonJson)
          /\ command' = [command EXCEPT ![c].at = "kill", ![c].pid = daemonJson.pid,
                                        ![c].old = daemonJson.token]
    /\ UNCHANGED <<process, daemonJson, service, struck, counts>>

Kill(c) ==
    /\ command[c].at = "kill"
    /\ LET p == command[c].pid IN
       /\ process' = [process EXCEPT ![p] = IF Vacant(p) THEN @ ELSE Signalled(p)]
       /\ struck' = (struck \/ process[p].at = "foreign")
       /\ IF Vacant(p) THEN Ends(c, "failed") ELSE At(c, "wait")
    /\ UNCHANGED <<daemonJson, service, counts>>

WaitOver(c) == Vacant(command[c].pid)

Wait(c) ==
    /\ command[c].at = "wait"
    /\ \/ WaitOver(c) /\ AfterStop(c, "exited")
       \/ ~WaitOver(c) /\ AfterStop(c, "running on")
    /\ UNCHANGED <<process, daemonJson, service, struck, counts>>

-----------------------------------------------------------------------------
(* ensureDaemon                                                            *)

ServiceDiffers(c) ==
    service.installed # 0 /\ service.enabled /\ service.installed # command[c].version

Ensure(c) ==
    /\ command[c].at = "ensure"
    /\ \E seen \in Presence(daemonJson) :
         IF seen # "reachable"
         THEN At(c, "launch")
         ELSE IF daemonJson.version = command[c].version
         THEN Returns(c, daemonJson)
         ELSE IF ServiceDiffers(c) \/ daemonJson.version > command[c].version
         THEN Ends(c, "failed")
         ELSE Stops(c, "launch")
    /\ UNCHANGED <<process, daemonJson, service, struck, counts>>

\* kickstartManagedDaemon where the LaunchAgent is enabled, else a child.
LaunchManaged(c) ==
    /\ command[c].at = "launch" /\ service.installed # 0 /\ service.enabled
    /\ \/ Ends(c, "failed") /\ UNCHANGED <<process, service, counts>>
       \/ /\ service.installed = command[c].version
          /\ service' = [service EXCEPT !.loaded = TRUE, !.owed = FALSE]
          /\ At(c, "await managed")
          /\ IF Supervised # {} THEN UNCHANGED <<process, counts>>
             ELSE \E p \in Pids : Boots(p, service.installed, TRUE)
    /\ UNCHANGED <<daemonJson, struck>>

LaunchChild(c) ==
    /\ command[c].at = "launch" /\ ~(service.installed # 0 /\ service.enabled)
    /\ \E p \in Pids :
         /\ Boots(p, command[c].version, FALSE)
         /\ command' = [command EXCEPT ![c].at = "await child", ![c].pid = p,
                                       ![c].token = counts.starts + 1]
    /\ UNCHANGED <<daemonJson, service, struck>>

\* A child that exits is seen before daemon.json is read.
AwaitChild(c) ==
    /\ command[c].at = "await child"
    /\ LET p == command[c].pid IN
       \/ /\ process[p].token = command[c].token
          /\ daemonJson.pid = p /\ Alive(daemonJson)
          /\ Returns(c, daemonJson)
       \/ Ends(c, "failed")
    /\ UNCHANGED <<process, daemonJson, service, struck, counts>>

AwaitManaged(c) ==
    /\ command[c].at = "await managed"
    /\ \/ Alive(daemonJson) /\ Returns(c, daemonJson)
       \/ Ends(c, "failed")
    /\ UNCHANGED <<process, daemonJson, service, struck, counts>>

-----------------------------------------------------------------------------
(* serviceCommand, and the commands that write the store offline           *)

\* Preparing replaces the runtime on disk and leaves what runs alone.
PrepareService(c) ==
    /\ command[c].at = "prepare"
    /\ \/ service' = [service EXCEPT !.installed = command[c].version] /\ Stops(c, "activate")
       \/ UNCHANGED service /\ Ends(c, "failed")
    /\ UNCHANGED <<process, daemonJson, struck, counts>>

\* enable, disable and uninstall of a service that is not there do nothing.
Inspect(c) ==
    /\ command[c].at = "inspect"
    /\ IF service.installed = 0
       THEN Ends(c, "nothing")
       ELSE Stops(c, IF command[c].kind = "enable" THEN "activate" ELSE "deactivate")
    /\ UNCHANGED <<process, daemonJson, service, struck, counts>>

Booted == IF service.loaded
          THEN [p \in Pids |-> IF p \in Supervised THEN Signalled(p) ELSE process[p]]
          ELSE process

ActivateService(c) ==
    /\ command[c].at = "activate"
    /\ IF service.installed = 0
       THEN Ends(c, "failed") /\ UNCHANGED <<process, service>>
       ELSE /\ process' = Booted
            /\ service' = [service EXCEPT !.loaded = FALSE, !.owed = FALSE, !.enabled = TRUE]
            /\ At(c, "bootstrap")
    /\ UNCHANGED <<daemonJson, struck, counts>>

\* RunAtLoad starts the daemon; a failed bootstrap leaves nothing loaded.
Bootstrap(c) ==
    /\ command[c].at = "bootstrap"
    /\ \/ Ends(c, "failed") /\ UNCHANGED <<process, service, counts>>
       \/ /\ service.installed # 0
          /\ service' = [service EXCEPT !.loaded = TRUE]
          /\ At(c, "ensure")
          /\ \E p \in Pids : Boots(p, service.installed, TRUE)
    /\ UNCHANGED <<daemonJson, struck>>

DeactivateService(c) ==
    /\ command[c].at = "deactivate"
    /\ process' = Booted
    /\ service' = [service EXCEPT !.enabled = FALSE, !.loaded = FALSE, !.owed = FALSE,
                       !.installed = IF command[c].kind = "uninstall" THEN 0 ELSE @]
    /\ Ends(c, "off")
    /\ UNCHANGED <<daemonJson, struck, counts>>

\* storeHasWriter: silence counts as a writer.
GuardStore(c) ==
    /\ command[c].at = "guard"
    /\ \E seen \in Presence(daemonJson) :
         IF seen = "absent" THEN At(c, "write") ELSE Ends(c, "refused")
    /\ UNCHANGED <<process, daemonJson, service, struck, counts>>

WriteStore(c) ==
    /\ command[c].at = "write"
    /\ Ends(c, "written")
    /\ UNCHANGED <<process, daemonJson, service, struck, counts>>

-----------------------------------------------------------------------------
FirstStep(kind) ==
    CASE kind = "start"     -> "ensure"
      [] kind = "offline"   -> "guard"
      [] kind = "install"   -> "prepare"
      [] kind \in {"enable", "disable", "uninstall"} -> "inspect"
      [] OTHER              -> "find"

\* What an earlier service command left behind.
EarlierServices ==
    {s \in [installed : {0, 1}, enabled : BOOLEAN, loaded : BOOLEAN, owed : {FALSE}] :
        (s.loaded => s.enabled) /\ (s.enabled => s.installed # 0)}

LifecycleInit ==
    /\ command \in [Commands -> {[kind |-> k, version |-> v, at |-> FirstStep(k),
                                  next |-> IF k = "restart" THEN "ensure" ELSE "report",
                                  pid |-> "none", token |-> 0, old |-> 0, answer |-> "none"] :
                                   k \in Kinds, v \in CliVersions}]
    /\ service \in EarlierServices
    /\ \/ /\ process = [p \in Pids |-> Free] /\ daemonJson = NoJson
          /\ counts = [starts |-> 0, crashes |-> 0]
       \/ \E first \in Pids :
          /\ process = [p \in Pids |-> IF p = first
                THEN [at |-> "serving", token |-> 1, version |-> 1, supervised |-> service.loaded]
                ELSE Free]
          /\ daemonJson = [pid |-> first, token |-> 1, version |-> 1]
          /\ counts = [starts |-> 1, crashes |-> 0]
    /\ struck = FALSE

LifecycleNext ==
    \/ \E p \in Pids : \/ Bind(p) \/ Publish(p) \/ CloseServer(p) \/ CloseStore(p)
                       \/ LookAtJson(p) \/ Unlink(p) \/ Crash(p) \/ Reuse(p) \/ KeepAlive(p)
    \/ \E c \in Commands :
         \/ Find(c) \/ Kill(c) \/ Wait(c) \/ Ensure(c) \/ LaunchManaged(c) \/ LaunchChild(c)
         \/ AwaitChild(c) \/ AwaitManaged(c) \/ PrepareService(c) \/ Inspect(c)
         \/ ActivateService(c) \/ Bootstrap(c) \/ DeactivateService(c)
         \/ GuardStore(c) \/ WriteStore(c)

LifecycleSpec == LifecycleInit /\ [][LifecycleNext]_lifecycleVars

-----------------------------------------------------------------------------
\* A daemon that serves is the one daemon.json names, whoever else starts,
\* dies or removes the file at the same time: every command, relay and page
\* finds it there (daemon.ts stop and startDaemon).
FoundWhereServing ==
    \A p \in Pids : process[p].at = "serving" => daemonJson.token = process[p].token

\* What a command says of daemons is true: one reported as stopped has left,
\* and a command that replaces a daemon never hands back the one it stopped
\* (main.ts stopDaemon, restart and ensureDaemon).
AnswersAreTrue ==
    /\ \A c \in Commands : command[c].answer = "running" => command[c].token # command[c].old
    /\ \A c \in Commands : command[c].answer \in {"exited", "running"} =>
         \A p \in Pids : Runs(p) => process[p].token # command[c].old

\* SIGTERM reaches no program that took the pid of a dead daemon (stopDaemon).
OnlyDaemonsStruck == ~struck

\* A daemon that serves is where every command looks for it, what a command
\* says of it is true, and none but a daemon is signalled (daemon.ts stop,
\* main.ts stopDaemon, restart).
CommandsAreRight == FoundWhereServing /\ AnswersAreTrue /\ OnlyDaemonsStruck

\* A command that writes the store offline has it to itself: "offline
\* maintenance will not migrate or rewrite a store under a running daemon"
\* (main.ts liveStoreWriteBlocked).  The code does not keep this.
OfflineWritesAlone ==
    \A c \in Commands : command[c].at = "write" => \A p \in Pids : ~StoreOpen(p)
=============================================================================
