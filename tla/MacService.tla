---------------------------- MODULE MacService -----------------------------
(***************************************************************************)
(* The files and LaunchAgents of always-on mode, as macosService.ts makes, *)
(* replaces and removes them: one command at a time, whose every step may  *)
(* fail, and which may be killed between two steps.  The module Lifecycle  *)
(* has the same commands with each of these procedures as one step.        *)
(***************************************************************************)
EXTENDS Naturals

CONSTANTS
    MaxInstalls,   \* bound on the service commands run
    MaxKills       \* bound on commands killed

ASSUME MacServiceAssumption == {MaxInstalls, MaxKills} \subseteq Nat

VARIABLES
    installing,  \* the step the command is at
    files,       \* what is under the service root and in LaunchAgents
    agents,      \* what launchd has: enabled, daemon loaded, menu loaded
    attempt      \* [version, first, runs, kills]

macVars == <<installing, files, agents, attempt>>

\* Versions are numbers; 0 stands for a file that is not there.
NoFiles == [root |-> FALSE, staging |-> 0, current |-> 0, previous |-> 0, manifest |-> 0,
            daemonPlist |-> 0, menuPlist |-> 0]
Go(step) == installing' = step
Keep(change) == files' = change

-----------------------------------------------------------------------------
(* prepareMacOSService                                                     *)

\* assertOwnedOrAbsent: files without the marker are somebody else's.
Owned == files.manifest # 0 \/ (~files.root /\ files.daemonPlist = 0 /\ files.menuPlist = 0)

StartInstall ==
    /\ installing = "idle" /\ attempt.runs < MaxInstalls /\ Owned
    /\ attempt' = [attempt EXCEPT !.version = @ + 1, !.runs = @ + 1,
                                  !.first = files.manifest = 0]
    /\ Keep([files EXCEPT !.root = TRUE])
    /\ Go("build")
    /\ UNCHANGED agents

\* The staged runtime is complete once the menu-bar helper is compiled.
Build ==
    /\ installing = "build"
    /\ Keep([files EXCEPT !.staging = attempt.version])
    /\ Go("clear")
    /\ UNCHANGED <<agents, attempt>>

ClearPrevious ==
    /\ installing = "clear"
    /\ Keep([files EXCEPT !.previous = 0])
    /\ Go("move")
    /\ UNCHANGED <<agents, attempt>>

MoveCurrent ==
    /\ installing = "move"
    /\ Keep(IF files.current = 0 THEN files
            ELSE [files EXCEPT !.previous = files.current, !.current = 0])
    /\ Go("swap")
    /\ UNCHANGED <<agents, attempt>>

SwapIn ==
    /\ installing = "swap"
    /\ Keep([files EXCEPT !.current = files.staging, !.staging = 0])
    /\ Go("mark")
    /\ UNCHANGED <<agents, attempt>>

\* Mutant: the runtime moved away does not come back.
RestoredMutant == files

\* A swap that fails brings the old runtime back.
Restored ==
    IF files.current = 0 /\ files.previous # 0
    THEN [files EXCEPT !.current = files.previous, !.previous = 0]
    ELSE files

FailSwap ==
    /\ installing = "swap"
    /\ Keep(Restored)
    /\ Go("finally")
    /\ UNCHANGED <<agents, attempt>>

\* The ownership marker precedes the LaunchAgents.
WriteMarker ==
    /\ installing = "mark"
    /\ Keep([files EXCEPT !.manifest = attempt.version])
    /\ Go("plists")
    /\ UNCHANGED <<agents, attempt>>

WriteDaemonPlist ==
    /\ installing = "plists" /\ files.daemonPlist # attempt.version
    /\ Keep([files EXCEPT !.daemonPlist = attempt.version])
    /\ UNCHANGED <<installing, agents, attempt>>

WriteMenuPlist ==
    /\ installing = "plists" /\ files.daemonPlist = attempt.version
    /\ Keep([files EXCEPT !.menuPlist = attempt.version])
    /\ Go("prepared")
    /\ UNCHANGED <<agents, attempt>>

Fail ==
    /\ installing \in {"build", "clear", "move", "mark", "plists"}
    /\ Go("finally")
    /\ UNCHANGED <<files, agents, attempt>>

\* Staging goes, and with it the whole root of a first installation that
\* did not get as far as its marker.
Finally ==
    /\ installing \in {"finally", "prepared"}
    /\ Keep(IF attempt.first /\ files.manifest = 0
            THEN [NoFiles EXCEPT !.daemonPlist = files.daemonPlist,
                                 !.menuPlist = files.menuPlist]
            ELSE [files EXCEPT !.staging = 0])
    /\ Go(IF installing = "prepared" THEN "bootout" ELSE "idle")
    /\ UNCHANGED <<agents, attempt>>

-----------------------------------------------------------------------------
(* activateMacOSService, disableMacOSService, uninstallMacOSService        *)

StartEnable ==
    /\ installing = "idle" /\ attempt.runs < MaxInstalls /\ files.manifest # 0
    /\ attempt' = [attempt EXCEPT !.runs = @ + 1]
    /\ Go("bootout")
    /\ UNCHANGED <<files, agents>>

\* Both agents are booted out, the menu first; each launchctl call may fail.
Bootout ==
    /\ installing = "bootout"
    /\ \/ agents' = [agents EXCEPT !.menu = FALSE, !.daemon = FALSE] /\ Go("enable")
       \/ agents' = [agents EXCEPT !.menu = FALSE] /\ Go("idle")
       \/ UNCHANGED agents /\ Go("idle")
    /\ UNCHANGED <<files, attempt>>

EnableAgents ==
    /\ installing = "enable"
    /\ \/ agents' = [agents EXCEPT !.enabled = TRUE] /\ Go("bootstrap")
       \/ UNCHANGED agents /\ Go("idle")
    /\ UNCHANGED <<files, attempt>>

BootstrapDaemon ==
    /\ installing = "bootstrap"
    /\ \/ /\ files.daemonPlist # 0
          /\ agents' = [agents EXCEPT !.daemon = TRUE]
          /\ Go("bootstrap menu")
       \/ UNCHANGED agents /\ Go("idle")
    /\ UNCHANGED <<files, attempt>>

\* A menu bar that does not start takes the daemon down with it.
BootstrapMenu ==
    /\ installing = "bootstrap menu"
    /\ \/ files.menuPlist # 0 /\ agents' = [agents EXCEPT !.menu = TRUE]
       \/ agents' = [agents EXCEPT !.daemon = FALSE]
       \/ UNCHANGED agents
    /\ Go("idle")
    /\ UNCHANGED <<files, attempt>>

StartDisable ==
    /\ installing = "idle" /\ attempt.runs < MaxInstalls /\ files.manifest # 0
    /\ attempt' = [attempt EXCEPT !.runs = @ + 1]
    /\ \E next \in {"disable", "uninstall"} : Go(next)
    /\ UNCHANGED <<files, agents>>

DisableAgents ==
    /\ installing \in {"disable", "uninstall"}
    /\ \/ /\ agents' = [enabled |-> FALSE, daemon |-> FALSE, menu |-> FALSE]
          /\ Go(IF installing = "disable" THEN "idle" ELSE "remove")
       \/ /\ \E daemon \in {agents.daemon, FALSE} :
                agents' = [agents EXCEPT !.enabled = FALSE, !.daemon = daemon]
          /\ Go("idle")
       \/ UNCHANGED agents /\ Go("idle")
    /\ UNCHANGED <<files, attempt>>

\* The plists go first; the entries of the root go in any order.
RemoveFiles ==
    /\ installing = "remove"
    /\ \/ /\ files.daemonPlist # 0 \/ files.menuPlist # 0
          /\ Keep([files EXCEPT !.daemonPlist = 0,
                                !.menuPlist = IF files.daemonPlist # 0 THEN @ ELSE 0])
          /\ Go("remove")
       \/ /\ files.daemonPlist = 0 /\ files.menuPlist = 0
          /\ \/ \E f \in {"current", "previous", "manifest", "staging"} :
                   files[f] # 0 /\ Keep([files EXCEPT ![f] = 0]) /\ Go("remove")
             \/ Keep(NoFiles) /\ Go("idle")
    /\ UNCHANGED <<agents, attempt>>

KillInstaller ==
    /\ installing # "idle" /\ attempt.kills < MaxKills
    /\ attempt' = [attempt EXCEPT !.kills = @ + 1]
    /\ Go("idle")
    /\ UNCHANGED <<files, agents>>

MacInit ==
    /\ installing = "idle"
    /\ files = NoFiles
    /\ agents = [enabled |-> FALSE, daemon |-> FALSE, menu |-> FALSE]
    /\ attempt = [version |-> 0, first |-> FALSE, runs |-> 0, kills |-> 0]

MacNext ==
    \/ StartInstall \/ Build \/ ClearPrevious \/ MoveCurrent \/ SwapIn \/ FailSwap
    \/ WriteMarker \/ WriteDaemonPlist \/ WriteMenuPlist \/ Fail \/ Finally
    \/ StartEnable \/ Bootout \/ EnableAgents \/ BootstrapDaemon \/ BootstrapMenu
    \/ StartDisable \/ DisableAgents \/ RemoveFiles \/ KillInstaller

MacSpec == MacInit /\ [][MacNext]_macVars

-----------------------------------------------------------------------------
\* Whatever step of whichever command fails, a service that is installed or
\* loaded has a whole runtime under the name its agents start, as long as no
\* command was killed: "a compiler error cannot break an installation that
\* is already running" (prepareMacOSService).
RuntimeSurvivesFailures ==
    installing = "idle" /\ attempt.kills = 0 =>
        /\ files.manifest # 0 \/ agents.daemon => files.current # 0
        /\ ~files.root => files = NoFiles

\* "An interrupted first install remains repairable and is never mistaken
\* for somebody else's file on the next attempt" (the comment before the
\* marker is written).  The code does not keep this: the root is made, and
\* the helper compiled in it, long before the marker.
InterruptedIsRepairable == installing = "idle" => Owned
=============================================================================
