----------------------------- MODULE OperationProofs -----------------------------
(***************************************************************************)
(* The theorems about operating a machine: the daemons of a state directory*)
(* and the commands that start, stop and replace them, for any number of   *)
(* commands, pids and starts; the files of always-on mode, whichever step  *)
(* of whichever command fails; the outbox, for any items, revisions,       *)
(* generations and answers; and the alerts, as long as the ledger has room.*)
(***************************************************************************)
EXTENDS Lifecycle, MacService, SyncOutbox, Alerts, FiniteSetTheorems, WellFoundedInduction,
        TLAPS

-----------------------------------------------------------------------------
(* Daemons and commands: the inductive invariant                           *)

ProcessSteps == {"free", "foreign", "boot", "bound", "serving", "stopping", "closing",
                 "closed", "unlinking"}
Processes == [at : ProcessSteps, token : Nat, version : Nat, supervised : BOOLEAN]
Jsons == [pid : Pids \cup {"none"}, token : Nat, version : Nat]
Services == [installed : Nat, enabled : BOOLEAN, loaded : BOOLEAN, owed : BOOLEAN]
Nexts == {"ensure", "launch", "activate", "deactivate", "report"}
CommandSteps == (Nexts \ {"report"}) \cup
    {"find", "kill", "wait", "await child", "await managed", "prepare", "inspect",
     "bootstrap", "guard", "write", "done"}
Answers == {"none", "nothing", "unsignaled", "exited", "running on", "running", "failed",
            "off", "refused", "written"}
CommandRecords == [kind : Kinds, version : Nat, at : CommandSteps, next : Nexts,
                   pid : Pids \cup {"none"}, token : Nat, old : Nat, answer : Answers]

LifecycleTypeOK ==
    /\ process \in [Pids -> Processes]
    /\ daemonJson \in Jsons
    /\ service \in Services
    /\ command \in [Commands -> CommandRecords]
    /\ counts \in [starts : Nat, crashes : Nat]

\* Instances are numbered as they start.
TokensAreGiven ==
    /\ \A p \in Pids : Runs(p) => process[p].token \in 1 .. counts.starts
    /\ \A p, q \in Pids : Runs(p) /\ Runs(q) /\ process[p].token = process[q].token => p = q
    /\ daemonJson.token # 0 => daemonJson.pid \in Pids
    /\ daemonJson.token <= counts.starts
    /\ \A c \in Commands : command[c].old <= counts.starts

\* One process has the port.  The one that serves is named by daemon.json, and
\* so is one that is about to remove it.
PortIsNamed ==
    /\ \A p, q \in Pids : PortHeld(p) /\ PortHeld(q) => p = q
    /\ \A p \in Pids : process[p].at = "serving" =>
         daemonJson.pid = p /\ daemonJson.token = process[p].token
    /\ \A p \in Pids : process[p].at = "unlinking" => daemonJson.pid = p

\* The instance a command stopped is gone.
GoneFor(c) == \A p \in Pids : Runs(p) => process[p].token # command[c].old

\* The pid a command is about to signal belongs to the instance it found, or
\* to nobody; after that the instance is gone, unless the command gave up.
StopsOne(c) ==
    /\ command[c].at \in {"kill", "wait"} =>
         /\ command[c].pid \in Pids /\ process[command[c].pid].at # "foreign"
         /\ \A p \in Pids : Runs(p) /\ process[p].token = command[c].old => p = command[c].pid
    /\ command[c].at \notin {"kill", "wait", "deactivate", "done"} => GoneFor(c)
    /\ command[c].answer # "none" => command[c].at = "done"
    /\ command[c].answer \in {"exited", "running"} => GoneFor(c)
    /\ command[c].answer = "running" => command[c].token # command[c].old

LifecycleInv ==
    /\ LifecycleTypeOK
    /\ TokensAreGiven
    /\ PortIsNamed
    /\ \A c \in Commands : StopsOne(c)
    /\ ~struck

-----------------------------------------------------------------------------
(* Daemons and commands: what processes become                             *)

\* A process keeps its number for as long as it runs, and no pid that a
\* command is about to signal passes to another program.
KeepsToken(p) ==
    /\ Runs(p)' => Runs(p) /\ process'[p].token = process[p].token
    /\ process'[p].at = "foreign" => process[p].at = "foreign" \/ Unclaimed(p)

\* It neither takes the port nor begins to remove daemon.json.
KeepsPort(p) ==
    /\ PortHeld(p)' => PortHeld(p)
    /\ process'[p].at = "serving" => process[p].at = "serving"
    /\ process'[p].at = "unlinking" => process[p].at = "unlinking"

OneStarts(q) ==
    /\ counts' = [counts EXCEPT !.starts = @ + 1]
    /\ process'[q].at = "boot" /\ process'[q].token = counts.starts + 1
    /\ \A p \in Pids \ {q} : KeepsToken(p) /\ KeepsPort(p)

NoneStarts == counts'.starts = counts.starts /\ \A p \in Pids : KeepsToken(p)

TokensGoOn == NoneStarts \/ \E q \in Pids : OneStarts(q)

\* A signal ends a process, unless it serves or is no daemon.
LEMMA SignalledEnds ==
    ASSUME process \in [Pids -> Processes], NEW p \in Pids
    PROVE  /\ Signalled(p) \in Processes
           /\ \/ Signalled(p) = Free
              \/ process[p].at = "serving" /\ Signalled(p) = [process[p] EXCEPT !.at = "stopping"]
              \/ process[p].at = "foreign" /\ Signalled(p) = process[p]
<1>1. CASE process[p].at = "serving"
  <2>1. Signalled(p) = [process[p] EXCEPT !.at = "stopping"]
    BY <1>1 DEF Signalled
  <2>2. Signalled(p) \in Processes
    BY <2>1 DEF Processes, ProcessSteps
  <2> QED
    BY <1>1, <2>1, <2>2
<1>2. CASE process[p].at = "foreign"
  BY <1>2 DEF Signalled
<1>3. CASE process[p].at \notin {"serving", "foreign"}
  <2>1. Signalled(p) = Free
    BY <1>3 DEF Signalled
  <2>2. Free \in Processes
    BY DEF Free, Processes, ProcessSteps
  <2> QED
    BY <2>1, <2>2
<1> QED
  BY <1>1, <1>2, <1>3

\* What a signal does to its process.
LEMMA SignalledKeeps ==
    ASSUME process \in [Pids -> Processes], NEW p \in Pids,
           process'[p] \in {process[p], Signalled(p), Free}
    PROVE  KeepsToken(p) /\ KeepsPort(p)
<1>1. Free.at = "free"
  BY DEF Free
<1>2. CASE process'[p] = process[p]
  BY <1>2 DEF KeepsToken, KeepsPort, Runs, PortHeld
<1>3. CASE process'[p] = Free
  BY <1>1, <1>3 DEF KeepsToken, KeepsPort, Runs, PortHeld
<1>4. CASE process[p].at = "serving" /\ process'[p] = [process[p] EXCEPT !.at = "stopping"]
  <2>1. process'[p].at = "stopping" /\ process'[p].token = process[p].token
    BY <1>4 DEF Processes
  <2> QED
    BY <1>4, <2>1 DEF KeepsToken, KeepsPort, Runs, PortHeld
<1> QED
  BY <1>2, <1>3, <1>4, SignalledEnds

\* A process that goes from one step to the next.
LEMMA StepTaken ==
    ASSUME process \in [Pids -> Processes], NEW p \in Pids, NEW s \in ProcessSteps, Put(p, s)
    PROVE  /\ process' \in [Pids -> Processes]
           /\ process'[p].at = s /\ process'[p].token = process[p].token
           /\ \A q \in Pids \ {p} : process'[q] = process[q]
BY DEF Put, Processes

\* A process that ends leaves its pid free.
LEMMA ProcessExits ==
    ASSUME process \in [Pids -> Processes], service \in Services, NEW p \in Pids,
           NEW failing \in BOOLEAN, Exits(p, failing)
    PROVE  /\ process' \in [Pids -> Processes] /\ service' \in Services
           /\ process'[p].at = "free"
           /\ \A q \in Pids \ {p} : process'[q] = process[q]
<1>1. process' = [process EXCEPT ![p] = Free] /\ Free \in Processes /\ Free.at = "free"
  BY DEF Exits, Free, Processes, ProcessSteps
<1>2. PICK owed \in BOOLEAN : service' = [service EXCEPT !.owed = owed]
  <2>1. (service.owed \/ (failing /\ process[p].supervised /\ service.loaded)) \in BOOLEAN
    OBVIOUS
  <2> QED
    BY <2>1 DEF Exits
<1>3. service' \in Services
  BY <1>2 DEF Services
<1> QED
  BY <1>1, <1>3

\* A process that starts has the next number.
LEMMA ProcessBoots ==
    ASSUME LifecycleTypeOK, NEW p \in Pids, NEW version \in Nat, NEW supervised \in BOOLEAN,
           Boots(p, version, supervised)
    PROVE  /\ process' \in [Pids -> Processes] /\ counts' \in [starts : Nat, crashes : Nat]
           /\ OneStarts(p)
<1> DEFINE new == [at |-> "boot", token |-> counts.starts + 1,
                   version |-> version, supervised |-> supervised]
<1>1. counts.starts + 1 \in Nat /\ counts' \in [starts : Nat, crashes : Nat]
      /\ counts' = [counts EXCEPT !.starts = @ + 1] /\ process' = [process EXCEPT ![p] = new]
  BY DEF LifecycleTypeOK, Boots
<1>2. new \in Processes /\ new.at = "boot" /\ new.token = counts.starts + 1
  BY <1>1 DEF Processes, ProcessSteps
<1> HIDE DEF new
<1>3. process' \in [Pids -> Processes] /\ process'[p] = new
  BY <1>1, <1>2 DEF LifecycleTypeOK
<1>4. ASSUME NEW q \in Pids \ {p} PROVE KeepsToken(q) /\ KeepsPort(q)
  BY <1>1, <1>4, SignalledKeeps DEF LifecycleTypeOK
<1> QED
  BY <1>1, <1>2, <1>3, <1>4 DEF OneStarts

\* Booting out signals what launchd supervises.
LEMMA AgentsBootedOut ==
    ASSUME process \in [Pids -> Processes], process' = Booted
    PROVE  process' \in [Pids -> Processes] /\ \A p \in Pids : KeepsToken(p) /\ KeepsPort(p)
<1>1. \A p \in Pids : process'[p] \in {process[p], Signalled(p)}
  BY DEF Booted
<1>2. process' \in [Pids -> Processes]
  BY SignalledEnds DEF Booted
<1> QED
  BY <1>1, <1>2, SignalledKeeps

-----------------------------------------------------------------------------
(* Daemons and commands: what follows for the invariant                    *)

\* Numbers stay unique, whoever starts.
LEMMA TokensStay ==
    ASSUME LifecycleInv, process' \in [Pids -> Processes],
           counts' \in [starts : Nat, crashes : Nat], TokensGoOn,
           \/ daemonJson' = daemonJson
           \/ daemonJson'.token = 0
           \/ \E p \in Pids : Runs(p) /\ daemonJson'.pid = p /\ daemonJson'.token = process[p].token,
           \A c \in Commands : command'[c].old <= counts.starts /\ command'[c].old \in Nat
    PROVE  TokensAreGiven'
<1>0. counts.starts \in Nat /\ process \in [Pids -> Processes]
      /\ \A p \in Pids : process[p].token \in Nat /\ process'[p].token \in Nat
  BY DEF LifecycleInv, LifecycleTypeOK, Processes
<1>1. daemonJson'.token # 0 => daemonJson'.pid \in Pids
  BY DEF LifecycleInv, TokensAreGiven
<1>2. daemonJson'.token <= counts.starts /\ daemonJson'.token \in Nat
  BY <1>0 DEF LifecycleInv, TokensAreGiven, LifecycleTypeOK, Jsons
<1>3. CASE NoneStarts
  BY <1>0, <1>1, <1>2, <1>3 DEF NoneStarts, LifecycleInv, TokensAreGiven, KeepsToken
<1>4. ASSUME NEW q \in Pids, OneStarts(q) PROVE TokensAreGiven'
  <2>1. counts'.starts = counts.starts + 1 /\ process'[q].token = counts.starts + 1
    BY <1>4 DEF OneStarts, LifecycleInv, LifecycleTypeOK
  <2>2. \A p \in Pids \ {q} : Runs(p)' => Runs(p) /\ process'[p].token = process[p].token
    BY <1>4 DEF OneStarts, KeepsToken
  <2>3. \A p \in Pids \ {q} : Runs(p)' => process'[p].token \in 1 .. counts.starts
    BY <2>2 DEF LifecycleInv, TokensAreGiven
  <2>4. \A p \in Pids : Runs(p)' => process'[p].token \in 1 .. counts'.starts
    BY <1>0, <2>1, <2>3
  <2>5. \A p, r \in Pids : Runs(p)' /\ Runs(r)' /\ process'[p].token = process'[r].token => p = r
    BY <1>0, <2>1, <2>2, <2>3 DEF LifecycleInv, TokensAreGiven
  <2>6. daemonJson'.token <= counts'.starts
        /\ \A c \in Commands : command'[c].old <= counts'.starts
    BY <1>0, <1>2, <2>1
  <2> QED
    BY <1>1, <2>4, <2>5, <2>6 DEF TokensAreGiven
<1> QED
  BY <1>3, <1>4 DEF TokensGoOn

\* An instance that is gone stays gone.
LEMMA GoneStaysGone ==
    ASSUME LifecycleInv, TokensGoOn, NEW c \in Commands, GoneFor(c),
           command'[c].old = command[c].old
    PROVE  GoneFor(c)'
<1>0. counts.starts \in Nat /\ command[c].old <= counts.starts /\ command[c].old \in Nat
  BY DEF LifecycleInv, LifecycleTypeOK, TokensAreGiven, CommandRecords
<1>1. CASE NoneStarts
  BY <1>1 DEF NoneStarts, KeepsToken, GoneFor
<1>2. ASSUME NEW q \in Pids, OneStarts(q) PROVE GoneFor(c)'
  BY <1>0, <1>2 DEF OneStarts, KeepsToken, GoneFor
<1> QED
  BY <1>1, <1>2 DEF TokensGoOn

\* What a command knows stays true while others act.
LEMMA OthersKeepStopsOne ==
    ASSUME LifecycleInv, TokensGoOn, NEW c \in Commands, command'[c] = command[c]
    PROVE  StopsOne(c)'
<1>0. counts.starts \in Nat /\ command[c].old <= counts.starts /\ command[c].old \in Nat
      /\ StopsOne(c)
  BY DEF LifecycleInv, LifecycleTypeOK, TokensAreGiven, CommandRecords
<1>1. GoneFor(c) => GoneFor(c)'
  BY GoneStaysGone
<1>2. CASE command[c].at \in {"kill", "wait"}
  <2> DEFINE p == command[c].pid
  <2>1. p \in Pids /\ process[p].at # "foreign" /\ ~Unclaimed(p)
    BY <1>0, <1>2 DEF StopsOne, Unclaimed
  <2>2. process'[p].at # "foreign"
    <3>1. CASE NoneStarts
      BY <2>1, <3>1 DEF NoneStarts, KeepsToken
    <3>2. ASSUME NEW q \in Pids, OneStarts(q) PROVE process'[p].at # "foreign"
      BY <2>1, <3>2 DEF OneStarts, KeepsToken
    <3> QED
      BY <3>1, <3>2 DEF TokensGoOn
  <2>3. \A q \in Pids : Runs(q)' /\ process'[q].token = command[c].old => q = p
    <3>1. CASE NoneStarts
      BY <1>0, <1>2, <3>1 DEF NoneStarts, KeepsToken, StopsOne
    <3>2. ASSUME NEW r \in Pids, OneStarts(r), NEW q \in Pids, Runs(q)',
                 process'[q].token = command[c].old
          PROVE  q = p
      BY <1>0, <1>2, <3>2 DEF OneStarts, KeepsToken, StopsOne
    <3> QED
      BY <3>1, <3>2 DEF TokensGoOn
  <2> QED
    BY <1>0, <1>2, <2>1, <2>2, <2>3 DEF StopsOne
<1>3. CASE command[c].at \notin {"kill", "wait"}
  BY <1>0, <1>1, <1>3 DEF StopsOne
<1> QED
  BY <1>2, <1>3

\* Whoever starts or leaves, the port and daemon.json stay with their owner.
LEMMA PortStays ==
    ASSUME LifecycleInv, daemonJson' = daemonJson, TokensGoOn,
           \A p \in Pids : KeepsPort(p) \/ process'[p].at = "boot"
    PROVE  PortIsNamed'
<1>1. \A p \in Pids : /\ PortHeld(p)' => PortHeld(p)
                      /\ process'[p].at = "serving" => process[p].at = "serving"
                      /\ process'[p].at = "unlinking" => process[p].at = "unlinking"
  BY DEF KeepsPort, PortHeld
<1>2. \A p \in Pids : process'[p].at = "serving" => process'[p].token = process[p].token
  BY DEF TokensGoOn, NoneStarts, OneStarts, KeepsToken, Runs
<1> QED
  BY <1>1, <1>2 DEF LifecycleInv, PortIsNamed

-----------------------------------------------------------------------------
(* Daemons and commands: the steps of a daemon                             *)

\* Whatever a daemon does, and what happens to it.
LEMMA DaemonKeepsInv ==
    ASSUME LifecycleInv, ~UnlinkRaces, NEW p \in Pids,
           \/ Bind(p) \/ Publish(p) \/ CloseServer(p) \/ CloseStore(p)
           \/ LookAtJson(p) \/ Unlink(p) \/ Crash(p) \/ Reuse(p) \/ KeepAlive(p)
    PROVE  LifecycleInv'
<1>0. /\ process \in [Pids -> Processes] /\ daemonJson \in Jsons /\ service \in Services
      /\ counts \in [starts : Nat, crashes : Nat] /\ LifecycleTypeOK
      /\ "free" \in ProcessSteps /\ TRUE \in BOOLEAN /\ FALSE \in BOOLEAN
  BY DEF LifecycleInv, LifecycleTypeOK, ProcessSteps
<1>1. SUFFICES ASSUME process' \in [Pids -> Processes], daemonJson' \in Jsons,
                      service' \in Services, counts' \in [starts : Nat, crashes : Nat],
                      UNCHANGED <<command, struck>>, TokensGoOn, PortIsNamed',
                      \/ daemonJson' = daemonJson
                      \/ daemonJson'.token = 0
                      \/ \E q \in Pids : Runs(q) /\ daemonJson'.pid = q
                                         /\ daemonJson'.token = process[q].token
               PROVE  LifecycleInv'
  <2>1. CASE Bind(p)
    <3>1. process[p].at = "boot" /\ UNCHANGED <<daemonJson, command, struck, counts>>
      BY <2>1 DEF Bind
    <3>2. CASE \E q \in Pids : PortHeld(q)
      <4>1. Exits(p, TRUE)
        BY <2>1, <3>2 DEF Bind
      <4>2. /\ process' \in [Pids -> Processes] /\ service' \in Services
            /\ \A q \in Pids : process'[q].at = "free" \/ process'[q] = process[q]
        BY <1>0, <4>1, ProcessExits
      <4>3. \A q \in Pids : KeepsToken(q) /\ KeepsPort(q)
        BY <4>2 DEF KeepsToken, KeepsPort, Runs, PortHeld
      <4>4. TokensGoOn
        BY <3>1, <4>3 DEF TokensGoOn, NoneStarts
      <4> QED
        BY <1>0, <1>1, <3>1, <4>2, <4>3, <4>4, PortStays
    <3>3. CASE ~\E q \in Pids : PortHeld(q)
      <4>1. Put(p, "bound") /\ service' = service /\ "bound" \in ProcessSteps
        BY <2>1, <3>3 DEF Bind, ProcessSteps
      <4>2. /\ process' \in [Pids -> Processes]
            /\ process'[p].at = "bound" /\ process'[p].token = process[p].token
            /\ \A q \in Pids \ {p} : process'[q] = process[q]
        BY <1>0, <4>1, StepTaken
      <4>3. \A q \in Pids : KeepsToken(q)
        BY <3>1, <4>2 DEF KeepsToken, Runs
      <4>4. TokensGoOn
        BY <3>1, <4>3 DEF TokensGoOn, NoneStarts
      <4>5. PortIsNamed'
        BY <3>1, <3>3, <4>2 DEF LifecycleInv, PortIsNamed, PortHeld
      <4> QED
        BY <1>0, <1>1, <3>1, <4>1, <4>2, <4>4, <4>5
    <3> QED
      BY <3>2, <3>3
  <2>2. CASE Publish(p)
    <3>1. /\ process[p].at = "bound" /\ Put(p, "serving") /\ "serving" \in ProcessSteps
          /\ \A q \in Pids : process[q].at # "unlinking"
          /\ daemonJson' = [pid |-> p, token |-> process[p].token, version |-> process[p].version]
          /\ UNCHANGED <<service, command, struck, counts>>
      BY <2>2 DEF Publish, ProcessSteps
    <3>2. /\ process' \in [Pids -> Processes]
          /\ process'[p].at = "serving" /\ process'[p].token = process[p].token
          /\ \A q \in Pids \ {p} : process'[q] = process[q]
      BY <1>0, <3>1, StepTaken
    <3>3. \A q \in Pids : KeepsToken(q)
      BY <3>1, <3>2 DEF KeepsToken, Runs
    <3>4. TokensGoOn
      BY <3>1, <3>3 DEF TokensGoOn, NoneStarts
    <3>5. PortIsNamed'
      BY <3>1, <3>2 DEF LifecycleInv, PortIsNamed, PortHeld
    <3>6. daemonJson' \in Jsons
      BY <1>0, <3>1 DEF Jsons, Processes
    <3>7. Runs(p) /\ daemonJson'.pid = p /\ daemonJson'.token = process[p].token
      BY <3>1 DEF Runs
    <3> QED
      BY <1>0, <1>1, <3>1, <3>2, <3>4, <3>5, <3>6, <3>7
  <2>3. CASE CloseServer(p) \/ CloseStore(p)
    <3>1. PICK s \in {"closing", "closed"} :
            /\ Put(p, s) /\ process[p].at \in {"stopping", "closing"}
            /\ UNCHANGED <<daemonJson, service, command, struck, counts>>
      BY <2>3 DEF CloseServer, CloseStore
    <3>2. /\ process' \in [Pids -> Processes]
          /\ process'[p].at = s /\ process'[p].token = process[p].token
          /\ \A q \in Pids \ {p} : process'[q] = process[q]
      BY <1>0, <3>1, StepTaken DEF ProcessSteps
    <3>3. \A q \in Pids : KeepsToken(q) /\ KeepsPort(q)
      BY <3>1, <3>2 DEF KeepsToken, KeepsPort, Runs, PortHeld
    <3>4. TokensGoOn
      BY <3>1, <3>3 DEF TokensGoOn, NoneStarts
    <3> QED
      BY <1>0, <1>1, <3>1, <3>2, <3>3, <3>4, PortStays
  <2>4. CASE LookAtJson(p)
    <3>1. process[p].at = "closed" /\ UNCHANGED <<daemonJson, command, struck, counts>>
      BY <2>4 DEF LookAtJson
    <3>2. CASE OwnJson(p)
      <4>1. Put(p, "unlinking") /\ service' = service /\ "unlinking" \in ProcessSteps
            /\ daemonJson.pid = p
        BY <2>4, <3>2 DEF LookAtJson, ProcessSteps, OwnJson
      <4>2. /\ process' \in [Pids -> Processes]
            /\ process'[p].at = "unlinking" /\ process'[p].token = process[p].token
            /\ \A q \in Pids \ {p} : process'[q] = process[q]
        BY <1>0, <4>1, StepTaken
      <4>3. \A q \in Pids : KeepsToken(q)
        BY <3>1, <4>2 DEF KeepsToken, Runs
      <4>4. TokensGoOn
        BY <3>1, <4>3 DEF TokensGoOn, NoneStarts
      <4>5. PortIsNamed'
        BY <3>1, <4>1, <4>2 DEF LifecycleInv, PortIsNamed, PortHeld
      <4> QED
        BY <1>0, <1>1, <3>1, <4>1, <4>2, <4>4, <4>5
    <3>3. CASE ~OwnJson(p)
      <4>1. Exits(p, FALSE)
        BY <2>4, <3>3 DEF LookAtJson
      <4>2. /\ process' \in [Pids -> Processes] /\ service' \in Services
            /\ \A q \in Pids : process'[q].at = "free" \/ process'[q] = process[q]
        BY <1>0, <4>1, ProcessExits
      <4>3. \A q \in Pids : KeepsToken(q) /\ KeepsPort(q)
        BY <4>2 DEF KeepsToken, KeepsPort, Runs, PortHeld
      <4>4. TokensGoOn
        BY <3>1, <4>3 DEF TokensGoOn, NoneStarts
      <4> QED
        BY <1>0, <1>1, <3>1, <4>2, <4>3, <4>4, PortStays
    <3> QED
      BY <3>2, <3>3
  <2>5. CASE Unlink(p)
    <3>1. /\ process[p].at = "unlinking" /\ Exits(p, FALSE) /\ daemonJson' = NoJson
          /\ UNCHANGED <<command, struck, counts>>
      BY <2>5 DEF Unlink
    <3>2. /\ process' \in [Pids -> Processes] /\ service' \in Services
          /\ process'[p].at = "free" /\ \A q \in Pids \ {p} : process'[q] = process[q]
      BY <1>0, <3>1, ProcessExits
    <3>3. \A q \in Pids : KeepsToken(q)
      BY <3>2 DEF KeepsToken, Runs
    <3>4. TokensGoOn
      BY <3>1, <3>3 DEF TokensGoOn, NoneStarts
    <3>5. \A q \in Pids \ {p} : process[q].at \notin {"serving", "unlinking"}
      BY <3>1 DEF LifecycleInv, PortIsNamed
    <3>6. PortIsNamed'
      BY <3>2, <3>5 DEF LifecycleInv, PortIsNamed, PortHeld
    <3>7. daemonJson' \in Jsons /\ daemonJson'.token = 0
      BY <3>1 DEF NoJson, Jsons
    <3> QED
      BY <1>0, <1>1, <3>1, <3>2, <3>4, <3>6, <3>7
  <2>6. CASE Crash(p)
    <3>1. /\ Exits(p, TRUE) /\ counts' = [counts EXCEPT !.crashes = @ + 1]
          /\ UNCHANGED <<daemonJson, command, struck>>
      BY <2>6 DEF Crash
    <3>2. /\ process' \in [Pids -> Processes] /\ service' \in Services
          /\ \A q \in Pids : process'[q].at = "free" \/ process'[q] = process[q]
      BY <1>0, <3>1, ProcessExits
    <3>3. \A q \in Pids : KeepsToken(q) /\ KeepsPort(q)
      BY <3>2 DEF KeepsToken, KeepsPort, Runs, PortHeld
    <3>4. counts' \in [starts : Nat, crashes : Nat] /\ counts'.starts = counts.starts
      BY <1>0, <3>1
    <3>5. TokensGoOn
      BY <3>3, <3>4 DEF TokensGoOn, NoneStarts
    <3> QED
      BY <1>0, <1>1, <3>1, <3>2, <3>3, <3>4, <3>5, PortStays
  <2>7. CASE Reuse(p)
    <3>1. /\ Put(p, "foreign") /\ "foreign" \in ProcessSteps /\ Unclaimed(p)
          /\ counts' = [counts EXCEPT !.crashes = @ + 1]
          /\ UNCHANGED <<daemonJson, service, command, struck>>
      BY <2>7 DEF Reuse, ProcessSteps
    <3>2. /\ process' \in [Pids -> Processes]
          /\ process'[p].at = "foreign" /\ \A q \in Pids \ {p} : process'[q] = process[q]
      BY <1>0, <3>1, StepTaken
    <3>3. \A q \in Pids : KeepsToken(q) /\ KeepsPort(q)
      BY <3>1, <3>2 DEF KeepsToken, KeepsPort, Runs, PortHeld
    <3>4. counts' \in [starts : Nat, crashes : Nat] /\ counts'.starts = counts.starts
      BY <1>0, <3>1
    <3>5. TokensGoOn
      BY <3>3, <3>4 DEF TokensGoOn, NoneStarts
    <3> QED
      BY <1>0, <1>1, <3>1, <3>2, <3>3, <3>4, <3>5, PortStays
  <2>8. CASE KeepAlive(p)
    <3>1. /\ Boots(p, service.installed, TRUE) /\ service.installed \in Nat
          /\ service' = [service EXCEPT !.owed = FALSE]
          /\ UNCHANGED <<daemonJson, command, struck>>
      BY <1>0, <2>8 DEF KeepAlive, Services
    <3>2. /\ process' \in [Pids -> Processes] /\ counts' \in [starts : Nat, crashes : Nat]
          /\ OneStarts(p)
      BY <1>0, <3>1, ProcessBoots
    <3>3. service' \in Services
      BY <1>0, <3>1 DEF Services
    <3>4. TokensGoOn /\ \A q \in Pids : KeepsPort(q) \/ process'[q].at = "boot"
      BY <3>2 DEF TokensGoOn, OneStarts
    <3> QED
      BY <1>0, <1>1, <3>1, <3>2, <3>3, <3>4, PortStays
  <2> QED
    BY <2>1, <2>2, <2>3, <2>4, <2>5, <2>6, <2>7, <2>8
<1>2. LifecycleTypeOK'
  BY <1>0, <1>1 DEF LifecycleTypeOK
<1>3. \A c \in Commands : command'[c].old <= counts.starts /\ command'[c].old \in Nat
  BY <1>1 DEF LifecycleInv, LifecycleTypeOK, TokensAreGiven, CommandRecords
<1>4. TokensAreGiven'
  BY <1>1, <1>3, TokensStay
<1>5. \A c \in Commands : StopsOne(c)'
  BY <1>1, OthersKeepStopsOne
<1> QED
  BY <1>1, <1>2, <1>4, <1>5 DEF LifecycleInv

-----------------------------------------------------------------------------
(* Daemons and commands: the steps of a command                            *)

\* A command that goes on to another step, and one that ends.
GoesTo(c, steps) ==
    /\ command'[c].at \in steps /\ command'[c].answer = command[c].answer
    /\ command'[c].old = command[c].old
EndsWith(c, answers) ==
    /\ command'[c].at = "done" /\ command'[c].answer \in answers
    /\ command'[c].old = command[c].old

OnlyMoves(c) ==
    /\ command' \in [Commands -> CommandRecords]
    /\ \A d \in Commands \ {c} : command'[d] = command[d]

\* The four ways a command has of going on.
LEMMA CommandGoesOn ==
    ASSUME command \in [Commands -> CommandRecords], NEW c \in Commands
    PROVE  /\ \A step \in CommandSteps : At(c, step) => OnlyMoves(c) /\ GoesTo(c, {step})
           /\ \A answer \in Answers : Ends(c, answer) => OnlyMoves(c) /\ EndsWith(c, {answer})
           /\ \A next \in Nexts : Stops(c, next) => OnlyMoves(c) /\ GoesTo(c, {"find"})
           /\ \A j \in Jsons : Returns(c, j) => /\ OnlyMoves(c) /\ EndsWith(c, {"running"})
                                                /\ command'[c].token = j.token
<1>1. ASSUME NEW step \in CommandSteps, At(c, step) PROVE OnlyMoves(c) /\ GoesTo(c, {step})
  BY <1>1 DEF At, OnlyMoves, GoesTo, CommandRecords
<1>2. ASSUME NEW answer \in Answers, Ends(c, answer) PROVE OnlyMoves(c) /\ EndsWith(c, {answer})
  <2>1. "done" \in CommandSteps
    BY DEF CommandSteps
  <2> QED
    BY <1>2, <2>1 DEF Ends, OnlyMoves, EndsWith, CommandRecords
<1>3. ASSUME NEW next \in Nexts, Stops(c, next) PROVE OnlyMoves(c) /\ GoesTo(c, {"find"})
  <2>1. "find" \in CommandSteps
    BY DEF CommandSteps
  <2> QED
    BY <1>3, <2>1 DEF Stops, OnlyMoves, GoesTo, CommandRecords
<1>4. ASSUME NEW j \in Jsons, Returns(c, j)
      PROVE  OnlyMoves(c) /\ EndsWith(c, {"running"}) /\ command'[c].token = j.token
  <2>1. "done" \in CommandSteps /\ "running" \in Answers
    BY DEF CommandSteps, Answers
  <2>2. j.token \in Nat
    BY DEF Jsons
  <2> QED
    BY <1>4, <2>1, <2>2 DEF Returns, OnlyMoves, EndsWith, CommandRecords
<1> QED
  BY <1>1, <1>2, <1>3, <1>4

\* What follows a stop.
LEMMA AfterStopGoesOn ==
    ASSUME command \in [Commands -> CommandRecords], NEW c \in Commands,
           NEW outcome \in {"nothing", "unsignaled", "exited", "running on"},
           AfterStop(c, outcome)
    PROVE  /\ OnlyMoves(c)
           /\ \/ GoesTo(c, {"deactivate"})
              \/ outcome \in {"nothing", "exited"} /\ GoesTo(c, {"ensure", "activate", "launch"})
              \/ EndsWith(c, {outcome, "failed"})
<1> DEFINE next == command[c].next
           goes == \/ next = "deactivate"
                   \/ next \in {"ensure", "activate"} /\ outcome \in {"nothing", "exited"}
                   \/ next = "launch" /\ outcome = "exited"
<1>1. next \in Nexts
  BY DEF CommandRecords
<1>2. CASE goes
  <2>1. At(c, next) /\ next \in CommandSteps
    BY <1>1, <1>2 DEF AfterStop, CommandSteps, Nexts
  <2>2. OnlyMoves(c) /\ GoesTo(c, {next})
    BY <2>1, CommandGoesOn
  <2> QED
    BY <1>2, <2>2 DEF GoesTo
<1>3. CASE ~goes
  <2> DEFINE said == IF next = "report" THEN outcome ELSE "failed"
  <2>3. Ends(c, said)
    BY <1>3 DEF AfterStop
  <2>4. said \in {outcome, "failed"} /\ said \in Answers
    BY DEF Answers
  <2> HIDE DEF said
  <2>1. PICK answer \in {outcome, "failed"} : Ends(c, answer) /\ answer \in Answers
    BY <2>3, <2>4
  <2>2. OnlyMoves(c) /\ EndsWith(c, {answer})
    BY <2>1, CommandGoesOn
  <2> QED
    BY <2>2 DEF EndsWith
<1> QED
  BY <1>2, <1>3

\* An instance that can be found runs, under the pid daemon.json names.
LEMMA AliveRuns ==
    ASSUME LifecycleInv, Alive(daemonJson)
    PROVE  /\ daemonJson.pid \in Pids /\ daemonJson.token # 0
           /\ Runs(daemonJson.pid) /\ process[daemonJson.pid].token = daemonJson.token
           /\ process[daemonJson.pid].at # "foreign"
BY DEF LifecycleInv, TokensAreGiven, Alive, Runs

\* A command that goes on or ends knows no more than before.
LEMMA GoesOnRight ==
    ASSUME LifecycleInv, TokensGoOn, NEW c \in Commands, command[c].at # "done",
           \/ GoesTo(c, {"deactivate"}) \/ EndsWith(c, {"failed", "nothing", "off", "refused", "written",
                                               "unsignaled", "running on"})
           \/ GoneFor(c) /\ \/ GoesTo(c, CommandSteps \ {"kill", "wait", "done"})
                            \/ EndsWith(c, {"exited"})
                            \/ /\ EndsWith(c, {"running"})
                               /\ command'[c].token # command[c].old
    PROVE  StopsOne(c)'
<1>1. command[c].answer = "none" /\ (command'[c].old = command[c].old)
  BY DEF LifecycleInv, StopsOne, GoesTo, EndsWith
<1>2. GoneFor(c) => GoneFor(c)'
  BY <1>1, GoneStaysGone
<1> QED
  BY <1>1, <1>2 DEF StopsOne, GoesTo, EndsWith

\* A command that knows what it stopped to be gone.
LEMMA NoneIsKnown ==
    ASSUME LifecycleInv, NEW c \in Commands,
           command[c].at \notin {"kill", "wait", "deactivate", "done"}
    PROVE  GoneFor(c)
BY DEF LifecycleInv, StopsOne

\* The step of one command, among the others.
LEMMA CommandStepKeepsInv ==
    ASSUME LifecycleInv, NEW c \in Commands, OnlyMoves(c), StopsOne(c)',
           process' \in [Pids -> Processes], service' \in Services,
           counts' \in [starts : Nat, crashes : Nat],
           daemonJson' = daemonJson, ~struck', TokensGoOn,
           \A p \in Pids : KeepsPort(p) \/ process'[p].at = "boot",
           command'[c].old <= counts.starts
    PROVE  LifecycleInv'
<1>1. command' \in [Commands -> CommandRecords] /\ \A d \in Commands \ {c} : command'[d] = command[d]
  BY DEF OnlyMoves
<1>2. \A d \in Commands : command'[d].old <= counts.starts /\ command'[d].old \in Nat
  BY <1>1 DEF LifecycleInv, TokensAreGiven, CommandRecords
<1>3. TokensAreGiven'
  BY <1>2, TokensStay
<1>4. PortIsNamed'
  BY PortStays
<1>5. \A d \in Commands : StopsOne(d)'
  BY <1>1, OthersKeepStopsOne
<1>6. LifecycleTypeOK'
  BY <1>1 DEF LifecycleInv, LifecycleTypeOK
<1> QED
  BY <1>3, <1>4, <1>5, <1>6 DEF LifecycleInv

\* A step that only looks.
LEMMA LooksKeepInv ==
    ASSUME LifecycleInv, NEW c \in Commands, OnlyMoves(c), service' \in Services,
           UNCHANGED <<process, daemonJson, struck, counts>>,
           TokensGoOn => StopsOne(c)', command'[c].old <= counts.starts
    PROVE  LifecycleInv'
<1>1. \A p \in Pids : KeepsToken(p) /\ KeepsPort(p)
  BY DEF KeepsToken, KeepsPort, Runs, PortHeld
<1>2. TokensGoOn
  BY <1>1 DEF TokensGoOn, NoneStarts
<1>3. process' \in [Pids -> Processes] /\ counts' \in [starts : Nat, crashes : Nat] /\ ~struck'
  BY DEF LifecycleInv, LifecycleTypeOK
<1> QED
  BY <1>1, <1>2, <1>3, CommandStepKeepsInv

\* Commands that look, wait, answer or write files.
LEMMA LookingKeepsInv ==
    ASSUME LifecycleInv, NEW c \in Commands,
           \/ Find(c) \/ Wait(c) \/ Ensure(c) \/ AwaitChild(c) \/ AwaitManaged(c)
           \/ PrepareService(c) \/ Inspect(c) \/ GuardStore(c) \/ WriteStore(c)
    PROVE  LifecycleInv'
<1>0. /\ command \in [Commands -> CommandRecords] /\ daemonJson \in Jsons /\ service \in Services
      /\ process \in [Pids -> Processes] /\ counts \in [starts : Nat, crashes : Nat]
      /\ command[c].old <= counts.starts /\ daemonJson.token <= counts.starts
      /\ StopsOne(c) /\ ~struck
  BY DEF LifecycleInv, LifecycleTypeOK, TokensAreGiven
<1> DEFINE answered == {"failed", "nothing", "off", "refused", "written", "unsignaled", "running on"}
           steps == CommandSteps \ {"kill", "wait", "done"}
\* What most steps end in.
<1>1. ASSUME OnlyMoves(c), command[c].at \notin {"kill", "wait", "deactivate", "done"},
             service' \in Services, UNCHANGED <<process, daemonJson, struck, counts>>,
             \/ EndsWith(c, answered) \/ GoesTo(c, steps) \/ EndsWith(c, {"exited"})
             \/ EndsWith(c, {"running"}) /\ command'[c].token # command[c].old
      PROVE  LifecycleInv'
  <2>1. command[c].at # "done" /\ GoneFor(c)
    BY <1>1, NoneIsKnown
  <2>2. command'[c].old <= counts.starts
    BY <1>0, <1>1 DEF EndsWith, GoesTo
  <2>3. TokensGoOn => StopsOne(c)'
    BY <1>1, <2>1, GoesOnRight
  <2> QED
    BY <1>1, <2>2, <2>3, LooksKeepInv
<1>2. \A answer \in Answers : Ends(c, answer) => OnlyMoves(c) /\ EndsWith(c, {answer})
  BY <1>0, CommandGoesOn
<1>3. \A step \in CommandSteps : At(c, step) => OnlyMoves(c) /\ GoesTo(c, {step})
  BY <1>0, CommandGoesOn
<1>4. \A next \in Nexts : Stops(c, next) => OnlyMoves(c) /\ GoesTo(c, {"find"})
  BY <1>0, CommandGoesOn
<1>5. ASSUME NEW answer \in {"failed", "nothing", "off", "refused", "written"}, Ends(c, answer)
      PROVE  OnlyMoves(c) /\ EndsWith(c, answered)
  BY <1>2, <1>5 DEF EndsWith, Answers
<1>6. ASSUME NEW next \in Nexts, Stops(c, next)
      PROVE  OnlyMoves(c) /\ GoesTo(c, steps)
  BY <1>4, <1>6 DEF GoesTo, CommandSteps
<1>7. ASSUME NEW step \in steps, At(c, step)
      PROVE  OnlyMoves(c) /\ GoesTo(c, steps)
  BY <1>3, <1>7 DEF GoesTo
\* The instance that daemon.json names is not the one that was stopped.
<1>8. ASSUME GoneFor(c), Alive(daemonJson), Returns(c, daemonJson)
      PROVE  OnlyMoves(c) /\ EndsWith(c, {"running"}) /\ command'[c].token # command[c].old
  <2>1. OnlyMoves(c) /\ EndsWith(c, {"running"}) /\ command'[c].token = daemonJson.token
    BY <1>0, <1>8, CommandGoesOn
  <2>2. daemonJson.token # command[c].old
    BY <1>8, AliveRuns DEF GoneFor
  <2> QED
    BY <2>1, <2>2
<1>9. CASE Find(c)
  <2>1. command[c].at = "find" /\ UNCHANGED <<process, daemonJson, service, struck, counts>>
    BY <1>9 DEF Find
  <2>2. ASSUME NEW outcome \in {"nothing", "unsignaled"}, AfterStop(c, outcome)
        PROVE  LifecycleInv'
    <3>1. /\ OnlyMoves(c)
          /\ \/ GoesTo(c, {"deactivate"})
             \/ outcome \in {"nothing", "exited"} /\ GoesTo(c, {"ensure", "activate", "launch"})
             \/ EndsWith(c, {outcome, "failed"})
      BY <1>0, <2>2, AfterStopGoesOn
    <3>2. GoesTo(c, steps) \/ EndsWith(c, answered)
      BY <3>1 DEF GoesTo, EndsWith, CommandSteps, Nexts
    <3> QED
      BY <1>0, <1>1, <2>1, <3>1, <3>2
  <2>3. CASE /\ Alive(daemonJson)
             /\ command' = [command EXCEPT ![c].at = "kill", ![c].pid = daemonJson.pid,
                                           ![c].old = daemonJson.token]
    <3>1. /\ daemonJson.pid \in Pids /\ daemonJson.token \in Nat
          /\ Runs(daemonJson.pid) /\ process[daemonJson.pid].token = daemonJson.token
          /\ process[daemonJson.pid].at # "foreign"
      BY <1>0, <2>3, AliveRuns DEF Jsons
    <3>2. "kill" \in CommandSteps
      BY DEF CommandSteps
    <3>3. /\ OnlyMoves(c) /\ command'[c].at = "kill" /\ command'[c].pid = daemonJson.pid
          /\ command'[c].old = daemonJson.token /\ command'[c].answer = command[c].answer
      <4>1. PICK r : r = [command[c] EXCEPT !.at = "kill", !.pid = daemonJson.pid,
                                            !.old = daemonJson.token]
        OBVIOUS
      <4>2. /\ r \in CommandRecords /\ r.at = "kill" /\ r.pid = daemonJson.pid
            /\ r.old = daemonJson.token /\ r.answer = command[c].answer
        BY <1>0, <3>1, <3>2, <4>1 DEF CommandRecords
      <4>3. command' = [command EXCEPT ![c] = r]
        BY <2>3, <4>1
      <4> QED
        BY <1>0, <4>2, <4>3 DEF OnlyMoves
    <3>4. command[c].answer = "none"
      BY <1>0, <2>1 DEF StopsOne
    <3>5. \A p \in Pids : Runs(p) /\ process[p].token = daemonJson.token => p = daemonJson.pid
      BY <3>1 DEF LifecycleInv, TokensAreGiven
    <3>6. StopsOne(c)'
      BY <2>1, <3>1, <3>3, <3>4, <3>5 DEF StopsOne, Runs
    <3> QED
      BY <1>0, <2>1, <3>3, <3>6, LooksKeepInv
  <2> QED
    BY <1>9, <2>2, <2>3 DEF Find, Signals
<1>10. CASE Wait(c)
  <2>1. command[c].at = "wait" /\ UNCHANGED <<process, daemonJson, service, struck, counts>>
    BY <1>10 DEF Wait
  <2>2. CASE WaitOver(c) /\ AfterStop(c, "exited")
    <3>1. /\ OnlyMoves(c)
          /\ \/ GoesTo(c, {"deactivate"}) \/ GoesTo(c, {"ensure", "activate", "launch"})
             \/ EndsWith(c, {"exited", "failed"})
      BY <1>0, <2>2, AfterStopGoesOn
    <3>2. GoneFor(c)
      BY <1>0, <2>1, <2>2 DEF StopsOne, GoneFor, WaitOver, Vacant, Runs
    <3>3. \/ GoesTo(c, steps) \/ EndsWith(c, {"exited"}) \/ EndsWith(c, answered)
      BY <3>1 DEF GoesTo, EndsWith, CommandSteps, Nexts
    <3>4. TokensGoOn => StopsOne(c)'
      BY <2>1, <3>2, <3>3, GoesOnRight
    <3>5. command'[c].old <= counts.starts
      BY <1>0, <3>3 DEF EndsWith, GoesTo
    <3> QED
      BY <1>0, <2>1, <3>1, <3>4, <3>5, LooksKeepInv
  <2>3. CASE AfterStop(c, "running on")
    <3>1. /\ OnlyMoves(c)
          /\ GoesTo(c, {"deactivate"}) \/ EndsWith(c, {"running on", "failed"})
      BY <1>0, <2>3, AfterStopGoesOn
    <3>2. GoesTo(c, {"deactivate"}) \/ EndsWith(c, answered)
      BY <3>1 DEF EndsWith
    <3>3. TokensGoOn => StopsOne(c)'
      BY <2>1, <3>2, GoesOnRight
    <3>4. command'[c].old <= counts.starts
      BY <1>0, <3>2 DEF EndsWith, GoesTo
    <3> QED
      BY <1>0, <2>1, <3>1, <3>3, <3>4, LooksKeepInv
  <2> QED
    BY <1>10, <2>2, <2>3 DEF Wait
<1>11. CASE Ensure(c)
  <2>1. command[c].at = "ensure" /\ UNCHANGED <<process, daemonJson, service, struck, counts>>
    BY <1>11 DEF Ensure
  <2>2. GoneFor(c)
    BY <2>1, NoneIsKnown
  <2>3. PICK seen \in Presence(daemonJson) :
          \/ At(c, "launch") \/ Ends(c, "failed") \/ Stops(c, "launch")
          \/ seen = "reachable" /\ Returns(c, daemonJson)
    BY <1>11 DEF Ensure
  <2>4. seen = "reachable" => Alive(daemonJson)
    BY <2>3 DEF Presence, Alive
  <2>5. "launch" \in steps /\ "launch" \in Nexts
    BY DEF CommandSteps, Nexts
  <2>6. /\ OnlyMoves(c)
        /\ \/ EndsWith(c, answered) \/ GoesTo(c, steps)
           \/ EndsWith(c, {"running"}) /\ command'[c].token # command[c].old
    BY <1>5, <1>6, <1>7, <1>8, <2>2, <2>3, <2>4, <2>5
  <2> QED
    BY <1>0, <1>1, <2>1, <2>6
<1>12. CASE AwaitChild(c) \/ AwaitManaged(c)
  <2>1. /\ command[c].at \in {"await child", "await managed"}
        /\ UNCHANGED <<process, daemonJson, service, struck, counts>>
        /\ Ends(c, "failed") \/ (Alive(daemonJson) /\ Returns(c, daemonJson))
    BY <1>12 DEF AwaitChild, AwaitManaged
  <2>2. GoneFor(c)
    BY <2>1, NoneIsKnown
  <2>3. /\ OnlyMoves(c)
        /\ \/ EndsWith(c, answered)
           \/ EndsWith(c, {"running"}) /\ command'[c].token # command[c].old
    BY <1>5, <1>8, <2>1, <2>2
  <2> QED
    BY <1>0, <1>1, <2>1, <2>3
<1>13. CASE PrepareService(c)
  <2>1. /\ command[c].at = "prepare" /\ UNCHANGED <<process, daemonJson, struck, counts>>
        /\ Stops(c, "activate") \/ Ends(c, "failed")
    BY <1>13 DEF PrepareService
  <2>2. service' \in Services
    <3>1. command[c].version \in Nat
      BY <1>0 DEF CommandRecords
    <3>2. CASE service' = service
      BY <1>0, <3>2
    <3>3. CASE service' = [service EXCEPT !.installed = command[c].version]
      BY <1>0, <3>1, <3>3 DEF Services
    <3> QED
      BY <1>13, <3>2, <3>3 DEF PrepareService
  <2>3. OnlyMoves(c) /\ (EndsWith(c, answered) \/ GoesTo(c, steps))
    BY <1>5, <1>6, <2>1 DEF Nexts
  <2> QED
    BY <1>1, <2>1, <2>2, <2>3
<1>14. CASE Inspect(c)
  <2>1. /\ command[c].at = "inspect" /\ UNCHANGED <<process, daemonJson, service, struck, counts>>
        /\ Ends(c, "nothing") \/ \E next \in {"activate", "deactivate"} : Stops(c, next)
    BY <1>14 DEF Inspect
  <2>2. OnlyMoves(c) /\ (EndsWith(c, answered) \/ GoesTo(c, steps))
    BY <1>5, <1>6, <2>1 DEF Nexts
  <2> QED
    BY <1>0, <1>1, <2>1, <2>2
<1>15. CASE GuardStore(c) \/ WriteStore(c)
  <2>1. /\ command[c].at \in {"guard", "write"}
        /\ UNCHANGED <<process, daemonJson, service, struck, counts>>
        /\ At(c, "write") \/ Ends(c, "refused") \/ Ends(c, "written")
    BY <1>15 DEF GuardStore, WriteStore
  <2>2. "write" \in steps
    BY DEF CommandSteps
  <2>3. OnlyMoves(c) /\ (EndsWith(c, answered) \/ GoesTo(c, steps))
    BY <1>5, <1>7, <2>1, <2>2
  <2> QED
    BY <1>0, <1>1, <2>1, <2>3
<1> QED
  BY <1>9, <1>10, <1>11, <1>12, <1>13, <1>14, <1>15

\* SIGTERM goes to the instance that was found, or to nobody.
LEMMA KillKeepsInv ==
    ASSUME LifecycleInv, NEW c \in Commands, Kill(c)
    PROVE  LifecycleInv'
<1> DEFINE p == command[c].pid
<1>0. /\ command \in [Commands -> CommandRecords] /\ service \in Services
      /\ process \in [Pids -> Processes] /\ counts \in [starts : Nat, crashes : Nat]
      /\ command[c].old <= counts.starts /\ StopsOne(c) /\ ~struck
  BY DEF LifecycleInv, LifecycleTypeOK, TokensAreGiven
<1>1. /\ command[c].at = "kill" /\ UNCHANGED <<daemonJson, service, counts>>
      /\ process' = [process EXCEPT ![p] = IF Vacant(p) THEN @ ELSE Signalled(p)]
      /\ struck' = (struck \/ process[p].at = "foreign")
      /\ IF Vacant(p) THEN Ends(c, "failed") ELSE At(c, "wait")
  BY DEF Kill
<1>2. /\ p \in Pids /\ process[p].at # "foreign"
      /\ \A q \in Pids : Runs(q) /\ process[q].token = command[c].old => q = p
      /\ command[c].answer = "none"
  BY <1>0, <1>1 DEF StopsOne
<1>3. /\ process' \in [Pids -> Processes] /\ process'[p] \in {process[p], Signalled(p)}
      /\ \A q \in Pids \ {p} : process'[q] = process[q]
  BY <1>0, <1>1, <1>2, SignalledEnds
<1>4. \A q \in Pids : KeepsToken(q) /\ KeepsPort(q)
  BY <1>0, <1>2, <1>3, SignalledKeeps
<1>5. TokensGoOn
  BY <1>1, <1>4 DEF TokensGoOn, NoneStarts
<1>6. ~struck'
  BY <1>0, <1>1, <1>2
<1>7. OnlyMoves(c) /\ StopsOne(c)' /\ command'[c].old = command[c].old
  <2>1. CASE Vacant(p)
    <3>1. Ends(c, "failed") /\ "failed" \in Answers
      BY <1>1, <2>1 DEF Answers
    <3>2. OnlyMoves(c) /\ EndsWith(c, {"failed"})
      BY <1>0, <3>1, CommandGoesOn
    <3>3. StopsOne(c)'
      BY <1>1, <1>5, <3>2, GoesOnRight DEF EndsWith
    <3> QED
      BY <3>2, <3>3 DEF EndsWith
  <2>2. CASE ~Vacant(p)
    <3>1. At(c, "wait") /\ "wait" \in CommandSteps
      BY <1>1, <2>2 DEF CommandSteps
    <3>2. OnlyMoves(c) /\ GoesTo(c, {"wait"})
      BY <1>0, <3>1, CommandGoesOn
    <3>3. command'[c].pid = p
      BY <1>0, <3>1 DEF At, CommandRecords
    <3>4. process'[p].at # "foreign"
      BY <1>1, <1>2, <1>4 DEF KeepsToken, Unclaimed
    <3>5. \A q \in Pids : Runs(q)' /\ process'[q].token = command[c].old => q = p
      BY <1>2, <1>4 DEF KeepsToken
    <3>6. StopsOne(c)'
      BY <1>2, <3>2, <3>3, <3>4, <3>5 DEF StopsOne, GoesTo
    <3> QED
      BY <3>2, <3>6 DEF GoesTo
  <2> QED
    BY <2>1, <2>2
<1> QED
  BY <1>0, <1>1, <1>3, <1>4, <1>5, <1>6, <1>7, CommandStepKeepsInv

\* Commands that start daemons, or have launchd start or stop them.
LEMMA StartingKeepsInv ==
    ASSUME LifecycleInv, NEW c \in Commands,
           \/ LaunchManaged(c) \/ LaunchChild(c) \/ ActivateService(c)
           \/ Bootstrap(c) \/ DeactivateService(c)
    PROVE  LifecycleInv'
<1>0. /\ command \in [Commands -> CommandRecords] /\ service \in Services
      /\ process \in [Pids -> Processes] /\ counts \in [starts : Nat, crashes : Nat]
      /\ command[c].old <= counts.starts /\ StopsOne(c) /\ ~struck /\ LifecycleTypeOK
      /\ TRUE \in BOOLEAN /\ FALSE \in BOOLEAN /\ service.installed \in Nat
      /\ command[c].version \in Nat
  BY DEF LifecycleInv, LifecycleTypeOK, TokensAreGiven, Services, CommandRecords
<1> DEFINE steps == CommandSteps \ {"kill", "wait", "done"}
\* A daemon is started, some are signalled, or nothing happens to them.
<1>1. ASSUME OnlyMoves(c), command[c].at # "done", GoneFor(c) \/ EndsWith(c, {"off"}),
             service' \in Services, UNCHANGED <<daemonJson, struck>>,
             GoesTo(c, steps) \/ EndsWith(c, {"failed", "off"}),
             \/ UNCHANGED <<process, counts>>
             \/ process' = Booted /\ counts' = counts
             \/ \E p \in Pids, v \in Nat, supervised \in BOOLEAN : Boots(p, v, supervised)
      PROVE  LifecycleInv'
  <2>1. /\ process' \in [Pids -> Processes] /\ counts' \in [starts : Nat, crashes : Nat]
        /\ TokensGoOn /\ \A p \in Pids : KeepsPort(p) \/ process'[p].at = "boot"
    <3>1. CASE UNCHANGED <<process, counts>>
      <4>1. \A p \in Pids : KeepsToken(p) /\ KeepsPort(p)
        BY <3>1 DEF KeepsToken, KeepsPort, Runs, PortHeld
      <4> QED
        BY <1>0, <3>1, <4>1 DEF TokensGoOn, NoneStarts
    <3>2. CASE process' = Booted /\ counts' = counts
      BY <1>0, <3>2, AgentsBootedOut DEF TokensGoOn, NoneStarts
    <3>3. ASSUME NEW p \in Pids, NEW v \in Nat, NEW supervised \in BOOLEAN, Boots(p, v, supervised)
          PROVE  /\ process' \in [Pids -> Processes] /\ counts' \in [starts : Nat, crashes : Nat]
                 /\ TokensGoOn /\ \A q \in Pids : KeepsPort(q) \/ process'[q].at = "boot"
      BY <1>0, <3>3, ProcessBoots DEF TokensGoOn, OneStarts
    <3> QED
      BY <1>1, <3>1, <3>2, <3>3
  <2>2. EndsWith(c, {"failed", "off"}) =>
          EndsWith(c, {"failed", "nothing", "off", "refused", "written", "unsignaled", "running on"})
    BY DEF EndsWith
  <2>3. EndsWith(c, {"off"}) => EndsWith(c, {"failed", "off"})
    BY DEF EndsWith
  <2>4. StopsOne(c)'
    BY <1>1, <2>1, <2>2, <2>3, GoesOnRight
  <2>5. command'[c].old <= counts.starts /\ ~struck'
    BY <1>0, <1>1 DEF EndsWith, GoesTo
  <2> QED
    BY <1>1, <2>1, <2>4, <2>5, CommandStepKeepsInv
<1>2. Ends(c, "failed") => OnlyMoves(c) /\ EndsWith(c, {"failed", "off"})
  <2>1. "failed" \in Answers
    BY DEF Answers
  <2> QED
    BY <1>0, <2>1, CommandGoesOn DEF EndsWith
<1>3. Ends(c, "off") => OnlyMoves(c) /\ EndsWith(c, {"off"})
  <2>1. "off" \in Answers
    BY DEF Answers
  <2> QED
    BY <1>0, <2>1, CommandGoesOn
<1>4. ASSUME NEW step \in steps, At(c, step) PROVE OnlyMoves(c) /\ GoesTo(c, steps)
  BY <1>0, <1>4, CommandGoesOn DEF GoesTo
<1>5. CASE LaunchManaged(c)
  <2>1. command[c].at = "launch" /\ UNCHANGED <<daemonJson, struck>>
    BY <1>5 DEF LaunchManaged
  <2>2. GoneFor(c)
    BY <2>1, NoneIsKnown
  <2>3. CASE Ends(c, "failed") /\ UNCHANGED <<process, service, counts>>
    BY <1>0, <1>1, <1>2, <2>1, <2>2, <2>3
  <2>4. CASE /\ service' = [service EXCEPT !.loaded = TRUE, !.owed = FALSE]
             /\ At(c, "await managed")
             /\ \/ UNCHANGED <<process, counts>>
                \/ \E p \in Pids : Boots(p, service.installed, TRUE)
    <3>1. service' \in Services
      BY <1>0, <2>4 DEF Services
    <3>2. "await managed" \in steps
      BY DEF CommandSteps
    <3>3. OnlyMoves(c) /\ GoesTo(c, steps)
      BY <1>4, <2>4, <3>2
    <3> QED
      BY <1>0, <1>1, <2>1, <2>2, <2>4, <3>1, <3>3
  <2> QED
    BY <1>5, <2>3, <2>4 DEF LaunchManaged
<1>6. CASE LaunchChild(c)
  <2>1. PICK p \in Pids :
          /\ Boots(p, command[c].version, FALSE)
          /\ command' = [command EXCEPT ![c].at = "await child", ![c].pid = p,
                                        ![c].token = counts.starts + 1]
    BY <1>6 DEF LaunchChild
  <2>2. command[c].at = "launch" /\ UNCHANGED <<daemonJson, service, struck>>
    BY <1>6 DEF LaunchChild
  <2>3. GoneFor(c)
    BY <2>2, NoneIsKnown
  <2>4. "await child" \in steps /\ "await child" \in CommandSteps
    BY DEF CommandSteps
  <2>5. counts.starts + 1 \in Nat
    BY <1>0
  <2>6. OnlyMoves(c) /\ GoesTo(c, steps)
    <3>1. PICK r : r = [command[c] EXCEPT !.at = "await child", !.pid = p,
                                          !.token = counts.starts + 1]
      OBVIOUS
    <3>2. /\ r \in CommandRecords /\ r.at = "await child"
          /\ r.old = command[c].old /\ r.answer = command[c].answer
      BY <1>0, <2>4, <2>5, <3>1 DEF CommandRecords
    <3>3. command' = [command EXCEPT ![c] = r]
      BY <2>1, <3>1
    <3> QED
      BY <1>0, <2>4, <3>2, <3>3 DEF OnlyMoves, GoesTo
  <2> QED
    BY <1>0, <1>1, <2>1, <2>2, <2>3, <2>6
<1>7. CASE ActivateService(c)
  <2>1. command[c].at = "activate" /\ UNCHANGED <<daemonJson, struck, counts>>
    BY <1>7 DEF ActivateService
  <2>2. GoneFor(c)
    BY <2>1, NoneIsKnown
  <2>3. CASE Ends(c, "failed") /\ UNCHANGED <<process, service>>
    BY <1>0, <1>1, <1>2, <2>1, <2>2, <2>3
  <2>4. CASE /\ process' = Booted /\ At(c, "bootstrap")
             /\ service' = [service EXCEPT !.loaded = FALSE, !.owed = FALSE, !.enabled = TRUE]
    <3>1. service' \in Services
      BY <1>0, <2>4 DEF Services
    <3>2. "bootstrap" \in steps
      BY DEF CommandSteps
    <3>3. OnlyMoves(c) /\ GoesTo(c, steps)
      BY <1>4, <2>4, <3>2
    <3> QED
      BY <1>1, <2>1, <2>2, <2>4, <3>1, <3>3
  <2> QED
    BY <1>7, <2>3, <2>4 DEF ActivateService
<1>8. CASE Bootstrap(c)
  <2>1. command[c].at = "bootstrap" /\ UNCHANGED <<daemonJson, struck>>
    BY <1>8 DEF Bootstrap
  <2>2. GoneFor(c)
    BY <2>1, NoneIsKnown
  <2>3. CASE Ends(c, "failed") /\ UNCHANGED <<process, service, counts>>
    BY <1>0, <1>1, <1>2, <2>1, <2>2, <2>3
  <2>4. CASE /\ service' = [service EXCEPT !.loaded = TRUE] /\ At(c, "ensure")
             /\ \E p \in Pids : Boots(p, service.installed, TRUE)
    <3>1. service' \in Services
      BY <1>0, <2>4 DEF Services
    <3>2. "ensure" \in steps
      BY DEF CommandSteps, Nexts
    <3>3. OnlyMoves(c) /\ GoesTo(c, steps)
      BY <1>4, <2>4, <3>2
    <3> QED
      BY <1>0, <1>1, <2>1, <2>2, <2>4, <3>1, <3>3
  <2> QED
    BY <1>8, <2>3, <2>4 DEF Bootstrap
<1>9. CASE DeactivateService(c)
  <2>1. /\ command[c].at = "deactivate" /\ UNCHANGED <<daemonJson, struck, counts>>
        /\ process' = Booted /\ Ends(c, "off")
    BY <1>9 DEF DeactivateService
  <2>2. service' \in Services
    <3>1. PICK installed \in Nat : service' = [service EXCEPT !.enabled = FALSE, !.loaded = FALSE,
                                        !.owed = FALSE, !.installed = installed]
      BY <1>0, <1>9 DEF DeactivateService
    <3> QED
      BY <1>0, <3>1 DEF Services
  <2>3. OnlyMoves(c) /\ EndsWith(c, {"off"})
    BY <1>3, <2>1
  <2>4. EndsWith(c, {"failed", "off"})
    BY <2>3 DEF EndsWith
  <2> QED
    BY <1>1, <2>1, <2>2, <2>3, <2>4
<1> QED
  BY <1>5, <1>6, <1>7, <1>8, <1>9

-----------------------------------------------------------------------------
(* Daemons and commands: the theorems                                      *)

\* A machine on which at most one daemon runs, and serves.
LEMMA LifecycleStarts == LifecycleInit => LifecycleInv
<1> SUFFICES ASSUME LifecycleInit PROVE LifecycleInv
  OBVIOUS
<1>1. command \in [Commands -> CommandRecords]
      /\ \A c \in Commands : command[c].at \in {"ensure", "guard", "prepare", "inspect", "find"}
                             /\ command[c].answer = "none" /\ command[c].old = 0
  <2>1. PICK start \in [Kinds -> {"ensure", "guard", "prepare", "inspect", "find"}] :
          \A k \in Kinds : start[k] = FirstStep(k)
    <3>1. \A k \in Kinds : FirstStep(k) \in {"ensure", "guard", "prepare", "inspect", "find"}
      BY DEF FirstStep
    <3>2. [k \in Kinds |-> FirstStep(k)] \in [Kinds -> {"ensure", "guard", "prepare", "inspect", "find"}]
      BY <3>1
    <3> QED
      BY <3>2
  <2>2. ASSUME NEW c \in Commands
        PROVE  /\ command[c] \in CommandRecords /\ command[c].answer = "none"
               /\ command[c].at \in {"ensure", "guard", "prepare", "inspect", "find"}
               /\ command[c].old = 0
    <3>1. PICK k \in Kinds, v \in CliVersions :
            command[c] = [kind |-> k, version |-> v, at |-> FirstStep(k),
                          next |-> IF k = "restart" THEN "ensure" ELSE "report",
                          pid |-> "none", token |-> 0, old |-> 0, answer |-> "none"]
      BY DEF LifecycleInit
    <3>2. PICK next \in Nexts : next = IF k = "restart" THEN "ensure" ELSE "report"
      BY DEF Nexts
    <3>3. FirstStep(k) \in {"ensure", "guard", "prepare", "inspect", "find"} /\ v \in Nat
      BY <2>1 DEF CliVersions
    <3>4. command[c] = [kind |-> k, version |-> v, at |-> FirstStep(k), next |-> next,
                        pid |-> "none", token |-> 0, old |-> 0, answer |-> "none"]
      BY <3>1, <3>2
    <3>5. {"ensure", "guard", "prepare", "inspect", "find"} \subseteq CommandSteps
          /\ "none" \in Answers
      BY DEF CommandSteps, Answers, Nexts
    <3> HIDE DEF Nexts
    <3> QED
      BY <3>3, <3>4, <3>5 DEF CommandRecords
  <2>3. command \in [Commands -> {command[c] : c \in Commands}]
    BY DEF LifecycleInit
  <2> QED
    BY <2>2, <2>3
<1>2. service \in Services
  <2>1. {0, 1} \subseteq Nat /\ {FALSE} \subseteq BOOLEAN
    OBVIOUS
  <2>2. service \in EarlierServices
    BY DEF LifecycleInit
  <2> QED
    BY <2>1, <2>2, Zenon DEF Services, EarlierServices
<1> DEFINE Stored ==
       /\ process \in [Pids -> Processes] /\ daemonJson \in Jsons
       /\ counts \in [starts : Nat, crashes : Nat]
       /\ \A p, q \in Pids : Runs(p) /\ Runs(q) => p = q
       /\ \A p \in Pids : Runs(p) => /\ process[p].at = "serving" /\ process[p].token = 1
                                     /\ daemonJson.pid = p /\ daemonJson.token = 1
                                     /\ counts.starts = 1
       /\ daemonJson.token # 0 => daemonJson.pid \in Pids
       /\ daemonJson.token <= counts.starts
<1>3. Stored
  <2>1. Free \in Processes /\ Free.at = "free"
    BY DEF Free, Processes, ProcessSteps
  <2>2. CASE /\ process = [p \in Pids |-> Free] /\ daemonJson = NoJson
             /\ counts = [starts |-> 0, crashes |-> 0]
    BY <2>1, <2>2 DEF NoJson, Jsons, Runs
  <2>3. ASSUME NEW first \in Pids,
               process = [p \in Pids |-> IF p = first
                 THEN [at |-> "serving", token |-> 1, version |-> 1, supervised |-> service.loaded]
                 ELSE Free],
               daemonJson = [pid |-> first, token |-> 1, version |-> 1],
               counts = [starts |-> 1, crashes |-> 0]
        PROVE  Stored
    <3>1. PICK supervised \in BOOLEAN : supervised = service.loaded
      BY <1>2 DEF Services
    <3>2. PICK r : r = [at |-> "serving", token |-> 1, version |-> 1, supervised |-> supervised]
      OBVIOUS
    <3>3. r \in Processes /\ r.at = "serving" /\ r.token = 1
      BY <3>2 DEF Processes, ProcessSteps
    <3>4. process = [p \in Pids |-> IF p = first THEN r ELSE Free]
      BY <2>3, <3>1, <3>2
    <3> QED
      BY <2>1, <2>3, <3>3, <3>4 DEF Jsons, Runs
  <2> QED
    BY <2>2, <2>3 DEF LifecycleInit
<1>4. LifecycleTypeOK
  BY <1>1, <1>2, <1>3 DEF LifecycleTypeOK
<1>5. TokensAreGiven
  BY <1>1, <1>3 DEF TokensAreGiven
<1>6. PortIsNamed
  BY <1>3 DEF PortIsNamed, PortHeld, Runs
<1>7. \A c \in Commands : StopsOne(c)
  BY <1>1, <1>3 DEF StopsOne, GoneFor
<1>8. ~struck
  BY DEF LifecycleInit
<1> QED
  BY <1>4, <1>5, <1>6, <1>7, <1>8 DEF LifecycleInv

\* Every step keeps the invariant.
LEMMA LifecycleStep ==
    ASSUME ~UnlinkRaces
    PROVE  LifecycleInv /\ [LifecycleNext]_lifecycleVars => LifecycleInv'
<1>1. ASSUME LifecycleInv, UNCHANGED lifecycleVars PROVE LifecycleInv'
  BY <1>1 DEF lifecycleVars, LifecycleInv, LifecycleTypeOK, TokensAreGiven, PortIsNamed,
              StopsOne, GoneFor, Runs, PortHeld
<1> QED
  BY <1>1, DaemonKeepsInv, LookingKeepsInv, KillKeepsInv, StartingKeepsInv DEF LifecycleNext

\* Where no daemon publishes between the last look of a dying one at daemon.json
\* and its removal, one process has the port, daemon.json names the one that
\* serves, and what a command knows of the one it stopped is true.
THEOREM LifecycleInvariant ==
    ASSUME ~UnlinkRaces
    PROVE  LifecycleSpec => []LifecycleInv
<1>1. LifecycleInit => LifecycleInv
  BY LifecycleStarts
<1>2. LifecycleInv /\ [LifecycleNext]_lifecycleVars => LifecycleInv'
  BY LifecycleStep
<1> QED
  BY <1>1, <1>2, PTL DEF LifecycleSpec

\* Every command finds the daemon that serves, is told the truth about it and
\* signals nothing else, for any number of commands, daemons, crashes and pids
\* that pass to other programs (main.ts stopDaemon, restart, daemon.ts stop).
THEOREM CommandsTellTheTruth ==
    ASSUME ~UnlinkRaces
    PROVE  LifecycleSpec => []CommandsAreRight
<1>1. LifecycleInv => CommandsAreRight
  BY DEF LifecycleInv, CommandsAreRight, FoundWhereServing, AnswersAreTrue, OnlyDaemonsStruck,
         PortIsNamed, StopsOne, GoneFor
<1>2. LifecycleSpec => []LifecycleInv
  BY LifecycleInvariant
<1> QED
  BY <1>1, <1>2, PTL

-----------------------------------------------------------------------------
(* Always-on files: the inductive invariant                                *)

\* The steps of prepareMacOSService, and the others.
Preparing == {"build", "clear", "move", "swap", "mark", "plists", "prepared", "finally"}
MacSteps == Preparing \cup {"idle", "bootout", "enable", "bootstrap", "bootstrap menu",
                            "disable", "uninstall", "remove"}

MacFiles == [root : BOOLEAN, staging : Nat, current : Nat, previous : Nat,
             manifest : Nat, daemonPlist : Nat, menuPlist : Nat]
Agents == [enabled : BOOLEAN, daemon : BOOLEAN, menu : BOOLEAN]
Attempts == [version : Nat, first : BOOLEAN, runs : Nat, kills : Nat]

MacTypeOK ==
    /\ installing \in MacSteps
    /\ files \in MacFiles /\ agents \in Agents /\ attempt \in Attempts

\* LaunchAgents and a daemon that is loaded are preceded by the marker, and
\* everything by the root.
MarkedFirst ==
    /\ files.daemonPlist # 0 \/ files.menuPlist # 0 => files.manifest # 0
    /\ agents.daemon => files.manifest # 0 /\ installing # "remove"
    /\ ~files.root => files = NoFiles
    /\ installing \in Preparing => files.root /\ attempt.version # 0
    /\ installing \in {"plists", "prepared"} => files.manifest # 0

\* The runtime that is marked is there under its name or, between the two
\* renames, under that of the previous one; and what replaces it is complete.
RuntimeIsWhole ==
    /\ installing \notin {"swap", "remove"} => files.manifest = 0 \/ files.current # 0
    /\ installing = "swap" => files.manifest = 0 \/ files.current # 0 \/ files.previous # 0
    /\ installing \in {"clear", "move", "swap"} => files.staging # 0
    /\ installing \in {"mark", "plists", "prepared"} => files.current # 0

MacInv == MacTypeOK /\ (attempt.kills = 0 => MarkedFirst /\ RuntimeIsWhole)

\* A machine without always-on mode.
LEMMA MacStarts == MacInit => MacInv
BY DEF MacInit, MacInv, MacTypeOK, MacFiles, Agents, Attempts, MarkedFirst, RuntimeIsWhole, NoFiles, MacSteps, Preparing

\* Counting attempts keeps their type.
LEMMA AttemptChanges ==
    ASSUME NEW a \in Attempts, NEW v \in Nat, NEW f \in BOOLEAN, NEW r \in Nat
    PROVE  /\ [a EXCEPT !.version = v, !.runs = r, !.first = f] \in Attempts
           /\ [a EXCEPT !.runs = r] \in Attempts /\ [a EXCEPT !.kills = v] \in Attempts
           /\ [a EXCEPT !.kills = v].kills = v
           /\ a.version + 1 \in Nat /\ a.runs + 1 \in Nat
           /\ a.kills + 1 \in Nat /\ a.kills + 1 # 0
<1>1. [a EXCEPT !.version = v, !.runs = r, !.first = f] \in Attempts
  BY DEF Attempts
<1>2. [a EXCEPT !.runs = r] \in Attempts
  BY DEF Attempts
<1>3. [a EXCEPT !.kills = v] \in Attempts /\ [a EXCEPT !.kills = v].kills = v
  BY DEF Attempts
<1>4. a.version \in Nat /\ a.runs \in Nat /\ a.kills \in Nat
  BY DEF Attempts
<1> QED
  BY <1>1, <1>2, <1>3, <1>4

\* Nothing is loaded.
LEMMA NoAgents ==
    LET none == [enabled |-> FALSE, daemon |-> FALSE, menu |-> FALSE]
    IN  none \in Agents /\ ~none.daemon
<1>1. FALSE \in BOOLEAN
  OBVIOUS
<1> QED
  BY <1>1, Zenon DEF Agents

\* Every step keeps the types.
LEMMA MacTypeCorrect ==
    ASSUME MacTypeOK, MacNext
    PROVE  MacTypeOK'
<1> USE DEF MacTypeOK, MacSteps, Preparing, Go, Keep
<1>1. CASE StartInstall
  <2>1. (files.manifest = 0) \in BOOLEAN /\ TRUE \in BOOLEAN
    OBVIOUS
  <2>2. PICK first \in BOOLEAN :
          attempt' = [attempt EXCEPT !.version = @ + 1, !.runs = @ + 1, !.first = first]
    BY <1>1, <2>1 DEF StartInstall
  <2>3. attempt.version + 1 \in Nat /\ attempt.runs + 1 \in Nat
    BY AttemptChanges
  <2>6. attempt' \in Attempts
    BY <2>2, <2>3, AttemptChanges
  <2>4. files' = [files EXCEPT !.root = TRUE] /\ installing' = "build" /\ agents' = agents
    BY <1>1 DEF StartInstall
  <2>5. files' \in MacFiles
    BY <2>4 DEF MacFiles
  <2> QED
    BY <2>4, <2>5, <2>6
<1>2. CASE Build
  <2>1. attempt.version \in Nat /\ agents' = agents /\ attempt' = attempt /\ installing' = "clear"
    BY <1>2 DEF Build, Attempts
  <2>2. files' \in MacFiles
    BY <1>2, <2>1 DEF Build, MacFiles
  <2> QED
    BY <2>1, <2>2
<1>3. CASE ClearPrevious
  BY <1>3 DEF ClearPrevious, MacFiles
<1>4. CASE MoveCurrent
  BY <1>4 DEF MoveCurrent, MacFiles
<1>5. CASE SwapIn
  BY <1>5 DEF SwapIn, MacFiles
<1>6. CASE FailSwap
  BY <1>6 DEF FailSwap, MacFiles, Restored
<1>7. CASE WriteMarker
  BY <1>7 DEF WriteMarker, MacFiles, Attempts
<1>8. CASE WriteDaemonPlist
  BY <1>8 DEF WriteDaemonPlist, MacFiles, Attempts
<1>9. CASE WriteMenuPlist
  BY <1>9 DEF WriteMenuPlist, MacFiles, Attempts
<1>10. CASE Fail
  BY <1>10 DEF Fail
<1>11. CASE Finally
  BY <1>11 DEF Finally, MacFiles, NoFiles
<1>12. CASE StartEnable
  BY <1>12 DEF StartEnable, Attempts
<1>13. CASE Bootout
  BY <1>13 DEF Bootout, Agents
<1>14. CASE EnableAgents
  BY <1>14 DEF EnableAgents, Agents
<1>15. CASE BootstrapDaemon
  BY <1>15 DEF BootstrapDaemon, Agents
<1>16. CASE BootstrapMenu
  BY <1>16 DEF BootstrapMenu, Agents
<1>17. CASE StartDisable
  <2>1. attempt' = [attempt EXCEPT !.runs = @ + 1] /\ installing' \in {"disable", "uninstall"}
    BY <1>17 DEF StartDisable
  <2>2. files' = files /\ agents' = agents
    BY <1>17 DEF StartDisable
  <2>4. attempt.runs + 1 \in Nat /\ attempt.kills + 1 \in Nat
    BY AttemptChanges
  <2>3. attempt' \in Attempts
    BY <2>1, <2>4, AttemptChanges
  <2> QED
    BY <2>1, <2>2, <2>3
<1>18. CASE DisableAgents
  <2>1. agents' \in Agents
    <3>1. CASE agents' = [enabled |-> FALSE, daemon |-> FALSE, menu |-> FALSE]
      BY <3>1, NoAgents, Zenon
    <3>2. ASSUME NEW daemon \in {agents.daemon, FALSE},
                 agents' = [agents EXCEPT !.enabled = FALSE, !.daemon = daemon]
          PROVE  agents' \in Agents
      BY <3>2 DEF Agents
    <3> QED
      BY <1>18, <3>1, <3>2 DEF DisableAgents
  <2>2. installing' \in {"idle", "remove"} /\ files' = files /\ attempt' = attempt
    BY <1>18 DEF DisableAgents
  <2> QED
    BY <2>1, <2>2
<1>19. CASE RemoveFiles
  <2>1. files' \in MacFiles
    <3>1. ASSUME NEW f \in {"current", "previous", "manifest", "staging"},
                 files' = [files EXCEPT ![f] = 0]
          PROVE  files' \in MacFiles
      BY <3>1 DEF MacFiles
    <3>2. CASE files' = NoFiles
      BY <3>2 DEF NoFiles, MacFiles
    <3>3. CASE files' = [files EXCEPT !.daemonPlist = 0,
                                     !.menuPlist = IF files.daemonPlist # 0 THEN @ ELSE 0]
      BY <3>3 DEF MacFiles
    <3> QED
      BY <1>19, <3>1, <3>2, <3>3 DEF RemoveFiles
  <2>2. installing' \in {"idle", "remove"} /\ agents' = agents /\ attempt' = attempt
    BY <1>19 DEF RemoveFiles
  <2> QED
    BY <2>1, <2>2
<1>20. CASE KillInstaller
  <2>1. attempt' = [attempt EXCEPT !.kills = @ + 1] /\ installing' = "idle"
    BY <1>20 DEF KillInstaller
  <2>2. files' = files /\ agents' = agents
    BY <1>20 DEF KillInstaller
  <2>4. attempt.runs + 1 \in Nat /\ attempt.kills + 1 \in Nat
    BY AttemptChanges
  <2>3. attempt' \in Attempts
    BY <2>1, <2>4, AttemptChanges
  <2> QED
    BY <2>1, <2>2, <2>3
<1> QED
  BY <1>1, <1>2, <1>3, <1>4, <1>5, <1>6, <1>7, <1>8, <1>9, <1>10, <1>11, <1>12, <1>13, <1>14, <1>15, <1>16, <1>17, <1>18, <1>19, <1>20 DEF MacNext

\* Without kills every step, failed or not, keeps the runtime whole.
LEMMA MacInvKept ==
    ASSUME MacInv, MacTypeOK', MacNext, attempt'.kills = 0
    PROVE  MarkedFirst' /\ RuntimeIsWhole'
<1> USE DEF MacTypeOK, MacFiles, Agents, Attempts, MacInv, MarkedFirst, RuntimeIsWhole, MacSteps, Preparing, Go, Keep, NoFiles
<1>1. CASE StartInstall
  BY <1>1 DEF StartInstall, Owned
<1>2. CASE Build
  BY <1>2 DEF Build
<1>3. CASE ClearPrevious
  BY <1>3 DEF ClearPrevious
<1>4. CASE MoveCurrent
  BY <1>4 DEF MoveCurrent
<1>5. CASE SwapIn
  BY <1>5 DEF SwapIn
<1>6. CASE FailSwap
  BY <1>6 DEF FailSwap, Restored
<1>7. CASE WriteMarker
  BY <1>7 DEF WriteMarker
<1>8. CASE WriteDaemonPlist
  BY <1>8 DEF WriteDaemonPlist
<1>9. CASE WriteMenuPlist
  BY <1>9 DEF WriteMenuPlist
<1>10. CASE Fail
  BY <1>10 DEF Fail
<1>11. CASE Finally
  BY <1>11 DEF Finally, NoFiles
<1>12. CASE StartEnable
  BY <1>12 DEF StartEnable
<1>13. CASE Bootout
  BY <1>13 DEF Bootout
<1>14. CASE EnableAgents
  BY <1>14 DEF EnableAgents
<1>15. CASE BootstrapDaemon
  BY <1>15 DEF BootstrapDaemon
<1>16. CASE BootstrapMenu
  BY <1>16 DEF BootstrapMenu
<1>17. CASE StartDisable
  BY <1>17 DEF StartDisable
<1>18. CASE DisableAgents
  <2>1. files' = files /\ attempt' = attempt /\ installing \in {"disable", "uninstall"}
    BY <1>18 DEF DisableAgents
  <2>2. agents'.daemon => agents.daemon /\ installing' = "idle"
    <3>1. ASSUME NEW daemon \in {agents.daemon, FALSE},
                 agents' = [agents EXCEPT !.enabled = FALSE, !.daemon = daemon]
          PROVE  agents'.daemon => agents.daemon
      BY <3>1
    <3>2. CASE agents' = [enabled |-> FALSE, daemon |-> FALSE, menu |-> FALSE]
      <4>1. ~agents'.daemon
        BY <3>2, NoAgents
      <4> QED
        BY <4>1
    <3>3. CASE agents' = agents /\ installing' = "idle"
      BY <3>3
    <3> QED
      BY <1>18, <3>1, <3>2, <3>3, Zenon DEF DisableAgents
  <2>3. installing' \in {"idle", "remove"}
    BY <1>18 DEF DisableAgents
  <2> QED
    BY <2>1, <2>2, <2>3
<1>19. CASE RemoveFiles
  <2>1. /\ installing = "remove" /\ installing' \in {"remove", "idle"}
        /\ agents' = agents /\ attempt' = attempt
    BY <1>19 DEF RemoveFiles
  <2>2. CASE files' = NoFiles
    BY <2>1, <2>2
  <2>3. CASE /\ files.daemonPlist # 0 \/ files.menuPlist # 0
             /\ files' = [files EXCEPT !.daemonPlist = 0,
                                      !.menuPlist = IF files.daemonPlist # 0 THEN @ ELSE 0]
             /\ installing' = "remove"
    BY <2>1, <2>3
  <2>4. ASSUME NEW f \in {"current", "previous", "manifest", "staging"},
               files.daemonPlist = 0, files.menuPlist = 0,
               files' = [files EXCEPT ![f] = 0], installing' = "remove", files[f] # 0
        PROVE  MarkedFirst' /\ RuntimeIsWhole'
    BY <2>1, <2>4
  <2> QED
    BY <1>19, <2>2, <2>3, <2>4 DEF RemoveFiles
<1>20. CASE KillInstaller
  <2>1. attempt' = [attempt EXCEPT !.kills = @ + 1]
    BY <1>20 DEF KillInstaller
  <2> HIDE DEF Attempts
  <2>2. attempt.kills + 1 \in Nat /\ attempt.kills + 1 # 0
    BY AttemptChanges
  <2>3. attempt'.kills = attempt.kills + 1
    BY <2>1, <2>2, AttemptChanges
  <2> QED
    BY <2>2, <2>3
<1> QED
  BY <1>1, <1>2, <1>3, <1>4, <1>5, <1>6, <1>7, <1>8, <1>9, <1>10, <1>11, <1>12, <1>13, <1>14, <1>15, <1>16, <1>17, <1>18, <1>19, <1>20 DEF MacNext

\* Every step keeps the invariant.
LEMMA MacStep == MacInv /\ [MacNext]_macVars => MacInv'
<1>1. ASSUME MacInv, MacNext PROVE MacInv'
  <2>1. MacTypeOK'
    BY <1>1, MacTypeCorrect DEF MacInv
  <2> QED
    BY <1>1, <2>1, MacInvKept DEF MacInv
<1>2. ASSUME MacInv, UNCHANGED macVars PROVE MacInv'
  BY <1>2 DEF MacInv, MacTypeOK, MarkedFirst, RuntimeIsWhole, macVars
<1> QED
  BY <1>1, <1>2

\* Where no command is killed, the marker precedes the agents, and the runtime
\* that is marked is there under its name, or under that of the previous one
\* between the two renames.
THEOREM MacInvariant == MacSpec => []MacInv
<1> QED
  BY MacStarts, MacStep, PTL DEF MacSpec

\* Whatever step of an installation or removal fails, what is installed or
\* loaded has a whole runtime (prepareMacOSService).
THEOREM FailuresKeepTheRuntime == MacSpec => []RuntimeSurvivesFailures
<1>1. MacInv => RuntimeSurvivesFailures
  BY DEF MacInv, RuntimeSurvivesFailures, MarkedFirst, RuntimeIsWhole
<1> QED
  BY <1>1, MacInvariant, PTL
-----------------------------------------------------------------------------
(* The outbox: a database, and what the destination made of it             *)

Amounts == Nat \ {0}
ConsentOps == [type : {"consent.put", "consent.revoke"}, stamp : Nat, rev : Amounts]
DeleteOps == [type : {"item.delete"}, stamp : Nat, item : Items, through : Amounts]
ScopeOps == [type : {"scope.delete"}, stamp : Nat, through : Nat]
PutOps == [type : {"item.put"}, stamp : Nat, item : Items, rev : Amounts, grant : Amounts]
ControlOps == ConsentOps \cup DeleteOps \cup ScopeOps
Decisions == [stamp : Nat, ok : BOOLEAN]

\* Types of a database and of the destination.
IsDb(d) ==
    /\ d \in [generation : Nat, log : [Lanes -> Seq(PutOps \cup ControlOps)],
              acked : [Lanes -> Nat], consent : Seq({"consent.put", "consent.revoke"}),
              live : [Items -> [rev : Nat, grant : Nat]], tombs : [Items -> Nat],
              done : SUBSET Items]
    /\ d.log["data"] \in Seq(PutOps)
    /\ d.log["control"] \in Seq(ControlOps)

Destinations ==
    [generation : Nat, got : [Lanes -> Seq(Decisions)], fence : Nat,
     consent : [rev : Nat, type : {"consent.put", "consent.revoke", "none"}],
     live : [Items -> [rev : Nat, at : Nat]], tombs : [Items -> Nat]]

\* What is deleted is not live, and only what was captured, under one of ids,
\* is either.
ItemsAreSettled(d, ids) ==
    /\ \A i \in Items : d.tombs[i] > 0 => d.live[i].rev = 0
    /\ \A i \in Items \ ids : d.live[i].rev = 0 /\ d.tombs[i] = 0
    /\ \A i \in d.done : d.tombs[i] > 0

\* The puts of an item are those of its revisions, in order, and of its grant.
PutsAreOfItems(d) ==
    \A p \in DOMAIN d.log["data"] :
        LET op == d.log["data"][p] IN
        /\ op.rev <= Larger(d.live[op.item].rev, d.tombs[op.item])
        /\ d.live[op.item].rev > 0 => op.grant = d.live[op.item].grant
        /\ \A q \in DOMAIN d.log["data"] :
             p < q /\ d.log["data"][q].item = op.item => op.rev <= d.log["data"][q].rev

\* A control operation that tells of the deletion of an item.
TellsOf(d, i, op) ==
    \/ op.type = "item.delete" /\ op.item = i /\ op.through = d.tombs[i]
    \/ /\ op.type = "scope.delete"
       /\ \A p \in DOMAIN d.log["data"] : d.log["data"][p].item = i => p <= op.through

\* Deletions, and nothing else, are told on the control lane.
DeletionsAreTold(d) ==
    /\ \A i \in Items : d.tombs[i] > 0 =>
         \E q \in DOMAIN d.log["control"] : TellsOf(d, i, d.log["control"][q])
    /\ \A q \in DOMAIN d.log["control"] :
         LET op == d.log["control"][q] IN
         /\ op.type = "item.delete" => op.through <= d.tombs[op.item]
         /\ op.type = "scope.delete" => op.through <= Len(d.log["data"])
         /\ op.type \in {"consent.put", "consent.revoke"} =>
              op.rev <= Revision(d) /\ d.consent[op.rev] = op.type

\* A live item is on the data lane, behind every fence, and its grant was not
\* revoked since.
LiveIsTold(d) ==
    \A i \in LiveItems(d) :
        /\ \E p \in DOMAIN d.log["data"] :
             d.log["data"][p].item = i /\ d.log["data"][p].rev = d.live[i].rev
        /\ \A p \in DOMAIN d.log["data"], q \in DOMAIN d.log["control"] :
             d.log["data"][p].item = i /\ d.log["control"][q].type = "scope.delete" =>
                d.log["control"][q].through < p
        /\ d.live[i].grant \in 1 .. Revision(d)
        /\ \A r \in d.live[i].grant .. Revision(d) : d.consent[r] = "consent.put"

DbInv(d, ids) ==
    /\ IsDb(d) /\ ItemsAreSettled(d, ids) /\ PutsAreOfItems(d) /\ DeletionsAreTold(d)
    /\ LiveIsTold(d)

\* The destination decided on a start of each lane, and the cursor is within it.
DecidedIsLog(d, k) ==
    \A lane \in Lanes :
        /\ Len(k.got[lane]) <= Len(d.log[lane])
        /\ \A p \in DOMAIN k.got[lane] :
             /\ k.got[lane][p].stamp = d.log[lane][p].stamp
             /\ lane = "control" => k.got[lane][p].ok = TRUE
        /\ d.acked[lane] <= Len(k.got[lane])

\* What it took of the control lane has its effect, whatever came after it.
ControlIsApplied(d, k) ==
    /\ \A q \in DOMAIN k.got["control"] :
         LET op == d.log["control"][q] IN
         /\ op.type = "item.delete" => op.through <= k.tombs[op.item]
         /\ op.type = "scope.delete" =>
              /\ op.through <= k.fence
              /\ \A i \in Items : k.live[i].rev > 0 => op.through < k.live[i].at
    /\ k.fence > 0 =>
         \E q \in DOMAIN d.log["control"] :
            d.log["control"][q].type = "scope.delete" /\ d.log["control"][q].through = k.fence
    /\ \A i \in Items :
         /\ k.live[i].rev \notin 1 .. k.tombs[i]
         /\ k.live[i].rev > 0 /\ k.live[i].at > 0 =>
              k.live[i].at \in DOMAIN k.got["data"] /\ d.log["data"][k.live[i].at].item = i
    /\ \A i \in d.done : d.tombs[i] <= k.tombs[i]

\* Without a restored backup the destination is not ahead of the replica, and
\* has what was put of a live item.
HoldsWhatIsPut(d, k) ==
    /\ \A i \in Items :
         /\ k.live[i].rev <= Larger(d.live[i].rev, d.tombs[i])
         /\ k.tombs[i] <= d.tombs[i]
    /\ k.consent.rev <= Revision(d)
    /\ k.consent.type = IF k.consent.rev = 0 THEN "none" ELSE d.consent[k.consent.rev]
    /\ \A p \in DOMAIN k.got["data"] :
         LET op == d.log["data"][p] IN
         d.live[op.item].rev > 0 =>
            op.rev <= k.live[op.item].rev /\ p <= k.live[op.item].at

OutboxTypeOK ==
    /\ changes \in Nat /\ restores \in Nat
    /\ drawn \in SUBSET Items
    /\ dest \in Destinations

OutboxInv ==
    /\ OutboxTypeOK
    /\ DbInv(db, drawn) /\ DbInv(backedUp, drawn)
    /\ backedUp.generation <= db.generation /\ dest.generation <= db.generation
    /\ \A i \in backedUp.done : backedUp.tombs[i] <= dest.tombs[i]
    /\ DecidedIsLog(db, KnownDestination)
    /\ ControlIsApplied(db, KnownDestination)
    /\ restores = 0 => HoldsWhatIsPut(db, KnownDestination)
-----------------------------------------------------------------------------
\* A sequence of a finite set has every element of it once.
LEMMA SeqOfSet ==
    ASSUME NEW S, IsFiniteSet(S)
    PROVE  /\ SetToSeq(S) \in Seq(S)
           /\ \A a, b \in DOMAIN SetToSeq(S) : SetToSeq(S)[a] = SetToSeq(S)[b] => a = b
           /\ \A x \in S : \E a \in DOMAIN SetToSeq(S) : SetToSeq(S)[a] = x
<1> DEFINE n == Cardinality(S)
           f == SetToSeq(S)
<1>1. n \in Nat /\ ExistsBijection(1 .. n, S)
  BY FS_CardinalityType
<1>2. PICK g \in [1 .. n -> S] : IsInjective(g)
  BY <1>1 DEF ExistsBijection, Bijection, Injection
<1>3. f \in [1 .. n -> S] /\ IsInjective(f)
  BY <1>2 DEF SetToSeq
<1> HIDE DEF f
<1>4. f \in Injection(1 .. n, S)
  BY <1>3 DEF Injection
<1>5. Cardinality(1 .. n) = n
  BY <1>1, FS_Interval
<1>6. f \in Surjection(1 .. n, S)
  <2> HIDE DEF n
  <2> QED BY <1>4, <1>5, FS_Injection DEF n
<1>7. f \in Seq(S)
  <2> HIDE DEF n
  <2> QED BY <1>1, <1>3
<1> QED BY <1>3, <1>6, <1>7 DEF f, IsInjective, Surjection

\* The parts of a database.
LEMMA DbParts ==
    ASSUME NEW d, IsDb(d)
    PROVE  /\ d.generation \in Nat /\ d.log \in [Lanes -> Seq(PutOps \cup ControlOps)]
           /\ d.acked \in [Lanes -> Nat] /\ d.consent \in Seq({"consent.put", "consent.revoke"})
           /\ d.live \in [Items -> [rev : Nat, grant : Nat]] /\ d.tombs \in [Items -> Nat]
           /\ d.done \in SUBSET Items
           /\ d.log["data"] \in Seq(PutOps) /\ d.log["control"] \in Seq(ControlOps)
           /\ Len(d.log["data"]) \in Nat /\ Len(d.log["control"]) \in Nat
           /\ Revision(d) \in Nat
BY DEF IsDb, Revision

\* Adding an operation to a lane changes nothing else.
LEMMA EnqueueParts ==
    ASSUME NEW d, IsDb(d), NEW op,
           NEW lane \in Lanes,
           lane = "data" => op \in PutOps, lane = "control" => op \in ControlOps
    PROVE  LET e == Enqueue(d, lane, op) IN
           /\ IsDb(e)
           /\ e.generation = d.generation /\ e.acked = d.acked /\ e.consent = d.consent
           /\ e.live = d.live /\ e.tombs = d.tombs /\ e.done = d.done
           /\ e.log[lane] = Append(d.log[lane], op)
           /\ \A l \in Lanes \ {lane} : e.log[l] = d.log[l]
<1> DEFINE e == Enqueue(d, lane, op)
<1>1. /\ d.log \in [Lanes -> Seq(PutOps \cup ControlOps)]
      /\ d.log["data"] \in Seq(PutOps) /\ d.log["control"] \in Seq(ControlOps)
  BY DbParts
<1>2. e = [d EXCEPT !.log = [d.log EXCEPT ![lane] = Append(d.log[lane], op)]]
  BY DEF Enqueue
<1>3. /\ e.generation = d.generation /\ e.acked = d.acked /\ e.consent = d.consent
      /\ e.live = d.live /\ e.tombs = d.tombs /\ e.done = d.done
      /\ e.log = [d.log EXCEPT ![lane] = Append(d.log[lane], op)]
  <2> HIDE DEF e
  <2> QED BY <1>2 DEF IsDb
<1>4. /\ e.log[lane] = Append(d.log[lane], op)
      /\ \A l \in Lanes \ {lane} : e.log[l] = d.log[l]
  <2> HIDE DEF e
  <2> QED BY <1>1, <1>3
<1>5. e.log \in [Lanes -> Seq(PutOps \cup ControlOps)]
  <2>1. op \in PutOps \cup ControlOps
    BY DEF Lanes
  <2>2. d.log[lane] \in Seq(PutOps \cup ControlOps)
    BY <1>1
  <2>3. Append(d.log[lane], op) \in Seq(PutOps \cup ControlOps)
    BY <2>1, <2>2
  <2> HIDE DEF e
  <2> QED BY <1>1, <1>3, <2>3
<1>6. e.log["data"] \in Seq(PutOps) /\ e.log["control"] \in Seq(ControlOps)
  <2> HIDE DEF e
  <2>1. CASE lane = "data"
    <3>1. "data" \in Lanes /\ "control" \in Lanes \ {lane}
      BY <2>1 DEF Lanes
    <3>2. e.log["data"] = Append(d.log["data"], op) /\ e.log["control"] = d.log["control"]
      BY <1>4, <2>1, <3>1
    <3>3. op \in PutOps
      BY <2>1
    <3> QED BY <1>1, <3>2, <3>3
  <2>2. CASE lane = "control"
    <3>1. "control" \in Lanes /\ "data" \in Lanes \ {lane}
      BY <2>2 DEF Lanes
    <3>2. e.log["control"] = Append(d.log["control"], op) /\ e.log["data"] = d.log["data"]
      BY <1>4, <2>2, <3>1
    <3>3. op \in ControlOps
      BY <2>2
    <3> QED BY <1>1, <3>2, <3>3
  <2> QED BY <2>1, <2>2 DEF Lanes
<1>7. IsDb(e)
  <2> HIDE DEF e
  <2>1. e = [d EXCEPT !.log = e.log]
    BY <1>2, <1>3
  <2> QED BY <1>5, <1>6, <2>1 DEF IsDb
<1> QED BY <1>3, <1>4, <1>7

-----------------------------------------------------------------------------
(* What the user does, to a database                                       *)

\* A sequence that another one starts with.
Starts(s, t) == Len(s) <= Len(t) /\ \A p \in DOMAIN s : t[p] = s[p]

\* The database e is d with some items deleted and told of, or a revision of
\* the grant.
Buries(d, e, gone) ==
    /\ IsDb(e)
    /\ e.generation = d.generation /\ e.acked = d.acked /\ e.done = d.done
    /\ e.log["data"] = d.log["data"]
    /\ Starts(d.log["control"], e.log["control"])
    /\ Starts(d.consent, e.consent)
    /\ \A i \in gone : e.tombs[i] = Larger(d.tombs[i], d.live[i].rev) /\ e.live[i].rev = 0
    /\ \A i \in Items \ gone : e.tombs[i] = d.tombs[i] /\ e.live[i] = d.live[i]
    /\ gone # Items => \A r \in DOMAIN e.consent \ DOMAIN d.consent : e.consent[r] = "consent.put"
    /\ \A i \in gone : d.live[i].rev > 0 =>
         \E q \in DOMAIN e.log["control"] : TellsOf(e, i, e.log["control"][q])
    /\ \A q \in DOMAIN e.log["control"] \ DOMAIN d.log["control"] :
         LET op == e.log["control"][q] IN
         \/ op.type = "item.delete" /\ op.through <= e.tombs[op.item]
         \/ op.type = "scope.delete" /\ op.through = Len(d.log["data"]) /\ gone = Items
         \/ /\ op.type \in {"consent.put", "consent.revoke"}
            /\ op.rev <= Revision(e) /\ e.consent[op.rev] = op.type

\* The database e is d with a revision of an item put, the first of a new one
\* or the next of a live one.
Puts(d, e, i, ids) ==
    /\ IsDb(e)
    /\ e.generation = d.generation /\ e.acked = d.acked /\ e.done = d.done
    /\ e.log["control"] = d.log["control"] /\ e.consent = d.consent /\ e.tombs = d.tombs
    /\ e.log["data"] = Append(d.log["data"], e.log["data"][Len(d.log["data"]) + 1])
    /\ e.log["data"][Len(d.log["data"]) + 1].item = i
    /\ e.log["data"][Len(d.log["data"]) + 1].rev = e.live[i].rev
    /\ e.log["data"][Len(d.log["data"]) + 1].grant = e.live[i].grant
    /\ e.live[i].rev = d.live[i].rev + 1
    /\ \A j \in Items \ {i} : e.live[j] = d.live[j]
    /\ \/ d.live[i].rev > 0 /\ e.live[i].grant = d.live[i].grant
       \/ i \notin ids
    /\ e.live[i].grant = Revision(d) /\ Active(d)

LEMMA BuriesKeeps ==
    ASSUME NEW d, NEW e, NEW ids, NEW gone \in SUBSET Items, DbInv(d, ids), Buries(d, e, gone)
    PROVE  DbInv(e, ids)
<1>1. IsDb(d) /\ IsDb(e)
  BY DEF DbInv, Buries
<1>2. /\ d.live \in [Items -> [rev : Nat, grant : Nat]] /\ d.tombs \in [Items -> Nat]
      /\ e.live \in [Items -> [rev : Nat, grant : Nat]] /\ e.tombs \in [Items -> Nat]
      /\ d.done \in SUBSET Items
      /\ d.log["data"] \in Seq(PutOps) /\ d.log["control"] \in Seq(ControlOps)
      /\ e.log["control"] \in Seq(ControlOps)
      /\ Len(d.log["data"]) \in Nat
  BY <1>1, DbParts
<1>3. /\ e.done = d.done /\ e.log["data"] = d.log["data"]
      /\ \A i \in gone : e.tombs[i] = Larger(d.tombs[i], d.live[i].rev) /\ e.live[i].rev = 0
      /\ \A i \in Items \ gone : e.tombs[i] = d.tombs[i] /\ e.live[i] = d.live[i]
  BY DEF Buries
<1>4. \A i \in Items :
        /\ d.live[i].rev \in Nat /\ d.tombs[i] \in Nat /\ e.live[i].rev \in Nat /\ e.tombs[i] \in Nat
        /\ d.tombs[i] > 0 => d.live[i].rev = 0
        /\ i \notin ids => d.live[i].rev = 0 /\ d.tombs[i] = 0
  BY <1>2 DEF DbInv, ItemsAreSettled
<1>5. \A i \in Items :
        /\ Larger(e.live[i].rev, e.tombs[i]) = Larger(d.live[i].rev, d.tombs[i])
        /\ d.tombs[i] > 0 => e.tombs[i] = d.tombs[i]
        /\ e.live[i].rev > 0 => e.live[i] = d.live[i] /\ i \notin gone
        /\ e.tombs[i] > 0 => e.live[i].rev = 0
        /\ i \notin ids => e.live[i].rev = 0 /\ e.tombs[i] = 0
        /\ e.tombs[i] > 0 /\ d.tombs[i] = 0 => i \in gone /\ d.live[i].rev > 0
  BY <1>3, <1>4 DEF Larger
<1>6. ItemsAreSettled(e, ids)
  <2>1. \A i \in d.done : i \in Items /\ d.tombs[i] > 0
    BY <1>2 DEF DbInv, ItemsAreSettled
  <2> QED BY <1>3, <1>5, <2>1 DEF ItemsAreSettled
<1>7. PutsAreOfItems(e)
  <2>1. ASSUME NEW p \in DOMAIN d.log["data"]
        PROVE  d.log["data"][p].item \in Items
    <3>1. d.log["data"][p] \in PutOps
      BY <1>2
    <3> QED BY <3>1 DEF PutOps
  <2>2. PutsAreOfItems(d)
    BY DEF DbInv
  <2> QED BY <1>3, <1>5, <2>1, <2>2 DEF PutsAreOfItems
<1>8. /\ Len(d.log["control"]) <= Len(e.log["control"])
      /\ \A q \in DOMAIN d.log["control"] : q \in DOMAIN e.log["control"]
                                            /\ e.log["control"][q] = d.log["control"][q]
  BY <1>2 DEF Buries, Starts
<1>9. /\ Revision(d) \in Nat /\ Revision(e) \in Nat /\ Revision(d) <= Revision(e)
      /\ DOMAIN d.consent = 1 .. Revision(d) /\ DOMAIN e.consent = 1 .. Revision(e)
      /\ \A r \in 1 .. Revision(d) : e.consent[r] = d.consent[r]
  BY <1>1, DbParts DEF Buries, Starts, Revision
<1>10. DeletionsAreTold(e)
  <2>1. ASSUME NEW i \in Items, e.tombs[i] > 0
        PROVE  \E q \in DOMAIN e.log["control"] : TellsOf(e, i, e.log["control"][q])
    <3>1. CASE d.tombs[i] > 0
      <4>1. PICK q \in DOMAIN d.log["control"] : TellsOf(d, i, d.log["control"][q])
        BY <3>1 DEF DbInv, DeletionsAreTold
      <4>2. e.tombs[i] = d.tombs[i]
        BY <1>5, <3>1
      <4> QED BY <1>3, <1>8, <4>1, <4>2 DEF TellsOf
    <3>2. CASE ~(d.tombs[i] > 0)
      <4>1. i \in gone /\ d.live[i].rev > 0
        BY <1>4, <1>5, <2>1, <3>2
      <4> QED BY <4>1 DEF Buries
    <3> QED BY <3>1, <3>2
  <2>2. ASSUME NEW q \in DOMAIN e.log["control"]
        PROVE  LET op == e.log["control"][q] IN
               /\ op.type = "item.delete" => op.through <= e.tombs[op.item]
               /\ op.type = "scope.delete" => op.through <= Len(e.log["data"])
               /\ op.type \in {"consent.put", "consent.revoke"} =>
                    op.rev <= Revision(e) /\ e.consent[op.rev] = op.type
    <3> DEFINE op == e.log["control"][q]
    <3>1. op \in ControlOps
      BY <1>2
    <3>2. CASE q \in DOMAIN d.log["control"]
      <4>1. /\ op.type = "item.delete" => op.through <= d.tombs[op.item]
            /\ op.type = "scope.delete" => op.through <= Len(d.log["data"])
            /\ op.type \in {"consent.put", "consent.revoke"} =>
                 op.rev <= Revision(d) /\ d.consent[op.rev] = op.type
        BY <1>8, <3>2 DEF DbInv, DeletionsAreTold
      <4>2. /\ op.type = "item.delete" => op.item \in Items /\ op.through \in Amounts
            /\ op.type \in {"consent.put", "consent.revoke"} => op.rev \in Amounts
        BY <3>1 DEF ControlOps, ConsentOps, DeleteOps, ScopeOps
      <4>3. op.type = "item.delete" => op.through <= e.tombs[op.item]
        BY <1>4, <1>5, <4>1, <4>2 DEF Amounts
      <4>4. op.type \in {"consent.put", "consent.revoke"} =>
              op.rev <= Revision(e) /\ e.consent[op.rev] = op.type
        BY <1>9, <4>1, <4>2 DEF Amounts
      <4> QED BY <1>3, <4>1, <4>3, <4>4
    <3>3. CASE q \notin DOMAIN d.log["control"]
      <4>1. \/ op.type = "item.delete" /\ op.through <= e.tombs[op.item]
            \/ op.type = "scope.delete" /\ op.through = Len(d.log["data"]) /\ gone = Items
            \/ /\ op.type \in {"consent.put", "consent.revoke"}
               /\ op.rev <= Revision(e) /\ e.consent[op.rev] = op.type
        BY <3>3 DEF Buries
      <4>2. Len(d.log["data"]) <= Len(d.log["data"])
        BY <1>2
      <4> QED BY <1>3, <4>1, <4>2
    <3> QED BY <3>2, <3>3
  <2> QED BY <2>1, <2>2 DEF DeletionsAreTold
<1>11. LiveIsTold(e)
  <2> SUFFICES ASSUME NEW i \in LiveItems(e)
               PROVE  /\ \E p \in DOMAIN e.log["data"] :
                           e.log["data"][p].item = i /\ e.log["data"][p].rev = e.live[i].rev
                      /\ \A p \in DOMAIN e.log["data"], q \in DOMAIN e.log["control"] :
                           e.log["data"][p].item = i /\ e.log["control"][q].type = "scope.delete" =>
                             e.log["control"][q].through < p
                      /\ e.live[i].grant \in 1 .. Revision(e)
                      /\ \A r \in e.live[i].grant .. Revision(e) : e.consent[r] = "consent.put"
    BY DEF LiveIsTold
  <2>1. i \in Items /\ i \in LiveItems(d) /\ e.live[i] = d.live[i] /\ i \notin gone /\ gone # Items
    BY <1>5 DEF LiveItems
  <2>2. /\ \E p \in DOMAIN d.log["data"] :
             d.log["data"][p].item = i /\ d.log["data"][p].rev = d.live[i].rev
        /\ \A p \in DOMAIN d.log["data"], q \in DOMAIN d.log["control"] :
             d.log["data"][p].item = i /\ d.log["control"][q].type = "scope.delete" =>
               d.log["control"][q].through < p
        /\ d.live[i].grant \in 1 .. Revision(d)
        /\ \A r \in d.live[i].grant .. Revision(d) : d.consent[r] = "consent.put"
    BY <2>1 DEF DbInv, LiveIsTold
  <2>3. ASSUME NEW p \in DOMAIN e.log["data"], NEW q \in DOMAIN e.log["control"],
               e.log["data"][p].item = i, e.log["control"][q].type = "scope.delete"
        PROVE  e.log["control"][q].through < p
    <3>1. q \in DOMAIN d.log["control"]
      BY <2>1, <2>3 DEF Buries
    <3> QED BY <1>3, <1>8, <2>2, <2>3, <3>1
  <2>4. e.live[i].grant \in 1 .. Revision(e)
    BY <1>9, <2>1, <2>2
  <2>5. ASSUME NEW r \in e.live[i].grant .. Revision(e)
        PROVE  e.consent[r] = "consent.put"
    <3>1. CASE r \in 1 .. Revision(d)
      BY <1>9, <2>1, <2>2, <3>1
    <3>2. CASE r \notin 1 .. Revision(d)
      <4>1. r \in DOMAIN e.consent \ DOMAIN d.consent
        BY <1>9, <2>1, <2>2, <3>2
      <4> QED BY <2>1, <4>1 DEF Buries
    <3> QED BY <3>1, <3>2
  <2> QED BY <1>3, <2>1, <2>2, <2>3, <2>4, <2>5
<1> QED BY <1>1, <1>6, <1>7, <1>10, <1>11 DEF DbInv

LEMMA PutsKeeps ==
    ASSUME NEW d, NEW e, NEW ids, NEW i \in Items, DbInv(d, ids), Puts(d, e, i, ids)
    PROVE  DbInv(e, ids \cup {i})
<1> DEFINE n == Len(d.log["data"]) + 1
           put == e.log["data"][n]
<1>1. IsDb(d) /\ IsDb(e)
  BY DEF DbInv, Puts
<1>2. /\ d.live \in [Items -> [rev : Nat, grant : Nat]] /\ d.tombs \in [Items -> Nat]
      /\ e.live \in [Items -> [rev : Nat, grant : Nat]] /\ e.tombs \in [Items -> Nat]
      /\ d.log["data"] \in Seq(PutOps) /\ e.log["data"] \in Seq(PutOps)
      /\ d.log["control"] \in Seq(ControlOps)
      /\ Len(d.log["data"]) \in Nat /\ n \in Nat
      /\ Revision(d) \in Nat
  BY <1>1, DbParts
<1>3. /\ e.done = d.done /\ e.log["control"] = d.log["control"]
      /\ e.tombs = d.tombs /\ e.consent = d.consent
      /\ \A j \in Items \ {i} : e.live[j] = d.live[j]
      /\ e.live[i].rev = d.live[i].rev + 1
      /\ d.live[i].rev > 0 => e.live[i].grant = d.live[i].grant
      /\ e.live[i].grant = Revision(d) /\ Active(d)
      /\ put.item = i /\ put.rev = e.live[i].rev /\ put.grant = e.live[i].grant
      /\ Revision(e) = Revision(d)
  <2>1. i \in ids \/ i \notin ids
    OBVIOUS
  <2>2. i \notin ids => d.live[i].rev = 0
    BY DEF DbInv, ItemsAreSettled
  <2> QED BY <1>2, <2>2 DEF Puts, Revision
<1>4. /\ DOMAIN e.log["data"] = 1 .. n /\ DOMAIN d.log["data"] = 1 .. n - 1
      /\ Len(e.log["data"]) = n
      /\ \A p \in 1 .. n - 1 : e.log["data"][p] = d.log["data"][p]
  <2>1. e.log["data"] = Append(d.log["data"], put)
    BY DEF Puts
  <2> HIDE DEF put
  <2> QED BY <1>2, <2>1
<1> HIDE DEF n, put
<1>5. \A p \in 1 .. n - 1 : d.log["data"][p] \in PutOps
  BY <1>2, <1>4
<1>6. \A p \in 1 .. n - 1 :
        /\ d.log["data"][p].item \in Items
        /\ d.log["data"][p].rev \in Nat /\ d.log["data"][p].rev > 0
  BY <1>5 DEF PutOps, Amounts
<1>7. /\ \A j \in Items : d.live[j].rev \in Nat /\ e.live[j].rev \in Nat /\ d.tombs[j] \in Nat
      /\ d.tombs[i] = 0
  <2>1. \A j \in Items : d.live[j].rev \in Nat /\ e.live[j].rev \in Nat /\ d.tombs[j] \in Nat
    BY <1>2
  <2>2. CASE d.live[i].rev > 0
    BY <2>1, <2>2 DEF DbInv, ItemsAreSettled
  <2>3. CASE i \notin ids
    BY <2>1, <2>3 DEF DbInv, ItemsAreSettled
  <2> QED BY <2>1, <2>2, <2>3 DEF Puts
<1>8. ItemsAreSettled(e, ids \cup {i})
  <2>1. \A j \in Items : d.tombs[j] > 0 => d.live[j].rev = 0
    BY DEF DbInv, ItemsAreSettled
  <2>2. \A j \in Items \ ids : d.live[j].rev = 0 /\ d.tombs[j] = 0
    BY DEF DbInv, ItemsAreSettled
  <2>3. \A j \in d.done : d.tombs[j] > 0
    BY DEF DbInv, ItemsAreSettled
  <2>4. \A j \in Items : e.tombs[j] > 0 => e.live[j].rev = 0
    BY <1>3, <1>7, <2>1
  <2>5. \A j \in Items \ (ids \cup {i}) : e.live[j].rev = 0 /\ e.tombs[j] = 0
    BY <1>3, <2>2
  <2>6. \A j \in e.done : e.tombs[j] > 0
    BY <1>3, <2>3
  <2> QED BY <2>4, <2>5, <2>6 DEF ItemsAreSettled
\* No earlier put is of a higher revision, or of another grant.
<1>9. \A p \in 1 .. n - 1 :
        LET op == d.log["data"][p] IN
        /\ op.rev <= Larger(d.live[op.item].rev, d.tombs[op.item])
        /\ d.live[op.item].rev > 0 => op.grant = d.live[op.item].grant
        /\ op.item = i => op.rev <= d.live[i].rev /\ d.live[i].rev > 0
  <2> TAKE p \in 1 .. n - 1
  <2> DEFINE op == d.log["data"][p]
  <2>1. /\ op.rev <= Larger(d.live[op.item].rev, d.tombs[op.item])
        /\ d.live[op.item].rev > 0 => op.grant = d.live[op.item].grant
    BY <1>4 DEF DbInv, PutsAreOfItems
  <2>2. op.item = i => op.rev <= d.live[i].rev /\ d.live[i].rev > 0
    BY <1>6, <1>7, <2>1 DEF Larger
  <2> QED BY <2>1, <2>2
<1>10. PutsAreOfItems(e)
  <2> SUFFICES ASSUME NEW p \in 1 .. n
               PROVE  LET op == e.log["data"][p] IN
                      /\ op.rev <= Larger(e.live[op.item].rev, e.tombs[op.item])
                      /\ e.live[op.item].rev > 0 => op.grant = e.live[op.item].grant
                      /\ \A q \in 1 .. n :
                           p < q /\ e.log["data"][q].item = op.item => op.rev <= e.log["data"][q].rev
    BY <1>4 DEF PutsAreOfItems
  <2> DEFINE op == e.log["data"][p]
  <2>1. CASE p = n
    <3>1. op = put
      BY <2>1 DEF put
    <3>2. ~ \E q \in 1 .. n : p < q
      BY <1>2, <2>1
    <3>3. e.live[i].rev <= Larger(e.live[i].rev, e.tombs[i])
      BY <1>3, <1>7 DEF Larger
    <3> QED BY <1>3, <3>1, <3>2, <3>3
  <2>2. CASE p \in 1 .. n - 1
    <3>1. /\ op = d.log["data"][p] /\ op.item \in Items /\ op.rev \in Nat
          /\ op.rev <= Larger(d.live[op.item].rev, d.tombs[op.item])
          /\ d.live[op.item].rev > 0 => op.grant = d.live[op.item].grant
          /\ op.item = i => op.rev <= d.live[i].rev /\ d.live[i].rev > 0
      BY <1>4, <1>6, <1>9, <2>2
    <3> HIDE DEF op
    <3>2. op.rev <= Larger(e.live[op.item].rev, e.tombs[op.item])
      BY <1>3, <1>7, <3>1 DEF Larger
    <3>3. e.live[op.item].rev > 0 => op.grant = e.live[op.item].grant
      BY <1>3, <3>1
    <3>4. ASSUME NEW q \in 1 .. n, p < q, e.log["data"][q].item = op.item
          PROVE  op.rev <= e.log["data"][q].rev
      <4>1. CASE q = n
        <5>1. e.log["data"][q] = put
          BY <4>1 DEF put
        <5>2. op.item = i
          BY <1>3, <3>4, <5>1
        <5>3. op.rev <= d.live[i].rev
          BY <3>1, <5>2
        <5> QED BY <1>3, <1>7, <3>1, <5>1, <5>3
      <4>2. CASE q \in 1 .. n - 1
        <5>1. e.log["data"][q] = d.log["data"][q]
          BY <1>4, <4>2
        <5> QED BY <1>4, <2>2, <3>1, <3>4, <4>2, <5>1 DEF DbInv, PutsAreOfItems
      <4> QED BY <1>2, <4>1, <4>2
    <3> QED BY <3>2, <3>3, <3>4 DEF op
  <2> QED BY <1>2, <2>1, <2>2
<1>11. DeletionsAreTold(e)
  <2>1. ASSUME NEW j \in Items, e.tombs[j] > 0
        PROVE  \E q \in DOMAIN e.log["control"] : TellsOf(e, j, e.log["control"][q])
    <3>1. j # i /\ d.tombs[j] > 0
      BY <1>3, <1>7, <2>1
    <3>2. PICK q \in DOMAIN d.log["control"] : TellsOf(d, j, d.log["control"][q])
      BY <3>1 DEF DbInv, DeletionsAreTold
    <3> DEFINE op == d.log["control"][q]
    <3>3. CASE op.type = "item.delete" /\ op.item = j /\ op.through = d.tombs[j]
      BY <1>3, <3>2, <3>3 DEF TellsOf
    <3>4. CASE /\ op.type = "scope.delete"
               /\ \A p \in DOMAIN d.log["data"] : d.log["data"][p].item = j => p <= op.through
      <4>1. ASSUME NEW p \in DOMAIN e.log["data"], e.log["data"][p].item = j
            PROVE  p <= op.through
        <5>1. p \in 1 .. n - 1
          <6>1. p # n
            BY <1>3, <3>1, <4>1 DEF put
          <6> QED BY <1>2, <1>4, <6>1
        <5> QED BY <1>4, <3>4, <4>1, <5>1
      <4> QED BY <1>3, <3>2, <3>4, <4>1 DEF TellsOf
    <3> QED BY <3>2, <3>3, <3>4 DEF TellsOf
  <2>2. ASSUME NEW q \in DOMAIN e.log["control"]
        PROVE  LET op == e.log["control"][q] IN
               /\ op.type = "item.delete" => op.through <= e.tombs[op.item]
               /\ op.type = "scope.delete" => op.through <= Len(e.log["data"])
               /\ op.type \in {"consent.put", "consent.revoke"} =>
                    op.rev <= Revision(e) /\ e.consent[op.rev] = op.type
    <3> DEFINE op == e.log["control"][q]
    <3>1. /\ op.type = "item.delete" => op.through <= d.tombs[op.item]
          /\ op.type = "scope.delete" => op.through <= Len(d.log["data"])
          /\ op.type \in {"consent.put", "consent.revoke"} =>
               op.rev <= Revision(d) /\ d.consent[op.rev] = op.type
      BY <1>3 DEF DbInv, DeletionsAreTold
    <3>2. op.type = "scope.delete" => op.through \in Nat
      <4>1. op \in ControlOps
        BY <1>2, <1>3
      <4> QED BY <4>1 DEF ControlOps, ConsentOps, DeleteOps, ScopeOps
    <3>3. op.type = "scope.delete" => op.through <= Len(e.log["data"])
      BY <1>2, <1>4, <3>1, <3>2 DEF n
    <3> QED BY <1>3, <3>1, <3>3
  <2> QED BY <2>1, <2>2 DEF DeletionsAreTold
<1>12. LiveIsTold(e)
  <2> SUFFICES ASSUME NEW j \in LiveItems(e)
               PROVE  /\ \E p \in DOMAIN e.log["data"] :
                           e.log["data"][p].item = j /\ e.log["data"][p].rev = e.live[j].rev
                      /\ \A p \in DOMAIN e.log["data"], q \in DOMAIN e.log["control"] :
                           e.log["data"][p].item = j /\ e.log["control"][q].type = "scope.delete" =>
                             e.log["control"][q].through < p
                      /\ e.live[j].grant \in 1 .. Revision(e)
                      /\ \A r \in e.live[j].grant .. Revision(e) : e.consent[r] = "consent.put"
    BY DEF LiveIsTold
  <2>0. j \in Items /\ e.live[j].rev > 0
    BY DEF LiveItems
  <2>1. d.live[j].rev > 0 =>
        /\ \E p \in DOMAIN d.log["data"] :
             d.log["data"][p].item = j /\ d.log["data"][p].rev = d.live[j].rev
        /\ \A p \in DOMAIN d.log["data"], q \in DOMAIN d.log["control"] :
             d.log["data"][p].item = j /\ d.log["control"][q].type = "scope.delete" =>
               d.log["control"][q].through < p
        /\ d.live[j].grant \in 1 .. Revision(d)
        /\ \A r \in d.live[j].grant .. Revision(d) : d.consent[r] = "consent.put"
    BY <2>0 DEF DbInv, LiveIsTold, LiveItems
  <2>2. j # i => d.live[j].rev > 0 /\ e.live[j] = d.live[j]
    BY <1>3, <2>0
  <2>3. \E p \in DOMAIN e.log["data"] :
          e.log["data"][p].item = j /\ e.log["data"][p].rev = e.live[j].rev
    <3>1. CASE j = i
      <4>1. n \in DOMAIN e.log["data"]
        BY <1>2, <1>4 DEF n
      <4> QED BY <1>3, <3>1, <4>1 DEF put
    <3>2. CASE j # i
      <4>1. PICK p \in 1 .. n - 1 :
              d.log["data"][p].item = j /\ d.log["data"][p].rev = d.live[j].rev
        BY <1>4, <2>1, <2>2, <3>2
      <4>2. p \in DOMAIN e.log["data"] /\ e.log["data"][p] = d.log["data"][p]
        BY <1>2, <1>4
      <4> QED BY <2>2, <3>2, <4>1, <4>2
    <3> QED BY <3>1, <3>2
  <2>4. ASSUME NEW p \in DOMAIN e.log["data"], NEW q \in DOMAIN e.log["control"],
               e.log["data"][p].item = j, e.log["control"][q].type = "scope.delete"
        PROVE  e.log["control"][q].through < p
    <3> DEFINE op == d.log["control"][q]
    <3>1. q \in DOMAIN d.log["control"] /\ e.log["control"][q] = op /\ op.type = "scope.delete"
      BY <1>3, <2>4
    <3>2. CASE p = n
      <4>1. op.through <= Len(d.log["data"])
        BY <3>1 DEF DbInv, DeletionsAreTold
      <4>2. op.through \in Nat
        <5>1. op \in ControlOps
          BY <1>2, <3>1
        <5> QED BY <3>1, <5>1 DEF ControlOps, ConsentOps, DeleteOps, ScopeOps
      <4> QED BY <1>2, <3>1, <3>2, <4>1, <4>2 DEF n
    <3>3. CASE p # n
      <4>1. p \in 1 .. n - 1 /\ d.log["data"][p].item = j
        BY <1>2, <1>4, <2>4, <3>3
      <4>2. d.live[j].rev > 0
        BY <1>9, <2>2, <4>1
      <4> QED BY <1>4, <2>1, <3>1, <4>1, <4>2
    <3> QED BY <3>2, <3>3
  <2>5. /\ e.live[j].grant \in 1 .. Revision(e)
        /\ \A r \in e.live[j].grant .. Revision(e) : e.consent[r] = "consent.put"
    <3>1. CASE j = i
      BY <1>2, <1>3, <3>1 DEF Active
    <3>2. CASE j # i
      BY <1>3, <2>1, <2>2, <3>2
    <3> QED BY <3>1, <3>2
  <2> QED BY <2>3, <2>4, <2>5
<1> QED BY <1>1, <1>8, <1>10, <1>11, <1>12 DEF DbInv

\* A function on 1 .. n is a sequence, and what joining two gives.
LEMMA Listed ==
    ASSUME NEW S, NEW n \in Nat, NEW f \in [1 .. n -> S]
    PROVE  f \in Seq(S) /\ Len(f) = n
OBVIOUS

LEMMA Joined ==
    ASSUME NEW S, NEW s \in Seq(S), NEW t \in Seq(S)
    PROVE  /\ s \o t \in Seq(S) /\ Len(s) \in Nat /\ Len(t) \in Nat
           /\ DOMAIN (s \o t) = 1 .. Len(s) + Len(t)
           /\ \A q \in 1 .. Len(s) : (s \o t)[q] = s[q]
           /\ \A k \in 1 .. Len(t) : (s \o t)[Len(s) + k] = t[k]
OBVIOUS

LEMMA TwoLanes ==
    ASSUME NEW S, NEW a \in S, NEW b \in S
    PROVE  [control |-> a, data |-> b] \in [Lanes -> S]
<1>1. DOMAIN [control |-> a, data |-> b] = Lanes
  BY DEF Lanes
<1> QED BY <1>1 DEF Lanes

\* What a new generation starts with.
LEMMA RedescribedParts ==
    ASSUME NEW d, NEW ids, DbInv(d, ids), changes \in Nat
    PROVE  LET e == Redescribed(d) IN
           /\ IsDb(e)
           /\ e.generation = d.generation + 1 /\ e.acked = [l \in Lanes |-> 0]
           /\ e.consent = d.consent /\ e.live = d.live /\ e.tombs = d.tombs /\ e.done = d.done
           /\ \A p \in DOMAIN e.log["data"] :
                LET op == e.log["data"][p] IN
                op.item \in Items /\ op.rev = d.live[op.item].rev /\ op.grant = d.live[op.item].grant
           /\ \A i \in LiveItems(d) : \E p \in DOMAIN e.log["data"] : e.log["data"][p].item = i
           /\ \A q \in DOMAIN e.log["control"] :
                LET op == e.log["control"][q] IN
                \/ op.type \in {"consent.put", "consent.revoke"}
                   /\ op.rev \in 1 .. Revision(d) /\ op.type = d.consent[op.rev]
                \/ op.type = "item.delete" /\ op.item \in Items /\ op.through = d.tombs[op.item]
           /\ \A i \in Buried(d) : \E q \in DOMAIN e.log["control"] :
                e.log["control"][q].type = "item.delete" /\ e.log["control"][q].item = i
<1> DEFINE e == Redescribed(d)
           R == Revision(d)
           live == SetToSeq(LiveItems(d))
           buried == SetToSeq(Buried(d))
           told == [r \in 1 .. R |-> Consent(d, r)]
           gone == [k \in 1 .. Len(buried) |-> Delete(d, buried[k])]
           puts == [k \in 1 .. Len(live) |-> PutItem(d, live[k])]
<1>1. /\ IsDb(d)
      /\ d.consent \in Seq({"consent.put", "consent.revoke"})
      /\ d.live \in [Items -> [rev : Nat, grant : Nat]] /\ d.tombs \in [Items -> Nat]
      /\ R \in Nat /\ d.generation \in Nat
  <2>1. IsDb(d)
    BY DEF DbInv
  <2> QED BY <2>1, DbParts
<1>2. IsFiniteSet(LiveItems(d)) /\ IsFiniteSet(Buried(d))
  BY SyncOutboxAssumption, FS_Subset DEF LiveItems, Buried
<1>3. /\ live \in Seq(LiveItems(d)) /\ buried \in Seq(Buried(d))
      /\ \A i \in LiveItems(d) : \E k \in DOMAIN live : live[k] = i
      /\ \A i \in Buried(d) : \E k \in DOMAIN buried : buried[k] = i
  BY <1>2, SeqOfSet
<1>4. /\ Len(live) \in Nat /\ Len(buried) \in Nat
      /\ DOMAIN live = 1 .. Len(live) /\ DOMAIN buried = 1 .. Len(buried)
  <2> HIDE DEF live, buried
  <2> QED BY <1>3
<1>5. e = [d EXCEPT !.generation = @ + 1,
                    !.acked = [l \in Lanes |-> 0],
                    !.log = [control |-> told \o gone, data |-> puts]]
  BY DEF Redescribed
<1>6. /\ e.generation = d.generation + 1 /\ e.acked = [l \in Lanes |-> 0]
      /\ e.consent = d.consent /\ e.live = d.live /\ e.tombs = d.tombs /\ e.done = d.done
      /\ e.log = [control |-> told \o gone, data |-> puts]
  <2> HIDE DEF e, told, gone, puts
  <2> QED BY <1>1, <1>5 DEF IsDb
<1>7. ASSUME NEW r \in 1 .. R
      PROVE  /\ told[r] \in ControlOps
             /\ told[r].type \in {"consent.put", "consent.revoke"}
             /\ told[r].rev = r /\ told[r].type = d.consent[r]
  <2>1. told[r] = [type |-> d.consent[r], stamp |-> changes, rev |-> r]
    BY DEF Consent
  <2>2. d.consent[r] \in {"consent.put", "consent.revoke"} /\ r \in Nat \ {0}
    BY <1>1 DEF Revision
  <2> HIDE DEF told
  <2> QED BY <2>1, <2>2 DEF ControlOps, ConsentOps, Amounts
<1>8. ASSUME NEW k \in 1 .. Len(buried)
      PROVE  /\ gone[k] \in ControlOps
             /\ gone[k].type = "item.delete" /\ gone[k].item = buried[k]
             /\ gone[k].item \in Items /\ gone[k].through = d.tombs[gone[k].item]
  <2>1. gone[k] = [type |-> "item.delete", stamp |-> changes, item |-> buried[k],
                   through |-> d.tombs[buried[k]]]
    BY DEF Delete
  <2>2. buried[k] \in Buried(d)
    <3> HIDE DEF buried
    <3> QED BY <1>3, <1>4
  <2>3. buried[k] \in Items /\ d.tombs[buried[k]] \in Nat \ {0}
    <3> HIDE DEF buried
    <3> QED BY <1>1, <2>2 DEF Buried
  <2> HIDE DEF gone, buried
  <2> QED BY <2>1, <2>3 DEF ControlOps, DeleteOps, Amounts
<1>9. ASSUME NEW k \in 1 .. Len(live)
      PROVE  /\ puts[k] \in PutOps
             /\ puts[k].item = live[k] /\ puts[k].item \in Items
             /\ puts[k].rev = d.live[puts[k].item].rev
             /\ puts[k].grant = d.live[puts[k].item].grant
  <2>1. puts[k] = [type |-> "item.put", stamp |-> changes, item |-> live[k],
                   rev |-> d.live[live[k]].rev, grant |-> d.live[live[k]].grant]
    BY DEF PutItem
  <2>2. live[k] \in LiveItems(d)
    <3> HIDE DEF live
    <3> QED BY <1>3, <1>4
  <2>3. live[k] \in Items /\ d.live[live[k]].rev \in Nat \ {0}
    <3> HIDE DEF live
    <3> QED BY <1>1, <2>2 DEF LiveItems
  <2>4. d.live[live[k]].grant \in Nat \ {0}
    <3> HIDE DEF live
    <3>1. d.live[live[k]].grant \in 1 .. R
      BY <2>2 DEF DbInv, LiveIsTold
    <3> QED BY <1>1, <3>1
  <2> HIDE DEF puts, live
  <2> QED BY <2>1, <2>3, <2>4 DEF PutOps, Amounts
<1>10. /\ told \in Seq(ControlOps) /\ gone \in Seq(ControlOps) /\ puts \in Seq(PutOps)
       /\ Len(told) = R /\ Len(gone) = Len(buried) /\ Len(puts) = Len(live)
  <2>1. told \in [1 .. R -> ControlOps]
    BY <1>7
  <2>2. gone \in [1 .. Len(buried) -> ControlOps]
    BY <1>8
  <2>3. puts \in [1 .. Len(live) -> PutOps]
    BY <1>9
  <2> HIDE DEF told, gone, puts, live, buried, R
  <2>4. told \in Seq(ControlOps) /\ Len(told) = R
    BY <1>1, <2>1, Listed
  <2>5. gone \in Seq(ControlOps) /\ Len(gone) = Len(buried)
    BY <1>4, <2>2, Listed
  <2>6. puts \in Seq(PutOps) /\ Len(puts) = Len(live)
    BY <1>4, <2>3, Listed
  <2> QED BY <2>4, <2>5, <2>6
<1> DEFINE control == told \o gone
<1>11. /\ control \in Seq(ControlOps) /\ DOMAIN control = 1 .. R + Len(buried)
       /\ \A q \in 1 .. R : control[q] = told[q]
       /\ \A k \in 1 .. Len(buried) : control[R + k] = gone[k]
  <2> HIDE DEF told, gone, puts, live, buried, R
  <2>1. told \in Seq(ControlOps) /\ gone \in Seq(ControlOps)
        /\ Len(told) = R /\ Len(gone) = Len(buried)
    BY <1>10
  <2> HIDE DEF control
  <2>2. control = told \o gone
    BY DEF control
  <2>3. told \o gone \in Seq(ControlOps)
    BY <2>1, Joined
  <2>4. /\ DOMAIN (told \o gone) = 1 .. Len(told) + Len(gone)
        /\ \A q \in 1 .. Len(told) : (told \o gone)[q] = told[q]
    BY <2>1, Joined
  <2>5. \A k \in 1 .. Len(gone) : (told \o gone)[Len(told) + k] = gone[k]
    BY <2>1, Joined
  <2> QED BY <2>1, <2>2, <2>3, <2>4, <2>5
<1> HIDE DEF e, told, gone, puts, live, buried, R, control
<1>12. e.log["control"] = control /\ e.log["data"] = puts
  BY <1>6 DEF control
<1>13. IsDb(e)
  <2>1. e.log \in [Lanes -> Seq(PutOps \cup ControlOps)]
    <3>1. control \in Seq(PutOps \cup ControlOps) /\ puts \in Seq(PutOps \cup ControlOps)
      BY <1>10, <1>11
    <3>2. e.log = [control |-> control, data |-> puts]
      BY <1>6 DEF control
    <3> QED BY <3>1, <3>2, TwoLanes
  <2>2. e.acked \in [Lanes -> Nat] /\ e.generation \in Nat
    BY <1>1, <1>6
  <2>3. e = [d EXCEPT !.generation = e.generation, !.acked = e.acked, !.log = e.log]
    BY <1>1, <1>5, <1>6 DEF IsDb, control
  <2> QED BY <1>1, <1>10, <1>11, <1>12, <2>1, <2>2, <2>3 DEF IsDb
<1>14. \A p \in DOMAIN e.log["data"] :
         LET op == e.log["data"][p] IN
         op.item \in Items /\ op.rev = d.live[op.item].rev /\ op.grant = d.live[op.item].grant
  <2>1. DOMAIN puts = 1 .. Len(live)
    BY <1>4, <1>10
  <2> QED BY <1>9, <1>12, <2>1
<1>15. \A i \in LiveItems(d) : \E p \in DOMAIN e.log["data"] : e.log["data"][p].item = i
  <2>1. DOMAIN puts = 1 .. Len(live)
    BY <1>4, <1>10
  <2> QED BY <1>3, <1>4, <1>9, <1>12, <2>1
<1>16. ASSUME NEW q \in DOMAIN e.log["control"]
       PROVE  LET op == e.log["control"][q] IN
              \/ op.type \in {"consent.put", "consent.revoke"}
                 /\ op.rev \in 1 .. Revision(d) /\ op.type = d.consent[op.rev]
              \/ op.type = "item.delete" /\ op.item \in Items /\ op.through = d.tombs[op.item]
  <2>1. q \in 1 .. R + Len(buried)
    BY <1>11, <1>12
  <2>2. CASE q \in 1 .. R
    BY <1>7, <1>11, <1>12, <2>2 DEF R
  <2>3. CASE q \notin 1 .. R
    <3>1. PICK k \in 1 .. Len(buried) : q = R + k
      <4>1. q - R \in 1 .. Len(buried) /\ q = R + (q - R)
        BY <1>1, <1>4, <2>1, <2>3
      <4> QED BY <4>1
    <3>2. e.log["control"][q] = gone[k]
      BY <1>11, <1>12, <3>1
    <3> QED BY <1>8, <3>2
  <2> QED BY <2>2, <2>3
<1>17. ASSUME NEW i \in Buried(d)
       PROVE  \E q \in DOMAIN e.log["control"] :
                e.log["control"][q].type = "item.delete" /\ e.log["control"][q].item = i
  <2>1. PICK k \in 1 .. Len(buried) : buried[k] = i
    BY <1>3, <1>4
  <2>2. R + k \in 1 .. R + Len(buried)
    BY <1>1, <1>4
  <2>3. e.log["control"][R + k] = gone[k] /\ R + k \in DOMAIN e.log["control"]
    BY <1>11, <1>12, <2>2
  <2> QED BY <1>8, <2>1, <2>3
<1> QED BY <1>6, <1>13, <1>14, <1>15, <1>16, <1>17 DEF e

LEMMA RedescribedKeeps ==
    ASSUME NEW d, NEW ids, DbInv(d, ids), changes \in Nat
    PROVE  DbInv(Redescribed(d), ids)
<1> DEFINE e == Redescribed(d)
<1>1. /\ IsDb(e)
      /\ e.consent = d.consent /\ e.live = d.live /\ e.tombs = d.tombs /\ e.done = d.done
      /\ \A p \in DOMAIN e.log["data"] :
           LET op == e.log["data"][p] IN
           op.item \in Items /\ op.rev = d.live[op.item].rev /\ op.grant = d.live[op.item].grant
      /\ \A i \in LiveItems(d) : \E p \in DOMAIN e.log["data"] : e.log["data"][p].item = i
      /\ \A q \in DOMAIN e.log["control"] :
           LET op == e.log["control"][q] IN
           \/ op.type \in {"consent.put", "consent.revoke"}
              /\ op.rev \in 1 .. Revision(d) /\ op.type = d.consent[op.rev]
           \/ op.type = "item.delete" /\ op.item \in Items /\ op.through = d.tombs[op.item]
      /\ \A i \in Buried(d) : \E q \in DOMAIN e.log["control"] :
           e.log["control"][q].type = "item.delete" /\ e.log["control"][q].item = i
  BY RedescribedParts
<1> HIDE DEF e
<1>2. /\ d.live \in [Items -> [rev : Nat, grant : Nat]] /\ d.tombs \in [Items -> Nat]
      /\ Revision(d) \in Nat
  <2>1. IsDb(d)
    BY DEF DbInv
  <2> QED BY <2>1, DbParts
<1>3. ItemsAreSettled(e, ids)
  BY <1>1 DEF DbInv, ItemsAreSettled
<1>4. PutsAreOfItems(e)
  <2> SUFFICES ASSUME NEW p \in DOMAIN e.log["data"]
               PROVE  LET op == e.log["data"][p] IN
                      /\ op.rev <= Larger(e.live[op.item].rev, e.tombs[op.item])
                      /\ e.live[op.item].rev > 0 => op.grant = e.live[op.item].grant
                      /\ \A q \in DOMAIN e.log["data"] :
                           p < q /\ e.log["data"][q].item = op.item => op.rev <= e.log["data"][q].rev
    BY DEF PutsAreOfItems
  <2> DEFINE op == e.log["data"][p]
  <2>1. op.item \in Items /\ op.rev = d.live[op.item].rev /\ op.grant = d.live[op.item].grant
    BY <1>1
  <2>2. d.live[op.item].rev \in Nat /\ d.tombs[op.item] \in Nat
    BY <1>2, <2>1
  <2>3. ASSUME NEW q \in DOMAIN e.log["data"], e.log["data"][q].item = op.item
        PROVE  op.rev <= e.log["data"][q].rev
    <3>1. e.log["data"][q].rev = d.live[op.item].rev
      BY <1>1, <2>3
    <3> QED BY <2>1, <2>2, <3>1
  <2>4. op.rev <= Larger(e.live[op.item].rev, e.tombs[op.item])
    <3> HIDE DEF op
    <3>1. e.live[op.item].rev = op.rev /\ e.tombs[op.item] = d.tombs[op.item]
      BY <1>1, <2>1
    <3>2. op.rev \in Nat /\ d.tombs[op.item] \in Nat
      BY <2>1, <2>2
    <3> QED BY <3>1, <3>2 DEF Larger
  <2> QED BY <1>1, <2>1, <2>3, <2>4
<1>5. DeletionsAreTold(e)
  <2>1. ASSUME NEW i \in Items, e.tombs[i] > 0
        PROVE  \E q \in DOMAIN e.log["control"] : TellsOf(e, i, e.log["control"][q])
    <3>1. PICK q \in DOMAIN e.log["control"] :
            e.log["control"][q].type = "item.delete" /\ e.log["control"][q].item = i
      BY <1>1, <2>1 DEF Buried
    <3>2. e.log["control"][q].through = e.tombs[i]
      BY <1>1, <3>1
    <3> QED BY <3>1, <3>2 DEF TellsOf
  <2>2. ASSUME NEW q \in DOMAIN e.log["control"]
        PROVE  LET op == e.log["control"][q] IN
               /\ op.type = "item.delete" => op.through <= e.tombs[op.item]
               /\ op.type = "scope.delete" => op.through <= Len(e.log["data"])
               /\ op.type \in {"consent.put", "consent.revoke"} =>
                    op.rev <= Revision(e) /\ e.consent[op.rev] = op.type
    <3> DEFINE op == e.log["control"][q]
    <3>1. CASE /\ op.type \in {"consent.put", "consent.revoke"}
               /\ op.rev \in 1 .. Revision(d) /\ op.type = d.consent[op.rev]
      BY <1>1, <1>2, <3>1 DEF Revision
    <3>2. CASE op.type = "item.delete" /\ op.item \in Items /\ op.through = d.tombs[op.item]
      <4>1. op.through <= e.tombs[op.item]
        BY <1>1, <1>2, <3>2
      <4> QED BY <3>2, <4>1
    <3> QED BY <1>1, <3>1, <3>2
  <2> QED BY <2>1, <2>2 DEF DeletionsAreTold
<1>6. LiveIsTold(e)
  <2> SUFFICES ASSUME NEW i \in LiveItems(e)
               PROVE  /\ \E p \in DOMAIN e.log["data"] :
                           e.log["data"][p].item = i /\ e.log["data"][p].rev = e.live[i].rev
                      /\ \A p \in DOMAIN e.log["data"], q \in DOMAIN e.log["control"] :
                           e.log["data"][p].item = i /\ e.log["control"][q].type = "scope.delete" =>
                             e.log["control"][q].through < p
                      /\ e.live[i].grant \in 1 .. Revision(e)
                      /\ \A r \in e.live[i].grant .. Revision(e) : e.consent[r] = "consent.put"
    BY DEF LiveIsTold
  <2>1. i \in LiveItems(d)
    BY <1>1 DEF LiveItems
  <2>2. \A q \in DOMAIN e.log["control"] : e.log["control"][q].type # "scope.delete"
    BY <1>1
  <2>3. /\ d.live[i].grant \in 1 .. Revision(d)
        /\ \A r \in d.live[i].grant .. Revision(d) : d.consent[r] = "consent.put"
    BY <2>1 DEF DbInv, LiveIsTold
  <2>4. Revision(e) = Revision(d)
    BY <1>1 DEF Revision
  <2> QED BY <1>1, <2>1, <2>2, <2>3, <2>4
<1> QED BY <1>1, <1>3, <1>4, <1>5, <1>6 DEF DbInv, e

\* A sequence with one more element.
LEMMA Longer ==
    ASSUME NEW S, NEW s \in Seq(S), NEW x \in S
    PROVE  /\ Append(s, x) \in Seq(S) /\ Len(s) \in Nat
           /\ DOMAIN s = 1 .. Len(s) /\ DOMAIN Append(s, x) = 1 .. Len(s) + 1
           /\ Len(Append(s, x)) = Len(s) + 1
           /\ \A p \in 1 .. Len(s) : Append(s, x)[p] = s[p]
           /\ Append(s, x)[Len(s) + 1] = x
           /\ Starts(s, Append(s, x))
<1>1. /\ Append(s, x) \in Seq(S) /\ Len(s) \in Nat
      /\ DOMAIN s = 1 .. Len(s) /\ DOMAIN Append(s, x) = 1 .. Len(s) + 1
      /\ Len(Append(s, x)) = Len(s) + 1
      /\ \A p \in 1 .. Len(s) : Append(s, x)[p] = s[p]
      /\ Append(s, x)[Len(s) + 1] = x
  OBVIOUS
<1>2. Starts(s, Append(s, x))
  BY <1>1 DEF Starts
<1> QED BY <1>1, <1>2

\* A new revision of the grant.
LEMMA RevisionParts ==
    ASSUME NEW d, IsDb(d), NEW s \in {"consent.put", "consent.revoke"}, changes \in Nat
    PROVE  LET c == [d EXCEPT !.consent = Append(@, s)]
               op == Consent(c, Revision(c))
               e == Enqueue(c, "control", op)
           IN  /\ IsDb(e)
               /\ e.generation = d.generation /\ e.acked = d.acked /\ e.live = d.live
               /\ e.tombs = d.tombs /\ e.done = d.done /\ e.log["data"] = d.log["data"]
               /\ e.consent = Append(d.consent, s)
               /\ e.log["control"] = Append(d.log["control"], op)
               /\ op \in ControlOps /\ op.type = s /\ op.rev = Revision(d) + 1
               /\ \A l \in Lanes \ {"control"} : e.log[l] = d.log[l]
<1> DEFINE c == [d EXCEPT !.consent = Append(@, s)]
           op == Consent(c, Revision(c))
           e == Enqueue(c, "control", op)
<1>1. /\ c.generation = d.generation /\ c.acked = d.acked /\ c.live = d.live
      /\ c.tombs = d.tombs /\ c.done = d.done /\ c.log = d.log
      /\ c.consent = Append(d.consent, s)
  BY DEF IsDb
<1>2. d.consent \in Seq({"consent.put", "consent.revoke"}) /\ Revision(d) \in Nat
  BY DbParts
<1>3. /\ Append(d.consent, s) \in Seq({"consent.put", "consent.revoke"})
      /\ Len(Append(d.consent, s)) = Revision(d) + 1
      /\ Append(d.consent, s)[Revision(d) + 1] = s
  BY <1>2, Longer DEF Revision
<1>4. Revision(c) = Revision(d) + 1
  <2> HIDE DEF c
  <2> QED BY <1>1, <1>3 DEF Revision
<1>5. IsDb(c)
  <2>1. c = [d EXCEPT !.consent = Append(d.consent, s)]
    OBVIOUS
  <2> HIDE DEF c
  <2> QED BY <1>1, <1>3, <2>1 DEF IsDb
<1>6. op = [type |-> s, stamp |-> changes, rev |-> Revision(d) + 1]
  <2> HIDE DEF c
  <2> QED BY <1>1, <1>3, <1>4 DEF Consent
<1>7. op \in ControlOps /\ op.type = s /\ op.rev = Revision(d) + 1
  <2> HIDE DEF op
  <2> QED BY <1>2, <1>6 DEF ControlOps, ConsentOps, Amounts
<1> HIDE DEF c, op
<1>8. /\ IsDb(e)
      /\ e.generation = c.generation /\ e.acked = c.acked /\ e.consent = c.consent
      /\ e.live = c.live /\ e.tombs = c.tombs /\ e.done = c.done
      /\ e.log["control"] = Append(c.log["control"], op)
      /\ \A l \in Lanes \ {"control"} : e.log[l] = c.log[l]
  BY <1>5, <1>7, EnqueueParts DEF Lanes
<1> HIDE DEF e
<1>9. "data" \in Lanes \ {"control"}
  BY DEF Lanes
<1> QED BY <1>1, <1>7, <1>8, <1>9 DEF c, op, e

\* Every item of the scope deleted, and told of.
LEMMA WithdrawnParts ==
    ASSUME NEW d, IsDb(d), changes \in Nat
    PROVE  LET e == WithScopeDeleted(d)
               op == e.log["control"][Len(d.log["control"]) + 1]
           IN  /\ IsDb(e)
               /\ e.generation = d.generation /\ e.acked = d.acked /\ e.done = d.done
               /\ e.consent = d.consent /\ e.log["data"] = d.log["data"]
               /\ e.log["control"] = Append(d.log["control"], op)
               /\ op \in ControlOps
               /\ op.type = "scope.delete" /\ op.through = Len(d.log["data"])
               /\ \A i \in Items : e.tombs[i] = Larger(d.tombs[i], d.live[i].rev)
                                   /\ e.live[i].rev = 0
<1> DEFINE c == [d EXCEPT !.tombs = [i \in Items |-> Larger(@[i], d.live[i].rev)],
                          !.live = [i \in Items |-> NoItem]]
           op == ScopeDelete(d)
           e == Enqueue(c, "control", op)
<1>1. e = WithScopeDeleted(d)
  BY DEF WithScopeDeleted
<1>2. /\ c.generation = d.generation /\ c.acked = d.acked /\ c.done = d.done
      /\ c.consent = d.consent /\ c.log = d.log
      /\ c.tombs = [i \in Items |-> Larger(d.tombs[i], d.live[i].rev)]
      /\ c.live = [i \in Items |-> NoItem]
  BY DEF IsDb
<1>3. /\ d.live \in [Items -> [rev : Nat, grant : Nat]] /\ d.tombs \in [Items -> Nat]
      /\ d.log["control"] \in Seq(ControlOps) /\ Len(d.log["data"]) \in Nat
      /\ Len(d.log["control"]) \in Nat
  BY DbParts
<1>4. c.tombs \in [Items -> Nat] /\ c.live \in [Items -> [rev : Nat, grant : Nat]]
  <2> HIDE DEF c
  <2> QED BY <1>2, <1>3 DEF Larger, NoItem
<1>5. IsDb(c)
  <2>1. c = [d EXCEPT !.tombs = c.tombs, !.live = c.live]
    BY <1>2
  <2> HIDE DEF c
  <2> QED BY <1>2, <1>4, <2>1 DEF IsDb
<1>6. op = [type |-> "scope.delete", stamp |-> changes, through |-> Len(d.log["data"])]
  BY DEF ScopeDelete
<1>7. op \in ControlOps /\ op.type = "scope.delete" /\ op.through = Len(d.log["data"])
  <2> HIDE DEF op
  <2> QED BY <1>3, <1>6 DEF ControlOps, ScopeOps
<1> HIDE DEF c, op
<1>8. /\ IsDb(e)
      /\ e.generation = c.generation /\ e.acked = c.acked /\ e.consent = c.consent
      /\ e.live = c.live /\ e.tombs = c.tombs /\ e.done = c.done
      /\ e.log["control"] = Append(c.log["control"], op)
      /\ \A l \in Lanes \ {"control"} : e.log[l] = c.log[l]
  BY <1>5, <1>7, EnqueueParts DEF Lanes
<1> HIDE DEF e
<1>9. "data" \in Lanes \ {"control"}
  BY DEF Lanes
<1>10. e.log["control"][Len(d.log["control"]) + 1] = op
  BY <1>2, <1>3, <1>7, <1>8, Longer
<1>11. \A i \in Items : e.tombs[i] = Larger(d.tombs[i], d.live[i].rev) /\ e.live[i].rev = 0
  BY <1>2, <1>8 DEF NoItem
<1> QED BY <1>1, <1>2, <1>7, <1>8, <1>9, <1>10, <1>11

LEMMA GrantBuries ==
    ASSUME IsDb(db), changes \in Nat, GrantConsent
    PROVE  Buries(db, db', {})
<1> DEFINE op == Consent(WithRevision("consent.put"), Revision(WithRevision("consent.put")))
<1>1. /\ IsDb(db')
      /\ db'.generation = db.generation /\ db'.acked = db.acked /\ db'.live = db.live
      /\ db'.tombs = db.tombs /\ db'.done = db.done /\ db'.log["data"] = db.log["data"]
      /\ db'.consent = Append(db.consent, "consent.put")
      /\ db'.log["control"] = Append(db.log["control"], op)
      /\ op \in ControlOps /\ op.type = "consent.put" /\ op.rev = Revision(db) + 1
  BY RevisionParts DEF GrantConsent, Commit, WithRevision
<1> HIDE DEF op
<1>2. /\ db.consent \in Seq({"consent.put", "consent.revoke"})
      /\ db.log["control"] \in Seq(ControlOps)
  BY DbParts
<1>3. /\ Starts(db.log["control"], db'.log["control"])
      /\ DOMAIN db'.log["control"] \ DOMAIN db.log["control"] = {Len(db.log["control"]) + 1}
      /\ db'.log["control"][Len(db.log["control"]) + 1] = op
  BY <1>1, <1>2, Longer
<1>4. /\ Starts(db.consent, db'.consent)
      /\ DOMAIN db'.consent \ DOMAIN db.consent = {Revision(db) + 1}
      /\ db'.consent[Revision(db) + 1] = "consent.put"
      /\ Revision(db)' = Revision(db) + 1 /\ Revision(db) \in Nat
  <2>1. "consent.put" \in {"consent.put", "consent.revoke"}
    OBVIOUS
  <2> QED BY <1>1, <1>2, <2>1, Longer DEF Revision
<1>5. \A q \in DOMAIN db'.log["control"] \ DOMAIN db.log["control"] :
        LET o == db'.log["control"][q] IN
        o.type = "consent.put" /\ o.rev <= Revision(db)' /\ db'.consent[o.rev] = o.type
  <2> SUFFICES /\ op.type = "consent.put" /\ op.rev <= Revision(db)'
               /\ db'.consent[op.rev] = op.type
    BY <1>3
  <2>1. Revision(db) + 1 <= Revision(db)'
    BY <1>4
  <2> QED BY <1>1, <1>4, <2>1
<1> QED BY <1>1, <1>3, <1>4, <1>5 DEF Buries, Revision

LEMMA RevokeBuries ==
    ASSUME IsDb(db), changes \in Nat, RevokeConsent
    PROVE  Buries(db, db', Items)
<1> DEFINE op == Consent(WithRevision("consent.revoke"), Revision(WithRevision("consent.revoke")))
           d == Enqueue(WithRevision("consent.revoke"), "control", op)
           fence == db'.log["control"][Len(d.log["control"]) + 1]
<1>1. /\ IsDb(d)
      /\ d.generation = db.generation /\ d.acked = db.acked /\ d.live = db.live
      /\ d.tombs = db.tombs /\ d.done = db.done /\ d.log["data"] = db.log["data"]
      /\ d.consent = Append(db.consent, "consent.revoke")
      /\ d.log["control"] = Append(db.log["control"], op)
      /\ op \in ControlOps /\ op.type = "consent.revoke" /\ op.rev = Revision(db) + 1
  BY RevisionParts DEF WithRevision
<1>2. db' = WithScopeDeleted(d)
  BY DEF RevokeConsent, Commit
<1> HIDE DEF d, op
<1>3. /\ IsDb(db')
      /\ db'.generation = d.generation /\ db'.acked = d.acked /\ db'.done = d.done
      /\ db'.consent = d.consent /\ db'.log["data"] = d.log["data"]
      /\ db'.log["control"] = Append(d.log["control"], fence)
      /\ fence \in ControlOps /\ fence.type = "scope.delete" /\ fence.through = Len(d.log["data"])
      /\ \A i \in Items : db'.tombs[i] = Larger(d.tombs[i], d.live[i].rev) /\ db'.live[i].rev = 0
  BY <1>1, <1>2, WithdrawnParts
<1> HIDE DEF fence
<1>4. /\ db.consent \in Seq({"consent.put", "consent.revoke"})
      /\ db.log["control"] \in Seq(ControlOps) /\ d.log["control"] \in Seq(ControlOps)
      /\ Len(db.log["control"]) \in Nat /\ Len(db.log["data"]) \in Nat
  BY <1>1, DbParts
<1> DEFINE n == Len(db.log["control"])
<1>5. /\ Len(d.log["control"]) = n + 1 /\ DOMAIN db.log["control"] = 1 .. n
      /\ \A q \in 1 .. n : d.log["control"][q] = db.log["control"][q]
      /\ d.log["control"][n + 1] = op
  BY <1>1, <1>4, Longer
<1>6. /\ DOMAIN db'.log["control"] = 1 .. n + 2 /\ Len(db'.log["control"]) = n + 2
      /\ \A q \in 1 .. n + 1 : db'.log["control"][q] = d.log["control"][q]
      /\ db'.log["control"][n + 2] = fence
  <2> DEFINE m == Len(d.log["control"])
  <2>1. /\ DOMAIN db'.log["control"] = 1 .. m + 1 /\ Len(db'.log["control"]) = m + 1
        /\ \A q \in 1 .. m : db'.log["control"][q] = d.log["control"][q]
        /\ db'.log["control"][m + 1] = fence
    BY <1>3, <1>4, Longer
  <2>2. m = n + 1 /\ m + 1 = n + 2 /\ n \in Nat
    BY <1>4, <1>5
  <2> HIDE DEF m, n
  <2> QED BY <2>1, <2>2
<1> HIDE DEF n
<1>7. Starts(db.log["control"], db'.log["control"])
  <2>1. n \in Nat /\ Len(db.log["control"]) = n
    BY <1>4 DEF n
  <2>2. \A q \in 1 .. n : q \in 1 .. n + 1
    BY <2>1
  <2>3. \A q \in DOMAIN db.log["control"] : db'.log["control"][q] = db.log["control"][q]
    BY <1>5, <1>6, <2>2
  <2>4. Len(db.log["control"]) <= Len(db'.log["control"])
    BY <1>6, <2>1
  <2> QED BY <2>3, <2>4 DEF Starts
<1>8. /\ Starts(db.consent, db'.consent)
      /\ db'.consent[Revision(db) + 1] = "consent.revoke"
      /\ Revision(db)' = Revision(db) + 1 /\ Revision(db) \in Nat
  <2>1. "consent.revoke" \in {"consent.put", "consent.revoke"}
    OBVIOUS
  <2> QED BY <1>1, <1>3, <1>4, <2>1, Longer DEF Revision
<1>9. n \in Nat /\ n + 2 \in DOMAIN db'.log["control"]
  BY <1>4, <1>6 DEF n
<1>10. \A i \in Items : TellsOf(db', i, db'.log["control"][n + 2])
  <2>1. \A p \in DOMAIN db'.log["data"] : p <= Len(db'.log["data"])
    BY <1>3, DbParts
  <2> QED BY <1>1, <1>3, <1>6, <2>1 DEF TellsOf
<1>11. ASSUME NEW q \in DOMAIN db'.log["control"] \ DOMAIN db.log["control"]
       PROVE  LET o == db'.log["control"][q] IN
              \/ o.type = "scope.delete" /\ o.through = Len(db.log["data"])
              \/ o.type = "consent.revoke" /\ o.rev <= Revision(db)' /\ db'.consent[o.rev] = o.type
  <2>1. q = n + 1 \/ q = n + 2
    BY <1>5, <1>6, <1>9, <1>11
  <2>2. CASE q = n + 1
    <3>1. db'.log["control"][q] = op
      <4>1. q \in 1 .. n + 1
        BY <1>9, <2>2
      <4> QED BY <1>5, <1>6, <2>2, <4>1
    <3>2. op.rev <= Revision(db)' /\ db'.consent[op.rev] = op.type
      BY <1>1, <1>8
    <3> QED BY <1>1, <3>1, <3>2
  <2>3. CASE q = n + 2
    BY <1>1, <1>3, <1>6, <2>3
  <2> QED BY <2>1, <2>2, <2>3
<1> QED
  <2>1. \A q \in DOMAIN db'.log["control"] \ DOMAIN db.log["control"] :
          LET o == db'.log["control"][q] IN
          \/ o.type = "item.delete" /\ o.through <= db'.tombs[o.item]
          \/ o.type = "scope.delete" /\ o.through = Len(db.log["data"]) /\ Items = Items
          \/ /\ o.type \in {"consent.put", "consent.revoke"}
             /\ o.rev <= Revision(db') /\ db'.consent[o.rev] = o.type
    BY <1>11 DEF Revision
  <2> QED BY <1>1, <1>3, <1>7, <1>8, <1>9, <1>10, <2>1 DEF Buries, Revision

LEMMA DeleteScopeBuries ==
    ASSUME IsDb(db), changes \in Nat, DeleteScope
    PROVE  Buries(db, db', Items)
<1> DEFINE n == Len(db.log["control"])
           fence == db'.log["control"][n + 1]
<1>1. /\ IsDb(db')
      /\ db'.generation = db.generation /\ db'.acked = db.acked /\ db'.done = db.done
      /\ db'.consent = db.consent /\ db'.log["data"] = db.log["data"]
      /\ db'.log["control"] = Append(db.log["control"], fence)
      /\ fence \in ControlOps /\ fence.type = "scope.delete" /\ fence.through = Len(db.log["data"])
      /\ \A i \in Items : db'.tombs[i] = Larger(db.tombs[i], db.live[i].rev) /\ db'.live[i].rev = 0
  BY WithdrawnParts DEF DeleteScope, Commit
<1> HIDE DEF fence
<1>2. db.log["control"] \in Seq(ControlOps) /\ Len(db.consent) \in Nat
  BY DbParts
<1>3. /\ Starts(db.log["control"], db'.log["control"])
      /\ DOMAIN db'.log["control"] \ DOMAIN db.log["control"] = {n + 1}
      /\ db'.log["control"][n + 1] = fence
  BY <1>1, <1>2, Longer
<1>4. Starts(db.consent, db'.consent) /\ DOMAIN db'.consent \ DOMAIN db.consent = {}
  BY <1>1, <1>2 DEF Starts
<1>5. \A i \in Items : TellsOf(db', i, db'.log["control"][n + 1])
  <2>1. \A p \in DOMAIN db'.log["data"] : p <= Len(db'.log["data"])
    BY <1>1, DbParts
  <2> QED BY <1>1, <1>3, <2>1 DEF TellsOf
<1>6. \A q \in DOMAIN db'.log["control"] \ DOMAIN db.log["control"] :
        LET o == db'.log["control"][q] IN
        o.type = "scope.delete" /\ o.through = Len(db.log["data"])
  BY <1>1, <1>3
<1>7. n + 1 \in DOMAIN db'.log["control"]
  BY <1>3
<1> QED BY <1>1, <1>3, <1>4, <1>5, <1>6, <1>7 DEF Buries

LEMMA DeleteItemBuries ==
    ASSUME IsDb(db), changes \in Nat, NEW i \in Items, DeleteItem(i)
    PROVE  Buries(db, db', {i})
<1> DEFINE d == [db EXCEPT !.tombs[i] = Larger(@, db.live[i].rev), !.live[i] = NoItem]
           op == Delete(d, i)
           n == Len(db.log["control"])
<1>1. /\ db.live \in [Items -> [rev : Nat, grant : Nat]] /\ db.tombs \in [Items -> Nat]
      /\ db.log["control"] \in Seq(ControlOps) /\ n \in Nat
      /\ db.live[i].rev > 0
  BY DbParts DEF DeleteItem, LiveItems
<1>2. /\ d.generation = db.generation /\ d.acked = db.acked /\ d.done = db.done
      /\ d.consent = db.consent /\ d.log = db.log
      /\ d.tombs = [db.tombs EXCEPT ![i] = Larger(db.tombs[i], db.live[i].rev)]
      /\ d.live = [db.live EXCEPT ![i] = NoItem]
  BY DEF IsDb
<1>3. /\ d.tombs \in [Items -> Nat] /\ d.live \in [Items -> [rev : Nat, grant : Nat]]
      /\ d.tombs[i] = Larger(db.tombs[i], db.live[i].rev) /\ d.tombs[i] > 0 /\ d.live[i].rev = 0
      /\ \A j \in Items \ {i} : d.tombs[j] = db.tombs[j] /\ d.live[j] = db.live[j]
  <2> HIDE DEF d
  <2> QED BY <1>1, <1>2 DEF Larger, NoItem
<1>4. IsDb(d)
  <2>1. d = [db EXCEPT !.tombs = d.tombs, !.live = d.live]
    BY <1>2
  <2> HIDE DEF d
  <2> QED BY <1>2, <1>3, <2>1 DEF IsDb
<1>5. op = [type |-> "item.delete", stamp |-> changes, item |-> i, through |-> d.tombs[i]]
  <2> HIDE DEF d
  <2> QED BY DEF Delete
<1>6. /\ op \in ControlOps /\ op.type = "item.delete" /\ op.item = i /\ op.through = d.tombs[i]
  <2> HIDE DEF op, d
  <2>1. d.tombs[i] \in Amounts
    BY <1>3 DEF Amounts
  <2> QED BY <1>5, <2>1 DEF ControlOps, DeleteOps
<1>7. db' = Enqueue(d, "control", op)
  BY DEF DeleteItem, Commit
<1> HIDE DEF d, op
<1>8. /\ IsDb(db')
      /\ db'.generation = d.generation /\ db'.acked = d.acked /\ db'.consent = d.consent
      /\ db'.live = d.live /\ db'.tombs = d.tombs /\ db'.done = d.done
      /\ db'.log["control"] = Append(d.log["control"], op)
      /\ \A l \in Lanes \ {"control"} : db'.log[l] = d.log[l]
  BY <1>4, <1>6, <1>7, EnqueueParts DEF Lanes
<1>9. "data" \in Lanes \ {"control"}
  BY DEF Lanes
<1>10. /\ Starts(db.log["control"], db'.log["control"])
       /\ DOMAIN db'.log["control"] \ DOMAIN db.log["control"] = {n + 1}
       /\ db'.log["control"][n + 1] = op /\ n + 1 \in DOMAIN db'.log["control"]
  BY <1>1, <1>2, <1>6, <1>8, Longer
<1>11. Starts(db.consent, db'.consent) /\ DOMAIN db'.consent \ DOMAIN db.consent = {}
  <2>1. Len(db.consent) \in Nat
    BY DbParts
  <2> QED BY <1>2, <1>8, <2>1 DEF Starts
<1>12. TellsOf(db', i, db'.log["control"][n + 1])
  BY <1>6, <1>8, <1>10 DEF TellsOf
<1>13. \A q \in DOMAIN db'.log["control"] \ DOMAIN db.log["control"] :
         LET o == db'.log["control"][q] IN
         o.type = "item.delete" /\ o.through <= db'.tombs[o.item]
  <2>1. op.through <= db'.tombs[i]
    BY <1>3, <1>6, <1>8
  <2> QED BY <1>6, <1>10, <2>1
<1>14. db'.log["data"] = db.log["data"]
  BY <1>2, <1>8, <1>9
<1>15. /\ \A j \in {i} : db'.tombs[j] = Larger(db.tombs[j], db.live[j].rev) /\ db'.live[j].rev = 0
       /\ \A j \in Items \ {i} : db'.tombs[j] = db.tombs[j] /\ db'.live[j] = db.live[j]
  BY <1>2, <1>3, <1>8
<1>16. \A j \in {i} : \E q \in DOMAIN db'.log["control"] : TellsOf(db', j, db'.log["control"][q])
  BY <1>10, <1>12
<1>17. \A r \in DOMAIN db'.consent \ DOMAIN db.consent : db'.consent[r] = "consent.put"
  BY <1>11
<1> QED BY <1>2, <1>8, <1>10, <1>11, <1>13, <1>14, <1>15, <1>16, <1>17 DEF Buries

LEMMA WithItemParts ==
    ASSUME IsDb(db), changes \in Nat, NEW i \in Items, NEW item \in [rev : Amounts, grant : Amounts]
    PROVE  LET e == WithItem(i, item)
               put == e.log["data"][Len(db.log["data"]) + 1]
           IN  /\ IsDb(e)
               /\ e.generation = db.generation /\ e.acked = db.acked /\ e.done = db.done
               /\ e.consent = db.consent /\ e.tombs = db.tombs
               /\ e.log["control"] = db.log["control"]
               /\ e.log["data"] = Append(db.log["data"], put)
               /\ put \in PutOps
               /\ put.item = i /\ put.rev = item.rev /\ put.grant = item.grant
               /\ e.live[i] = item
               /\ \A j \in Items \ {i} : e.live[j] = db.live[j]
<1> DEFINE d == [db EXCEPT !.live[i] = item]
           op == PutItem(d, i)
           e == WithItem(i, item)
<1>1. /\ db.live \in [Items -> [rev : Nat, grant : Nat]]
      /\ db.log["data"] \in Seq(PutOps) /\ Len(db.log["data"]) \in Nat
  BY DbParts
<1>2. /\ d.generation = db.generation /\ d.acked = db.acked /\ d.done = db.done
      /\ d.consent = db.consent /\ d.log = db.log /\ d.tombs = db.tombs
      /\ d.live = [db.live EXCEPT ![i] = item]
  BY DEF IsDb
<1>3. /\ d.live[i] = item
      /\ \A j \in Items \ {i} : d.live[j] = db.live[j]
      /\ d.live \in [Items -> [rev : Nat, grant : Nat]]
  <2>1. item \in [rev : Nat, grant : Nat]
    BY DEF Amounts
  <2> HIDE DEF d
  <2> QED BY <1>1, <1>2, <2>1
<1>4. IsDb(d)
  <2>1. d = [db EXCEPT !.live = d.live]
    BY <1>2
  <2> HIDE DEF d
  <2> QED BY <1>2, <1>3, <2>1 DEF IsDb
<1>5. op = [type |-> "item.put", stamp |-> changes, item |-> i,
            rev |-> item.rev, grant |-> item.grant]
  <2> HIDE DEF d
  <2> QED BY <1>3 DEF PutItem
<1>6. op \in PutOps /\ op.item = i /\ op.rev = item.rev /\ op.grant = item.grant
  <2> HIDE DEF op, d
  <2> QED BY <1>5 DEF PutOps
<1>7. e = Enqueue(d, "data", op)
  BY DEF WithItem
<1> HIDE DEF d, op, e
<1>8. /\ IsDb(e)
      /\ e.generation = d.generation /\ e.acked = d.acked /\ e.consent = d.consent
      /\ e.live = d.live /\ e.tombs = d.tombs /\ e.done = d.done
      /\ e.log["data"] = Append(d.log["data"], op)
      /\ \A l \in Lanes \ {"data"} : e.log[l] = d.log[l]
  <2>1. "data" \in Lanes /\ "data" # "control"
    BY DEF Lanes
  <2> QED BY <1>4, <1>6, <1>7, <2>1, EnqueueParts
<1>9. "control" \in Lanes \ {"data"}
  BY DEF Lanes
<1>10. e.log["data"][Len(db.log["data"]) + 1] = op
  BY <1>1, <1>2, <1>6, <1>8, Longer
<1> QED BY <1>2, <1>3, <1>6, <1>8, <1>9, <1>10 DEF e

LEMMA CapturePuts ==
    ASSUME DbInv(db, drawn), changes \in Nat, NEW i \in Items, CaptureDecision(i)
    PROVE  Puts(db, db', i, drawn)
<1> DEFINE item == [rev |-> 1, grant |-> Revision(db)]
<1>1. IsDb(db) /\ Revision(db) \in Nat /\ db.live \in [Items -> [rev : Nat, grant : Nat]]
  <2>1. IsDb(db)
    BY DEF DbInv
  <2> QED BY <2>1, DbParts
<1>2. item \in [rev : Amounts, grant : Amounts] /\ item.rev = 1 /\ item.grant = Revision(db)
  BY <1>1 DEF Amounts, CaptureDecision, Active
<1>3. db' = WithItem(i, item) /\ i \notin drawn /\ Active(db)
  BY DEF CaptureDecision, Commit
<1>4. db.live[i].rev = 0
  BY <1>3 DEF DbInv, ItemsAreSettled
<1> HIDE DEF item
<1> DEFINE put == db'.log["data"][Len(db.log["data"]) + 1]
<1>5. /\ IsDb(db')
      /\ db'.generation = db.generation /\ db'.acked = db.acked /\ db'.done = db.done
      /\ db'.consent = db.consent /\ db'.tombs = db.tombs
      /\ db'.log["control"] = db.log["control"]
      /\ db'.log["data"] = Append(db.log["data"], put)
      /\ put.item = i /\ put.rev = item.rev /\ put.grant = item.grant
      /\ db'.live[i] = item
      /\ \A j \in Items \ {i} : db'.live[j] = db.live[j]
  BY <1>1, <1>2, <1>3, WithItemParts
<1> HIDE DEF put
<1> QED BY <1>2, <1>3, <1>4, <1>5 DEF Puts, put

LEMMA RevisePuts ==
    ASSUME DbInv(db, drawn), changes \in Nat, NEW i \in Items, ReviseDecision(i)
    PROVE  Puts(db, db', i, drawn)
<1> DEFINE item == [db.live[i] EXCEPT !.rev = @ + 1]
<1>1. IsDb(db) /\ Revision(db) \in Nat /\ db.live \in [Items -> [rev : Nat, grant : Nat]]
  <2>1. IsDb(db)
    BY DEF DbInv
  <2> QED BY <2>1, DbParts
<1>2. /\ db.live[i].rev \in Nat /\ db.live[i].rev > 0
      /\ db.live[i].grant = Revision(db) /\ Active(db) /\ Revision(db) > 0
  BY <1>1 DEF ReviseDecision, Active
<1>3. item \in [rev : Amounts, grant : Amounts]
      /\ item.rev = db.live[i].rev + 1 /\ item.grant = db.live[i].grant
  BY <1>1, <1>2 DEF Amounts
<1>4. db' = WithItem(i, item)
  BY DEF ReviseDecision, Commit
<1> HIDE DEF item
<1> DEFINE put == db'.log["data"][Len(db.log["data"]) + 1]
<1>5. /\ IsDb(db')
      /\ db'.generation = db.generation /\ db'.acked = db.acked /\ db'.done = db.done
      /\ db'.consent = db.consent /\ db'.tombs = db.tombs
      /\ db'.log["control"] = db.log["control"]
      /\ db'.log["data"] = Append(db.log["data"], put)
      /\ put.item = i /\ put.rev = item.rev /\ put.grant = item.grant
      /\ db'.live[i] = item
      /\ \A j \in Items \ {i} : db'.live[j] = db.live[j]
  <2>1. IsDb(db) /\ item \in [rev : Amounts, grant : Amounts]
    BY <1>1, <1>3
  <2> QED BY <1>4, <2>1, WithItemParts
<1> HIDE DEF put
<1> QED BY <1>2, <1>3, <1>5 DEF Puts, put

-----------------------------------------------------------------------------
(* What the destination knows of a database that goes on                   *)

\* The database e is d later on in the same generation, the cursor and the
\* receipts being the same.
GoesOn(d, e) ==
    /\ IsDb(d) /\ IsDb(e)
    /\ e.generation = d.generation /\ e.acked = d.acked /\ e.done = d.done
    /\ \A l \in Lanes : Starts(d.log[l], e.log[l])
    /\ Starts(d.consent, e.consent)
    /\ \A i \in Items :
         /\ Larger(d.live[i].rev, d.tombs[i]) <= Larger(e.live[i].rev, e.tombs[i])
         /\ d.tombs[i] <= e.tombs[i]
         /\ i \in d.done => e.tombs[i] = d.tombs[i]
         /\ e.live[i].rev > 0 =>
              d.live[i].rev > 0 \/ \A p \in DOMAIN d.log["data"] : d.log["data"][p].item # i

LEMMA BuriesGoesOn ==
    ASSUME NEW d, NEW e, NEW ids, NEW gone \in SUBSET Items, DbInv(d, ids), Buries(d, e, gone)
    PROVE  GoesOn(d, e)
<1>1. IsDb(d) /\ IsDb(e)
  BY DEF DbInv, Buries
<1>2. /\ d.live \in [Items -> [rev : Nat, grant : Nat]] /\ d.tombs \in [Items -> Nat]
      /\ e.live \in [Items -> [rev : Nat, grant : Nat]] /\ e.tombs \in [Items -> Nat]
      /\ d.done \in SUBSET Items /\ Len(d.log["data"]) \in Nat
  BY <1>1, DbParts
<1>3. /\ \A i \in gone : e.tombs[i] = Larger(d.tombs[i], d.live[i].rev) /\ e.live[i].rev = 0
      /\ \A i \in Items \ gone : e.tombs[i] = d.tombs[i] /\ e.live[i] = d.live[i]
  BY DEF Buries
<1>4. ASSUME NEW i \in Items
      PROVE  /\ Larger(d.live[i].rev, d.tombs[i]) <= Larger(e.live[i].rev, e.tombs[i])
             /\ d.tombs[i] <= e.tombs[i]
             /\ i \in d.done => e.tombs[i] = d.tombs[i]
             /\ e.live[i].rev > 0 => d.live[i].rev > 0
  <2>1. d.live[i].rev \in Nat /\ d.tombs[i] \in Nat /\ e.live[i].rev \in Nat /\ e.tombs[i] \in Nat
    BY <1>2
  <2>2. i \in d.done => d.live[i].rev = 0
    BY <1>2 DEF DbInv, ItemsAreSettled
  <2> QED BY <1>3, <2>1, <2>2 DEF Larger
<1>5. \A l \in Lanes : Starts(d.log[l], e.log[l])
  <2>1. Starts(d.log["data"], e.log["data"])
    BY <1>2 DEF Buries, Starts
  <2> QED BY <2>1 DEF Buries, Lanes
<1> QED BY <1>1, <1>4, <1>5 DEF Buries, GoesOn

LEMMA PutsGoesOn ==
    ASSUME NEW d, NEW e, NEW ids, NEW i \in Items, DbInv(d, ids), Puts(d, e, i, ids)
    PROVE  GoesOn(d, e)
<1>1. IsDb(d) /\ IsDb(e)
  BY DEF DbInv, Puts
<1>2. /\ d.live \in [Items -> [rev : Nat, grant : Nat]] /\ d.tombs \in [Items -> Nat]
      /\ e.live \in [Items -> [rev : Nat, grant : Nat]] /\ e.tombs \in [Items -> Nat]
      /\ d.log["data"] \in Seq(PutOps) /\ Len(d.log["data"]) \in Nat
      /\ Len(d.log["control"]) \in Nat /\ Revision(d) \in Nat
  BY <1>1, DbParts
<1>3. /\ e.tombs = d.tombs /\ e.live[i].rev = d.live[i].rev + 1
      /\ \A j \in Items \ {i} : e.live[j] = d.live[j]
  BY DEF Puts
<1>4. ASSUME d.live[i].rev = 0
      PROVE  \A p \in DOMAIN d.log["data"] : d.log["data"][p].item # i
  <2>1. i \notin ids
    BY <1>4 DEF Puts
  <2>2. d.tombs[i] = 0
    BY <2>1 DEF DbInv, ItemsAreSettled
  <2> SUFFICES ASSUME NEW p \in DOMAIN d.log["data"], d.log["data"][p].item = i
               PROVE  FALSE
    OBVIOUS
  <2>3. d.log["data"][p].rev <= Larger(d.live[i].rev, d.tombs[i])
    BY DEF DbInv, PutsAreOfItems
  <2>4. d.log["data"][p].rev \in Nat \ {0}
    <3>1. d.log["data"][p] \in PutOps
      BY <1>2
    <3> QED BY <3>1 DEF PutOps, Amounts
  <2> QED BY <1>4, <2>2, <2>3, <2>4 DEF Larger
<1>5. ASSUME NEW j \in Items
      PROVE  /\ Larger(d.live[j].rev, d.tombs[j]) <= Larger(e.live[j].rev, e.tombs[j])
             /\ d.tombs[j] <= e.tombs[j]
             /\ j \in d.done => e.tombs[j] = d.tombs[j]
             /\ e.live[j].rev > 0 =>
                  d.live[j].rev > 0 \/ \A p \in DOMAIN d.log["data"] : d.log["data"][p].item # j
  <2>1. d.live[j].rev \in Nat /\ d.tombs[j] \in Nat /\ e.live[j].rev \in Nat
    BY <1>2
  <2>2. d.live[j].rev <= e.live[j].rev
    BY <1>3, <2>1
  <2>3. Larger(d.live[j].rev, d.tombs[j]) <= Larger(e.live[j].rev, e.tombs[j])
    BY <1>3, <2>1, <2>2 DEF Larger
  <2>4. e.live[j].rev > 0 =>
          d.live[j].rev > 0 \/ \A p \in DOMAIN d.log["data"] : d.log["data"][p].item # j
    BY <1>3, <1>4, <2>1
  <2> QED BY <1>3, <2>1, <2>3, <2>4
<1>6. Starts(d.log["control"], e.log["control"]) /\ Starts(d.consent, e.consent)
  BY <1>2 DEF Puts, Starts, Revision
<1>7. Starts(d.log["data"], e.log["data"])
  <2> DEFINE put == e.log["data"][Len(d.log["data"]) + 1]
  <2>1. e.log["data"] = Append(d.log["data"], put)
    BY DEF Puts
  <2> HIDE DEF put
  <2>2. \A p \in DOMAIN d.log["data"] : e.log["data"][p] = d.log["data"][p]
    BY <1>2, <2>1
  <2>3. Len(d.log["data"]) <= Len(e.log["data"])
    BY <1>2, <2>1
  <2> QED BY <2>2, <2>3 DEF Starts
<1>8. e.generation = d.generation /\ e.acked = d.acked /\ e.done = d.done
  BY DEF Puts
<1>9. \A l \in Lanes : Starts(d.log[l], e.log[l])
  BY <1>6, <1>7 DEF Lanes
<1> QED BY <1>1, <1>5, <1>6, <1>8, <1>9 DEF GoesOn

\* The parts of what the destination knows.
LEMMA KnownParts ==
    ASSUME NEW k \in Destinations
    PROVE  /\ k.generation \in Nat /\ k.fence \in Nat
           /\ k.got \in [Lanes -> Seq(Decisions)]
           /\ k.consent.rev \in Nat
           /\ k.live \in [Items -> [rev : Nat, at : Nat]] /\ k.tombs \in [Items -> Nat]
           /\ \A l \in Lanes : k.got[l] \in Seq(Decisions) /\ Len(k.got[l]) \in Nat
                               /\ DOMAIN k.got[l] = 1 .. Len(k.got[l])
BY DEF Destinations

LEMMA KnownOfGoesOn ==
    ASSUME NEW d, NEW e, NEW k \in Destinations, NEW ids, DbInv(d, ids), GoesOn(d, e)
    PROVE  /\ DecidedIsLog(d, k) => DecidedIsLog(e, k)
           /\ DecidedIsLog(d, k) /\ ControlIsApplied(d, k) => ControlIsApplied(e, k)
           /\ DecidedIsLog(d, k) /\ HoldsWhatIsPut(d, k) => HoldsWhatIsPut(e, k)
<1> SUFFICES ASSUME DecidedIsLog(d, k)
             PROVE  /\ DecidedIsLog(e, k)
                    /\ ControlIsApplied(d, k) => ControlIsApplied(e, k)
                    /\ HoldsWhatIsPut(d, k) => HoldsWhatIsPut(e, k)
  OBVIOUS
<1>1. IsDb(d) /\ IsDb(e)
  BY DEF GoesOn
<1>2. /\ d.live \in [Items -> [rev : Nat, grant : Nat]] /\ d.tombs \in [Items -> Nat]
      /\ e.live \in [Items -> [rev : Nat, grant : Nat]] /\ e.tombs \in [Items -> Nat]
      /\ d.done \in SUBSET Items /\ d.log["data"] \in Seq(PutOps)
      /\ Revision(d) \in Nat /\ Revision(e) \in Nat
      /\ Len(d.log["data"]) \in Nat /\ Len(d.log["control"]) \in Nat
      /\ Len(e.log["data"]) \in Nat /\ Len(e.log["control"]) \in Nat
      /\ DOMAIN d.log["data"] = 1 .. Len(d.log["data"])
      /\ DOMAIN d.log["control"] = 1 .. Len(d.log["control"])
      /\ DOMAIN e.log["control"] = 1 .. Len(e.log["control"])
  BY <1>1, DbParts
<1>3. /\ k.fence \in Nat /\ k.consent.rev \in Nat
      /\ k.live \in [Items -> [rev : Nat, at : Nat]] /\ k.tombs \in [Items -> Nat]
      /\ \A l \in Lanes : Len(k.got[l]) \in Nat /\ DOMAIN k.got[l] = 1 .. Len(k.got[l])
  BY KnownParts
<1>4. \A l \in Lanes :
        /\ Len(d.log[l]) <= Len(e.log[l])
        /\ \A p \in DOMAIN d.log[l] : e.log[l][p] = d.log[l][p]
  BY DEF GoesOn, Starts
<1>5. \A l \in Lanes :
        /\ Len(k.got[l]) <= Len(d.log[l])
        /\ \A p \in DOMAIN k.got[l] : p \in DOMAIN d.log[l] /\ e.log[l][p] = d.log[l][p]
  <2> TAKE l \in Lanes
  <2>1. Len(k.got[l]) <= Len(d.log[l])
    BY DEF DecidedIsLog
  <2>2. DOMAIN d.log[l] = 1 .. Len(d.log[l]) /\ Len(d.log[l]) \in Nat
    BY <1>2 DEF Lanes
  <2> QED BY <1>3, <1>4, <2>1, <2>2
<1>6. DecidedIsLog(e, k)
  <2> SUFFICES ASSUME NEW l \in Lanes
               PROVE  /\ Len(k.got[l]) <= Len(e.log[l])
                      /\ \A p \in DOMAIN k.got[l] :
                           /\ k.got[l][p].stamp = e.log[l][p].stamp
                           /\ l = "control" => k.got[l][p].ok = TRUE
                      /\ e.acked[l] <= Len(k.got[l])
    BY DEF DecidedIsLog
  <2>1. Len(d.log[l]) \in Nat /\ Len(e.log[l]) \in Nat /\ Len(k.got[l]) \in Nat
    BY <1>2, <1>3 DEF Lanes
  <2>2. Len(k.got[l]) <= Len(e.log[l])
    BY <1>4, <1>5, <2>1
  <2>3. /\ \A p \in DOMAIN k.got[l] :
             /\ k.got[l][p].stamp = d.log[l][p].stamp
             /\ l = "control" => k.got[l][p].ok = TRUE
        /\ d.acked[l] <= Len(k.got[l])
    BY DEF DecidedIsLog
  <2> QED BY <1>5, <2>2, <2>3 DEF GoesOn
<1>7. "data" \in Lanes /\ "control" \in Lanes
  BY DEF Lanes
<1>8. ASSUME ControlIsApplied(d, k)
      PROVE  ControlIsApplied(e, k)
  <2>1. \A q \in DOMAIN k.got["control"] :
          LET op == e.log["control"][q] IN
          /\ op.type = "item.delete" => op.through <= k.tombs[op.item]
          /\ op.type = "scope.delete" =>
               /\ op.through <= k.fence
               /\ \A i \in Items : k.live[i].rev > 0 => op.through < k.live[i].at
    BY <1>5, <1>7, <1>8 DEF ControlIsApplied
  <2>2. ASSUME k.fence > 0
        PROVE  \E q \in DOMAIN e.log["control"] :
                 e.log["control"][q].type = "scope.delete" /\ e.log["control"][q].through = k.fence
    <3>1. PICK q \in DOMAIN d.log["control"] :
            d.log["control"][q].type = "scope.delete" /\ d.log["control"][q].through = k.fence
      BY <1>8, <2>2 DEF ControlIsApplied
    <3>2. q \in DOMAIN e.log["control"] /\ e.log["control"][q] = d.log["control"][q]
      BY <1>2, <1>4, <1>7
    <3> QED BY <3>1, <3>2
  <2>3. \A i \in Items :
          /\ k.live[i].rev \notin 1 .. k.tombs[i]
          /\ k.live[i].rev > 0 /\ k.live[i].at > 0 =>
               k.live[i].at \in DOMAIN k.got["data"] /\ e.log["data"][k.live[i].at].item = i
    BY <1>5, <1>7, <1>8 DEF ControlIsApplied
  <2>4. \A i \in e.done : e.tombs[i] <= k.tombs[i]
    BY <1>2, <1>8 DEF ControlIsApplied, GoesOn
  <2> QED BY <2>1, <2>2, <2>3, <2>4 DEF ControlIsApplied
<1>9. ASSUME HoldsWhatIsPut(d, k)
      PROVE  HoldsWhatIsPut(e, k)
  <2>1. ASSUME NEW i \in Items
        PROVE  k.live[i].rev <= Larger(e.live[i].rev, e.tombs[i]) /\ k.tombs[i] <= e.tombs[i]
    <3>1. /\ k.live[i].rev <= Larger(d.live[i].rev, d.tombs[i]) /\ k.tombs[i] <= d.tombs[i]
          /\ Larger(d.live[i].rev, d.tombs[i]) <= Larger(e.live[i].rev, e.tombs[i])
          /\ d.tombs[i] <= e.tombs[i]
      BY <1>9 DEF HoldsWhatIsPut, GoesOn
    <3>2. /\ d.live[i].rev \in Nat /\ e.live[i].rev \in Nat /\ d.tombs[i] \in Nat /\ e.tombs[i] \in Nat
          /\ k.live[i].rev \in Nat /\ k.tombs[i] \in Nat
      BY <1>2, <1>3
    <3>3. Larger(d.live[i].rev, d.tombs[i]) \in Nat /\ Larger(e.live[i].rev, e.tombs[i]) \in Nat
      BY <3>2 DEF Larger
    <3> QED BY <3>1, <3>2, <3>3
  <2>2. k.consent.rev <= Revision(e)
    <3>1. k.consent.rev <= Revision(d) /\ Revision(d) <= Revision(e)
      BY <1>9 DEF HoldsWhatIsPut, GoesOn, Starts, Revision
    <3> QED BY <1>2, <1>3, <3>1
  <2>3. k.consent.type = IF k.consent.rev = 0 THEN "none" ELSE e.consent[k.consent.rev]
    <3>1. k.consent.type = IF k.consent.rev = 0 THEN "none" ELSE d.consent[k.consent.rev]
      BY <1>9 DEF HoldsWhatIsPut
    <3>2. k.consent.rev # 0 => k.consent.rev \in DOMAIN d.consent
      <4>1. k.consent.rev <= Revision(d) /\ DOMAIN d.consent = 1 .. Revision(d)
        BY <1>1, <1>9, DbParts DEF HoldsWhatIsPut, Revision
      <4> QED BY <1>2, <1>3, <4>1
    <3> QED BY <3>1, <3>2 DEF GoesOn, Starts
  <2>4. ASSUME NEW p \in DOMAIN k.got["data"],
               LET op == e.log["data"][p] IN e.live[op.item].rev > 0
        PROVE  LET op == e.log["data"][p] IN
               op.rev <= k.live[op.item].rev /\ p <= k.live[op.item].at
    <3>1. p \in DOMAIN d.log["data"] /\ e.log["data"][p] = d.log["data"][p]
      BY <1>5, <1>7
    <3>2. d.log["data"][p].item \in Items
      <4>1. d.log["data"][p] \in PutOps
        BY <1>2, <3>1
      <4> QED BY <4>1 DEF PutOps
    <3>3. d.live[d.log["data"][p].item].rev > 0
      BY <2>4, <3>1, <3>2 DEF GoesOn
    <3> QED BY <1>9, <3>1, <3>3 DEF HoldsWhatIsPut
  <2> QED BY <2>1, <2>2, <2>3, <2>4 DEF HoldsWhatIsPut
<1> QED BY <1>6, <1>8, <1>9

-----------------------------------------------------------------------------
(* A new generation                                                        *)

\* What the destination knows of a generation it has seen nothing of.
LEMMA KnownOfNew ==
    ASSUME NEW d, NEW k \in Destinations, IsDb(d),
           d.acked = [l \in Lanes |-> 0],
           k.got = [l \in Lanes |-> <<>>], k.fence = 0,
           \A i \in Items : k.live[i].at = 0 /\ k.live[i].rev \notin 1 .. k.tombs[i],
           \A i \in d.done : d.tombs[i] <= k.tombs[i]
    PROVE  DecidedIsLog(d, k) /\ ControlIsApplied(d, k)
<1>1. \A l \in Lanes : k.got[l] = <<>> /\ d.acked[l] = 0 /\ Len(d.log[l]) \in Nat
  BY DbParts DEF Lanes
<1>2. \A l \in Lanes : DOMAIN k.got[l] = {} /\ Len(k.got[l]) = 0
  BY <1>1
<1>3. DecidedIsLog(d, k)
  BY <1>1, <1>2 DEF DecidedIsLog
<1>4. DOMAIN k.got["control"] = {}
  BY <1>2 DEF Lanes
<1> QED BY <1>3, <1>4 DEF ControlIsApplied

\* The destination as it takes a generation that it has not seen.
Renewed(k, generation) ==
    [k EXCEPT !.generation = generation,
              !.got = [l \in Lanes |-> <<>>],
              !.fence = 0,
              !.live = [i \in Items |-> [@[i] EXCEPT !.at = 0]]]

LEMMA RenewedParts ==
    ASSUME NEW k \in Destinations, NEW g \in Nat
    PROVE  LET n == Renewed(k, g) IN
           /\ n \in Destinations /\ n.generation = g
           /\ n.got = [l \in Lanes |-> <<>>] /\ n.fence = 0
           /\ n.tombs = k.tombs /\ n.consent = k.consent
           /\ \A i \in Items : n.live[i].rev = k.live[i].rev /\ n.live[i].at = 0
<1> DEFINE n == Renewed(k, g)
<1>1. k.live \in [Items -> [rev : Nat, at : Nat]]
  BY KnownParts
<1>2. /\ n.generation = g /\ n.got = [l \in Lanes |-> <<>>] /\ n.fence = 0
      /\ n.tombs = k.tombs /\ n.consent = k.consent
      /\ n.live = [i \in Items |-> [k.live[i] EXCEPT !.at = 0]]
  BY DEF Renewed, Destinations
<1>3. n = [k EXCEPT !.generation = n.generation, !.got = n.got, !.fence = n.fence, !.live = n.live]
  BY <1>2 DEF Renewed
<1> HIDE DEF n
<1>4. ASSUME NEW i \in Items
      PROVE  /\ n.live[i].rev = k.live[i].rev /\ n.live[i].at = 0
             /\ n.live[i] \in [rev : Nat, at : Nat]
  <2>1. k.live[i] \in [rev : Nat, at : Nat]
    BY <1>1
  <2>2. n.live[i] = [k.live[i] EXCEPT !.at = 0]
    BY <1>2
  <2> QED BY <2>1, <2>2
<1>5. n.live \in [Items -> [rev : Nat, at : Nat]]
  <2>1. n.live = [i \in Items |-> n.live[i]]
    BY <1>2
  <2> QED BY <1>4, <2>1
<1>6. n.got \in [Lanes -> Seq(Decisions)]
  <2>1. <<>> \in Seq(Decisions)
    OBVIOUS
  <2> QED BY <1>2, <2>1
<1>7. n \in Destinations
  <2>1. n.generation \in Nat /\ n.fence \in Nat
    BY <1>2
  <2> QED BY <1>3, <1>5, <1>6, <2>1 DEF Destinations
<1> QED BY <1>2, <1>4, <1>7 DEF n

LEMMA KnownIs ==
    ASSUME OutboxTypeOK, IsDb(db)
    PROVE  /\ KnownDestination \in Destinations
           /\ KnownDestination.generation = db.generation
           /\ KnownDestination.tombs = dest.tombs /\ KnownDestination.consent = dest.consent
           /\ \A i \in Items : KnownDestination.live[i].rev = dest.live[i].rev
           /\ dest.generation = db.generation => KnownDestination = dest
           /\ dest.generation # db.generation => KnownDestination = Renewed(dest, db.generation)
<1>1. dest \in Destinations /\ db.generation \in Nat
  BY DbParts DEF OutboxTypeOK
<1>2. dest.generation = db.generation => KnownDestination = dest
  BY DEF KnownDestination
<1>3. dest.generation # db.generation => KnownDestination = Renewed(dest, db.generation)
  BY DEF KnownDestination, Renewed
<1> QED BY <1>1, <1>2, <1>3, RenewedParts

\* A new generation of a database d whose receipts the destination gave.
LEMMA NewGenerationKnown ==
    ASSUME OutboxTypeOK, NEW d, NEW ids, DbInv(d, ids), changes \in Nat,
           IsDb(db), ControlIsApplied(db, KnownDestination),
           dest.generation <= d.generation,
           \A i \in d.done : d.tombs[i] <= dest.tombs[i],
           db' = Redescribed(d), dest' = dest
    PROVE  /\ KnownDestination' = Renewed(dest, d.generation + 1)
           /\ DecidedIsLog(db', KnownDestination') /\ ControlIsApplied(db', KnownDestination')
<1> DEFINE e == Redescribed(d)
           n == Renewed(dest, d.generation + 1)
<1>1. /\ IsDb(e) /\ e.generation = d.generation + 1 /\ e.acked = [l \in Lanes |-> 0]
      /\ e.tombs = d.tombs /\ e.done = d.done
  BY RedescribedParts
<1>2. dest \in Destinations /\ dest.generation \in Nat /\ d.generation \in Nat
  <2>1. dest \in Destinations
    BY DEF OutboxTypeOK
  <2>2. IsDb(d)
    BY DEF DbInv
  <2> QED BY <2>1, <2>2, KnownParts, DbParts
<1>3. /\ n \in Destinations
      /\ n.got = [l \in Lanes |-> <<>>] /\ n.fence = 0 /\ n.tombs = dest.tombs
      /\ \A i \in Items : n.live[i].rev = dest.live[i].rev /\ n.live[i].at = 0
  <2>1. d.generation + 1 \in Nat
    BY <1>2
  <2> QED BY <1>2, <2>1, RenewedParts
<1> HIDE DEF e, n
<1>4. db' = e
  BY DEF e
<1>5. KnownDestination' = n
  <2>1. dest.generation # d.generation + 1
    BY <1>2
  <2> QED BY <1>1, <1>4, <2>1 DEF KnownDestination, Renewed, n
<1>6. \A i \in Items : n.live[i].rev \notin 1 .. n.tombs[i]
  <2>1. /\ KnownDestination.tombs = dest.tombs
        /\ \A i \in Items : KnownDestination.live[i].rev = dest.live[i].rev
    BY KnownIs
  <2>2. \A i \in Items : KnownDestination.live[i].rev \notin 1 .. KnownDestination.tombs[i]
    BY DEF ControlIsApplied
  <2> QED BY <1>3, <2>1, <2>2
<1>7. \A i \in e.done : e.tombs[i] <= n.tombs[i]
  BY <1>1, <1>3
<1>8. DecidedIsLog(e, n) /\ ControlIsApplied(e, n)
  BY <1>1, <1>3, <1>6, <1>7, KnownOfNew
<1> QED BY <1>4, <1>5, <1>8 DEF n

LEMMA NewGenerationHolds ==
    ASSUME OutboxTypeOK, NEW ids, DbInv(db, ids), changes \in Nat,
           HoldsWhatIsPut(db, KnownDestination), db' = Redescribed(db),
           KnownDestination' = Renewed(dest, db.generation + 1)
    PROVE  HoldsWhatIsPut(db', KnownDestination')
<1> DEFINE e == Redescribed(db)
           n == Renewed(dest, db.generation + 1)
<1>1. /\ IsDb(e) /\ e.consent = db.consent /\ e.live = db.live /\ e.tombs = db.tombs
  BY RedescribedParts
<1>2. dest \in Destinations /\ db.generation \in Nat /\ IsDb(db)
  <2>1. IsDb(db)
    BY DEF DbInv
  <2> QED BY <2>1, DbParts DEF OutboxTypeOK
<1>3. /\ n.got = [l \in Lanes |-> <<>>] /\ n.tombs = dest.tombs /\ n.consent = dest.consent
      /\ \A i \in Items : n.live[i].rev = dest.live[i].rev
  <2>1. db.generation + 1 \in Nat
    BY <1>2
  <2> QED BY <1>2, <2>1, RenewedParts
<1>4. /\ KnownDestination.tombs = dest.tombs /\ KnownDestination.consent = dest.consent
      /\ \A i \in Items : KnownDestination.live[i].rev = dest.live[i].rev
  BY <1>2, KnownIs
<1>5. DOMAIN n.got["data"] = {}
  BY <1>3 DEF Lanes
<1> HIDE DEF e, n
<1>6. HoldsWhatIsPut(e, n)
  BY <1>1, <1>3, <1>4, <1>5 DEF HoldsWhatIsPut, Revision
<1> QED BY <1>6 DEF e, n

-----------------------------------------------------------------------------
(* The destination decides                                                 *)

LEMMA Element ==
    ASSUME NEW S, NEW s \in Seq(S), NEW q \in DOMAIN s
    PROVE  s[q] \in S /\ q \in Nat /\ q > 0
OBVIOUS

LEMMA DecidedParts ==
    ASSUME NEW k \in Destinations, NEW lane \in Lanes, NEW x \in Decisions
    PROVE  LET n == [k EXCEPT !.got[lane] = Append(@, x)] IN
           /\ n \in Destinations
           /\ n.generation = k.generation /\ n.fence = k.fence /\ n.consent = k.consent
           /\ n.live = k.live /\ n.tombs = k.tombs
           /\ n.got[lane] = Append(k.got[lane], x)
           /\ \A l \in Lanes \ {lane} : n.got[l] = k.got[l]
<1> DEFINE n == [k EXCEPT !.got[lane] = Append(@, x)]
<1>1. k.got \in [Lanes -> Seq(Decisions)]
  BY KnownParts
<1>2. n = [k EXCEPT !.got = [k.got EXCEPT ![lane] = Append(k.got[lane], x)]]
  OBVIOUS
<1>3. /\ n.generation = k.generation /\ n.fence = k.fence /\ n.consent = k.consent
      /\ n.live = k.live /\ n.tombs = k.tombs
      /\ n.got = [k.got EXCEPT ![lane] = Append(k.got[lane], x)]
  <2> HIDE DEF n
  <2> QED BY <1>2 DEF Destinations
<1>4. Append(k.got[lane], x) \in Seq(Decisions)
  BY <1>1
<1>5. /\ n.got \in [Lanes -> Seq(Decisions)]
      /\ n.got[lane] = Append(k.got[lane], x)
      /\ \A l \in Lanes \ {lane} : n.got[l] = k.got[l]
  <2> HIDE DEF n
  <2> QED BY <1>1, <1>3, <1>4
<1>6. n \in Destinations
  <2>1. n = [k EXCEPT !.got = n.got]
    BY <1>2, <1>3
  <2> HIDE DEF n
  <2> QED BY <1>5, <2>1 DEF Destinations
<1> QED BY <1>3, <1>5, <1>6

\* The destination that decided on one operation more of a lane.
Further(d, k, n, lane) ==
    LET p == Len(k.got[lane]) + 1 IN
    /\ n \in Destinations
    /\ p <= Len(d.log[lane])
    /\ n.got[lane] = Append(k.got[lane], n.got[lane][p])
    /\ n.got[lane][p].stamp = d.log[lane][p].stamp
    /\ lane = "control" => n.got[lane][p].ok = TRUE
    /\ \A l \in Lanes \ {lane} : n.got[l] = k.got[l]

LEMMA FurtherParts ==
    ASSUME NEW d, NEW k \in Destinations, NEW n, NEW lane \in Lanes,
           IsDb(d), DecidedIsLog(d, k), Further(d, k, n, lane)
    PROVE  LET p == Len(k.got[lane]) + 1 IN
           /\ DecidedIsLog(d, n)
           /\ p \in Nat /\ p > 0 /\ p \in DOMAIN d.log[lane]
           /\ DOMAIN n.got[lane] = DOMAIN k.got[lane] \cup {p}
           /\ \A q \in DOMAIN k.got[lane] : q < p
           /\ \A l \in Lanes : DOMAIN k.got[l] \subseteq DOMAIN n.got[l]
           /\ \A l \in Lanes : DOMAIN k.got[l] \subseteq DOMAIN d.log[l]
<1> DEFINE m == Len(k.got[lane])
           p == m + 1
           x == n.got[lane][p]
<1>1. /\ \A l \in Lanes : /\ k.got[l] \in Seq(Decisions) /\ Len(k.got[l]) \in Nat
                          /\ DOMAIN k.got[l] = 1 .. Len(k.got[l])
      /\ \A l \in Lanes : /\ n.got[l] \in Seq(Decisions) /\ Len(n.got[l]) \in Nat
                          /\ DOMAIN n.got[l] = 1 .. Len(n.got[l])
      /\ \A l \in Lanes : Len(d.log[l]) \in Nat /\ DOMAIN d.log[l] = 1 .. Len(d.log[l])
      /\ \A l \in Lanes : d.acked[l] \in Nat
  <2>1. \A l \in Lanes : Len(d.log[l]) \in Nat /\ DOMAIN d.log[l] = 1 .. Len(d.log[l])
    BY DbParts DEF Lanes
  <2>2. n \in Destinations
    BY DEF Further
  <2> QED BY <2>1, <2>2, KnownParts, DbParts
<1>2. n.got[lane] = Append(k.got[lane], x)
  BY DEF Further
<1> HIDE DEF x
<1>3. /\ Len(n.got[lane]) = m + 1 /\ n.got[lane][p] = x
      /\ \A q \in 1 .. m : n.got[lane][q] = k.got[lane][q]
  BY <1>1, <1>2
<1>4. p \in Nat /\ p > 0 /\ p \in DOMAIN d.log[lane] /\ m \in Nat
  BY <1>1 DEF Further
<1>5. DOMAIN n.got[lane] = DOMAIN k.got[lane] \cup {p} /\ \A q \in DOMAIN k.got[lane] : q < p
  <2> HIDE DEF m
  <2>1. DOMAIN n.got[lane] = 1 .. m + 1 /\ DOMAIN k.got[lane] = 1 .. m
    BY <1>1, <1>3 DEF m
  <2> QED BY <1>4, <2>1
<1>6. \A l \in Lanes : DOMAIN k.got[l] \subseteq DOMAIN n.got[l]
  BY <1>5 DEF Further
<1>7. \A l \in Lanes : Len(k.got[l]) <= Len(d.log[l]) /\ d.acked[l] <= Len(k.got[l])
  BY DEF DecidedIsLog
<1>8. \A l \in Lanes : DOMAIN k.got[l] \subseteq DOMAIN d.log[l]
  BY <1>1, <1>7
<1>9. DecidedIsLog(d, n)
  <2> SUFFICES ASSUME NEW l \in Lanes
               PROVE  /\ Len(n.got[l]) <= Len(d.log[l])
                      /\ \A q \in DOMAIN n.got[l] :
                           /\ n.got[l][q].stamp = d.log[l][q].stamp
                           /\ l = "control" => n.got[l][q].ok = TRUE
                      /\ d.acked[l] <= Len(n.got[l])
    BY DEF DecidedIsLog
  <2>1. \A q \in DOMAIN k.got[l] :
          /\ k.got[l][q].stamp = d.log[l][q].stamp
          /\ l = "control" => k.got[l][q].ok = TRUE
    BY DEF DecidedIsLog
  <2>2. CASE l # lane
    BY <1>7, <2>1, <2>2 DEF Further
  <2>3. CASE l = lane
    <3>1. Len(n.got[l]) <= Len(d.log[l]) /\ d.acked[l] <= Len(n.got[l])
      <4>1. m + 1 <= Len(d.log[lane])
        BY DEF Further
      <4> QED BY <1>1, <1>3, <1>7, <2>3, <4>1
    <3>2. ASSUME NEW q \in DOMAIN n.got[l]
          PROVE  /\ n.got[l][q].stamp = d.log[l][q].stamp
                 /\ l = "control" => n.got[l][q].ok = TRUE
      <4>1. CASE q = p
        BY <2>3, <4>1 DEF Further
      <4>2. CASE q \in DOMAIN k.got[l]
        <5>1. n.got[l][q] = k.got[l][q]
          BY <1>1, <1>3, <2>3, <4>2
        <5> QED BY <2>1, <4>2, <5>1
      <4> QED BY <1>5, <2>3, <3>2, <4>1, <4>2
    <3> QED BY <3>1, <3>2
  <2> QED BY <2>2, <2>3
<1> QED BY <1>4, <1>5, <1>6, <1>8, <1>9

\* A put is taken that is not refused.
PutTaken(d, k, n, p) ==
    LET op == d.log["data"][p] IN
    /\ n.fence = k.fence /\ n.tombs = k.tombs /\ n.consent = k.consent
    /\ ~ (op.rev <= k.tombs[op.item]) /\ ~ (p <= k.fence)
    /\ n.live = [k.live EXCEPT ![op.item] = [rev |-> op.rev, at |-> p]]

LEMMA TakesPut ==
    ASSUME NEW d, NEW ids, NEW k \in Destinations, NEW n, DbInv(d, ids),
           DecidedIsLog(d, k), ControlIsApplied(d, k), Further(d, k, n, "data"),
           PutTaken(d, k, n, Len(k.got["data"]) + 1)
    PROVE  /\ ControlIsApplied(d, n)
           /\ HoldsWhatIsPut(d, k) => HoldsWhatIsPut(d, n)
<1> DEFINE p == Len(k.got["data"]) + 1
           op == d.log["data"][p]
<1>1. IsDb(d) /\ "data" \in Lanes /\ "control" \in Lanes \ {"data"}
  BY DEF DbInv, Lanes
<1>2. /\ p \in Nat /\ p > 0 /\ p \in DOMAIN d.log["data"]
      /\ DOMAIN n.got["data"] = DOMAIN k.got["data"] \cup {p}
      /\ \A q \in DOMAIN k.got["data"] : q < p
      /\ \A l \in Lanes : DOMAIN k.got[l] \subseteq DOMAIN d.log[l]
  BY <1>1, FurtherParts
<1>3. PutTaken(d, k, n, p)
  OBVIOUS
<1> HIDE DEF p
<1>4. /\ n.fence = k.fence /\ n.tombs = k.tombs /\ n.consent = k.consent
      /\ ~ (op.rev <= k.tombs[op.item]) /\ ~ (p <= k.fence)
      /\ n.live = [k.live EXCEPT ![op.item] = [rev |-> op.rev, at |-> p]]
  BY <1>3 DEF PutTaken
<1>5. op \in PutOps /\ op.item \in Items /\ op.rev \in Nat
  <2>1. d.log["data"] \in Seq(PutOps)
    BY <1>1, DbParts
  <2>2. op \in PutOps
    <3>1. p \in DOMAIN d.log["data"]
      BY <1>2
    <3> QED BY <2>1, <3>1, Element
  <2> HIDE DEF op
  <2> QED BY <2>2 DEF PutOps, Amounts
<1>6. \A q \in DOMAIN d.log["data"] :
        /\ d.log["data"][q].item \in Items /\ d.log["data"][q].rev \in Nat
        /\ q < p /\ d.log["data"][q].item = op.item => d.log["data"][q].rev <= op.rev
        /\ q \in Nat
  <2> TAKE q \in DOMAIN d.log["data"]
  <2>1. d.log["data"] \in Seq(PutOps)
    BY <1>1, DbParts
  <2>2. d.log["data"][q] \in PutOps /\ q \in Nat
    BY <2>1, Element
  <2>3. d.log["data"][q].item \in Items /\ d.log["data"][q].rev \in Nat
    BY <2>2 DEF PutOps, Amounts
  <2>4. q < p /\ d.log["data"][q].item = op.item => d.log["data"][q].rev <= op.rev
    BY <1>2 DEF DbInv, PutsAreOfItems
  <2> QED BY <2>2, <2>3, <2>4
<1>7. /\ k.fence \in Nat /\ k.live \in [Items -> [rev : Nat, at : Nat]] /\ k.tombs \in [Items -> Nat]
  BY KnownParts
<1>8. /\ n.live[op.item].rev = op.rev /\ n.live[op.item].at = p
      /\ \A i \in Items \ {op.item} : n.live[i] = k.live[i]
  <2>1. op.item \in Items /\ k.live \in [Items -> [rev : Nat, at : Nat]]
    BY <1>5, <1>7
  <2> HIDE DEF op
  <2> QED BY <1>4, <2>1
<1>9. n.got["control"] = k.got["control"]
  BY <1>1 DEF Further
<1> HIDE DEF op
<1>10. ControlIsApplied(d, n)
  <2>1. ASSUME NEW q \in DOMAIN n.got["control"]
        PROVE  LET o == d.log["control"][q] IN
               /\ o.type = "item.delete" => o.through <= n.tombs[o.item]
               /\ o.type = "scope.delete" =>
                    /\ o.through <= n.fence
                    /\ \A i \in Items : n.live[i].rev > 0 => o.through < n.live[i].at
    <3> DEFINE o == d.log["control"][q]
    <3>1. /\ o.type = "item.delete" => o.through <= k.tombs[o.item]
          /\ o.type = "scope.delete" =>
               /\ o.through <= k.fence
               /\ \A i \in Items : k.live[i].rev > 0 => o.through < k.live[i].at
      BY <1>9 DEF ControlIsApplied
    <3>2. o.type = "scope.delete" => o.through \in Nat
      <4>1. d.log["control"] \in Seq(ControlOps)
        BY <1>1, DbParts
      <4>2. o \in ControlOps
        <5>1. q \in DOMAIN d.log["control"]
          BY <1>1, <1>2, <1>9
        <5> QED BY <4>1, <5>1, Element
      <4> QED BY <4>2 DEF ControlOps, ConsentOps, DeleteOps, ScopeOps
    <3> HIDE DEF o
    <3>3. ASSUME o.type = "scope.delete", NEW i \in Items, n.live[i].rev > 0
          PROVE  o.through < n.live[i].at
      <4>1. CASE i = op.item
        <5>1. n.live[i].at = p /\ p \in Nat /\ k.fence \in Nat
          BY <1>2, <1>7, <1>8, <4>1
        <5>2. o.through \in Nat /\ o.through <= k.fence
          BY <3>1, <3>2, <3>3
        <5> QED BY <1>4, <5>1, <5>2
      <4>2. CASE i # op.item
        BY <1>8, <3>1, <3>3, <4>2
      <4> QED BY <4>1, <4>2
    <3> QED BY <1>4, <3>1, <3>3 DEF o
  <2>2. ASSUME NEW i \in Items
        PROVE  /\ n.live[i].rev \notin 1 .. n.tombs[i]
               /\ n.live[i].rev > 0 /\ n.live[i].at > 0 =>
                    n.live[i].at \in DOMAIN n.got["data"] /\ d.log["data"][n.live[i].at].item = i
    <3>1. CASE i = op.item
      <4>1. n.live[i].rev \notin 1 .. n.tombs[i]
        <5>1. n.live[i].rev = op.rev /\ n.tombs[i] = k.tombs[op.item]
          BY <1>4, <1>8, <3>1
        <5>2. op.rev \in Nat /\ k.tombs[op.item] \in Nat /\ ~ (op.rev <= k.tombs[op.item])
          BY <1>4, <1>5, <1>7
        <5> QED BY <5>1, <5>2
      <4> QED BY <1>2, <1>8, <3>1, <4>1 DEF op
    <3>2. CASE i # op.item
      BY <1>2, <1>4, <1>8, <3>2 DEF ControlIsApplied
    <3> QED BY <3>1, <3>2
  <2>3. \A i \in d.done : d.tombs[i] <= n.tombs[i]
    BY <1>4 DEF ControlIsApplied
  <2>4. n.fence > 0 => \E q \in DOMAIN d.log["control"] :
          d.log["control"][q].type = "scope.delete" /\ d.log["control"][q].through = n.fence
    BY <1>4 DEF ControlIsApplied
  <2> QED BY <2>1, <2>2, <2>3, <2>4 DEF ControlIsApplied
<1>11. ASSUME HoldsWhatIsPut(d, k)
       PROVE  HoldsWhatIsPut(d, n)
  <2>1. ASSUME NEW i \in Items
        PROVE  n.live[i].rev <= Larger(d.live[i].rev, d.tombs[i]) /\ n.tombs[i] <= d.tombs[i]
    <3>1. op.rev <= Larger(d.live[op.item].rev, d.tombs[op.item])
      BY <1>2 DEF DbInv, PutsAreOfItems, op
    <3>2. CASE i = op.item
      BY <1>4, <1>8, <1>11, <3>1, <3>2 DEF HoldsWhatIsPut
    <3>3. CASE i # op.item
      BY <1>4, <1>8, <1>11, <3>3 DEF HoldsWhatIsPut
    <3> QED BY <3>2, <3>3
  <2>2. ASSUME NEW q \in DOMAIN n.got["data"],
               LET o == d.log["data"][q] IN d.live[o.item].rev > 0
        PROVE  LET o == d.log["data"][q] IN
               o.rev <= n.live[o.item].rev /\ q <= n.live[o.item].at
    <3> DEFINE o == d.log["data"][q]
    <3>1. q \in DOMAIN d.log["data"] /\ o.item \in Items
      BY <1>1, <1>2, <1>6
    <3>2. CASE q = p
      <4>1. o = op
        BY <3>2 DEF op
      <4>2. op.rev <= op.rev /\ p <= p
        BY <1>2, <1>5
      <4> QED BY <1>8, <3>2, <4>1, <4>2
    <3>3. CASE q \in DOMAIN k.got["data"] /\ o.item = op.item
      <4>1. q < p /\ o.rev <= op.rev
        BY <1>2, <1>6, <3>1, <3>3
      <4>2. q <= p
        BY <1>2, <1>6, <3>1, <4>1
      <4> QED BY <1>8, <3>3, <4>1, <4>2
    <3>4. CASE q \in DOMAIN k.got["data"] /\ o.item # op.item
      <4>1. o.rev <= k.live[o.item].rev /\ q <= k.live[o.item].at
        BY <1>11, <2>2, <3>4 DEF HoldsWhatIsPut
      <4> QED BY <1>8, <3>1, <3>4, <4>1
    <3> QED BY <1>2, <3>2, <3>3, <3>4
  <2> QED BY <1>4, <1>11, <2>1, <2>2 DEF HoldsWhatIsPut
<1> QED BY <1>10, <1>11

\* A put is refused: no live item's, as long as no backup was restored.
LEMMA RefusesPut ==
    ASSUME NEW d, NEW ids, NEW k \in Destinations, NEW n, DbInv(d, ids),
           DecidedIsLog(d, k), ControlIsApplied(d, k), Further(d, k, n, "data"),
           n.fence = k.fence, n.tombs = k.tombs, n.consent = k.consent, n.live = k.live,
           LET p == Len(k.got["data"]) + 1
               op == d.log["data"][p]
           IN  \/ op.rev <= k.tombs[op.item]
               \/ p <= k.fence
               \/ k.consent.type = "consent.revoke" /\ op.grant < k.consent.rev
    PROVE  /\ ControlIsApplied(d, n)
           /\ HoldsWhatIsPut(d, k) => HoldsWhatIsPut(d, n)
<1> DEFINE p == Len(k.got["data"]) + 1
           op == d.log["data"][p]
<1>1. IsDb(d) /\ "data" \in Lanes /\ "control" \in Lanes \ {"data"}
  BY DEF DbInv, Lanes
<1>2. /\ p \in Nat /\ p > 0 /\ p \in DOMAIN d.log["data"]
      /\ DOMAIN n.got["data"] = DOMAIN k.got["data"] \cup {p}
      /\ \A l \in Lanes : DOMAIN k.got[l] \subseteq DOMAIN d.log[l]
  BY <1>1, FurtherParts
<1>3. \/ op.rev <= k.tombs[op.item]
      \/ p <= k.fence
      \/ k.consent.type = "consent.revoke" /\ op.grant < k.consent.rev
  OBVIOUS
<1> HIDE DEF p
<1>4. op \in PutOps /\ op.item \in Items /\ op.rev \in Nat /\ op.rev > 0 /\ op.grant \in Nat
  <2>1. d.log["data"] \in Seq(PutOps)
    BY <1>1, DbParts
  <2>2. op \in PutOps
    BY <1>2, <2>1, Element
  <2> HIDE DEF op
  <2> QED BY <2>2 DEF PutOps, Amounts
<1>5. n.got["control"] = k.got["control"]
  BY <1>1 DEF Further
<1>6. ControlIsApplied(d, n)
  BY <1>2, <1>5 DEF ControlIsApplied
<1>7. ASSUME HoldsWhatIsPut(d, k), d.live[op.item].rev > 0
      PROVE  FALSE
  <2>1. op.item \in LiveItems(d)
    BY <1>4, <1>7 DEF LiveItems
  <2>2. /\ \A q \in DOMAIN d.log["control"] :
             d.log["control"][q].type = "scope.delete" => d.log["control"][q].through < p
        /\ d.live[op.item].grant \in 1 .. Revision(d)
        /\ \A r \in d.live[op.item].grant .. Revision(d) : d.consent[r] = "consent.put"
    BY <1>2, <2>1 DEF DbInv, LiveIsTold, op
  <2>3. /\ k.fence \in Nat /\ k.tombs[op.item] \in Nat /\ d.tombs[op.item] \in Nat
        /\ k.consent.rev \in Nat /\ Revision(d) \in Nat /\ d.live[op.item].rev \in Nat
    BY <1>1, <1>4, KnownParts, DbParts
  <2>4. CASE op.rev <= k.tombs[op.item]
    <3>1. d.tombs[op.item] = 0
      BY <1>4, <1>7, <2>3 DEF DbInv, ItemsAreSettled
    <3>2. k.tombs[op.item] <= d.tombs[op.item]
      BY <1>4, <1>7 DEF HoldsWhatIsPut
    <3> HIDE DEF op
    <3> QED BY <1>4, <2>3, <2>4, <3>1, <3>2
  <2>5. CASE p <= k.fence
    <3>1. k.fence > 0
      BY <1>2, <2>3, <2>5
    <3>2. PICK q \in DOMAIN d.log["control"] :
            d.log["control"][q].type = "scope.delete" /\ d.log["control"][q].through = k.fence
      BY <3>1 DEF ControlIsApplied
    <3>3. k.fence < p
      BY <2>2, <3>2
    <3> QED BY <1>2, <2>3, <2>5, <3>3
  <2>6. CASE k.consent.type = "consent.revoke" /\ op.grant < k.consent.rev
    <3>1. op.grant = d.live[op.item].grant
      BY <1>2, <1>7 DEF DbInv, PutsAreOfItems, op
    <3>2. /\ k.consent.rev <= Revision(d)
          /\ k.consent.type = IF k.consent.rev = 0 THEN "none" ELSE d.consent[k.consent.rev]
      BY <1>7 DEF HoldsWhatIsPut
    <3> HIDE DEF op
    <3>3. k.consent.rev \in d.live[op.item].grant .. Revision(d) /\ k.consent.rev # 0
      <4> DEFINE g == d.live[op.item].grant
                 r == k.consent.rev
      <4>1. g \in 1 .. Revision(d) /\ g < r /\ r <= Revision(d)
        BY <2>2, <2>6, <3>1, <3>2
      <4>2. r \in Nat /\ Revision(d) \in Nat
        BY <2>3
      <4> HIDE DEF g, r
      <4>3. r \in g .. Revision(d) /\ r # 0
        BY <4>1, <4>2
      <4> QED BY <4>3 DEF g, r
    <3>4. k.consent.type = "consent.put"
      BY <2>2, <3>2, <3>3
    <3> QED BY <2>6, <3>4
  <2> QED BY <1>3, <2>4, <2>5, <2>6
<1>8. ASSUME HoldsWhatIsPut(d, k)
      PROVE  HoldsWhatIsPut(d, n)
  <2>1. ASSUME NEW q \in DOMAIN n.got["data"],
               LET o == d.log["data"][q] IN d.live[o.item].rev > 0
        PROVE  LET o == d.log["data"][q] IN
               o.rev <= n.live[o.item].rev /\ q <= n.live[o.item].at
    <3>1. q # p
      BY <1>7, <1>8, <2>1 DEF op
    <3>2. q \in DOMAIN k.got["data"]
      BY <1>2, <3>1
    <3> QED BY <1>8, <2>1, <3>2 DEF HoldsWhatIsPut
  <2> QED BY <1>8, <2>1 DEF HoldsWhatIsPut
<1> QED BY <1>6, <1>8

\* An operation of the control lane is taken.
ControlTaken(d, k, n, p) ==
    LET op == d.log["control"][p] IN
    \/ /\ op.type = "item.delete"
       /\ n.tombs = [k.tombs EXCEPT ![op.item] = Larger(@, op.through)]
       /\ n.live = Erased(k.live, {i \in {op.item} : k.live[i].rev <= op.through})
       /\ n.fence = k.fence /\ n.consent = k.consent
    \/ /\ op.type = "scope.delete"
       /\ n.fence = Larger(k.fence, op.through)
       /\ n.live = Erased(k.live, {i \in Items : k.live[i].at <= op.through})
       /\ n.tombs = k.tombs /\ n.consent = k.consent
    \/ /\ op.type \in {"consent.put", "consent.revoke"}
       /\ n.consent = IF op.rev > k.consent.rev
                      THEN [rev |-> op.rev, type |-> op.type] ELSE k.consent
       /\ n.fence = k.fence /\ n.tombs = k.tombs /\ n.live = k.live

\* A deletion leaves what is still held as it was.
LEMMA ErasedParts ==
    ASSUME NEW live \in [Items -> [rev : Nat, at : Nat]], NEW gone
    PROVE  LET e == Erased(live, gone) IN
           /\ e \in [Items -> [rev : Nat, at : Nat]]
           /\ \A i \in Items : /\ i \in gone => e[i].rev = 0 /\ e[i].at = 0
                               /\ i \notin gone => e[i] = live[i]
<1>1. [rev |-> 0, at |-> 0] \in [rev : Nat, at : Nat]
  OBVIOUS
<1> QED BY <1>1 DEF Erased

LEMMA TakesControl ==
    ASSUME NEW d, NEW ids, NEW k \in Destinations, NEW n, DbInv(d, ids),
           DecidedIsLog(d, k), ControlIsApplied(d, k), Further(d, k, n, "control"),
           ControlTaken(d, k, n, Len(k.got["control"]) + 1)
    PROVE  /\ ControlIsApplied(d, n)
           /\ HoldsWhatIsPut(d, k) => HoldsWhatIsPut(d, n)
<1> DEFINE p == Len(k.got["control"]) + 1
           op == d.log["control"][p]
<1>1. IsDb(d) /\ "control" \in Lanes /\ "data" \in Lanes \ {"control"}
  BY DEF DbInv, Lanes
<1>2. /\ p \in Nat /\ p > 0 /\ p \in DOMAIN d.log["control"]
      /\ DOMAIN n.got["control"] = DOMAIN k.got["control"] \cup {p}
      /\ \A l \in Lanes : DOMAIN k.got[l] \subseteq DOMAIN d.log[l]
  BY <1>1, FurtherParts
<1>3. ControlTaken(d, k, n, p)
  OBVIOUS
<1> HIDE DEF p
<1>4. /\ op \in ControlOps
      /\ op.type = "item.delete" => op.item \in Items /\ op.through \in Nat /\ op.through > 0
      /\ op.type = "scope.delete" => op.through \in Nat
      /\ op.type \in {"consent.put", "consent.revoke"} => op.rev \in Nat /\ op.rev > 0
  <2>1. d.log["control"] \in Seq(ControlOps)
    BY <1>1, DbParts
  <2>2. op \in ControlOps
    BY <1>2, <2>1, Element
  <2> HIDE DEF op
  <2> QED BY <2>2 DEF ControlOps, ConsentOps, DeleteOps, ScopeOps, Amounts
<1>5. /\ op.type = "item.delete" => op.through <= d.tombs[op.item]
      /\ op.type = "scope.delete" => op.through <= Len(d.log["data"])
      /\ op.type \in {"consent.put", "consent.revoke"} =>
           op.rev <= Revision(d) /\ d.consent[op.rev] = op.type
  BY <1>2 DEF DbInv, DeletionsAreTold, op
<1>6. /\ k.fence \in Nat /\ k.live \in [Items -> [rev : Nat, at : Nat]] /\ k.tombs \in [Items -> Nat]
      /\ d.live \in [Items -> [rev : Nat, grant : Nat]] /\ d.tombs \in [Items -> Nat]
  BY <1>1, KnownParts, DbParts
<1>7. n.got["data"] = k.got["data"]
  BY <1>1 DEF Further
<1> DEFINE
      erased == IF op.type = "item.delete"
                THEN {i \in {op.item} : k.live[i].rev <= op.through}
                ELSE IF op.type = "scope.delete" THEN {i \in Items : k.live[i].at <= op.through}
                     ELSE {}
<1>8. op.type \in {"item.delete", "scope.delete", "consent.put", "consent.revoke"}
  BY <1>3 DEF ControlTaken
\* What is held stays as it was or goes; tombstones and the fence only grow.
<1>9. \A i \in Items : /\ i \in erased => n.live[i].rev = 0 /\ n.live[i].at = 0
                       /\ i \notin erased => n.live[i] = k.live[i]
  <2>1. CASE op.type = "item.delete"
    <3>1. n.live = Erased(k.live, erased)
      BY <1>3, <2>1 DEF ControlTaken
    <3> HIDE DEF erased
    <3>2. k.live \in [Items -> [rev : Nat, at : Nat]]
      BY <1>6
    <3>3. \A i \in Items :
            /\ i \in erased => Erased(k.live, erased)[i].rev = 0 /\ Erased(k.live, erased)[i].at = 0
            /\ i \notin erased => Erased(k.live, erased)[i] = k.live[i]
      BY <3>2, ErasedParts
    <3> QED BY <3>1, <3>3
  <2>2. CASE op.type = "scope.delete"
    <3>1. n.live = Erased(k.live, erased)
      BY <1>3, <2>2 DEF ControlTaken
    <3> HIDE DEF erased
    <3>2. k.live \in [Items -> [rev : Nat, at : Nat]]
      BY <1>6
    <3>3. \A i \in Items :
            /\ i \in erased => Erased(k.live, erased)[i].rev = 0 /\ Erased(k.live, erased)[i].at = 0
            /\ i \notin erased => Erased(k.live, erased)[i] = k.live[i]
      BY <3>2, ErasedParts
    <3> QED BY <3>1, <3>3
  <2>3. CASE op.type \in {"consent.put", "consent.revoke"}
    <3>1. n.live = k.live
      BY <1>3, <2>3 DEF ControlTaken
    <3>2. erased = {}
      BY <2>3
    <3> QED BY <3>1, <3>2
  <2> QED BY <1>8, <2>1, <2>2, <2>3
<1>10. n.tombs = IF op.type = "item.delete"
                 THEN [k.tombs EXCEPT ![op.item] = Larger(@, op.through)] ELSE k.tombs
  BY <1>3 DEF ControlTaken
<1>11. n.fence = IF op.type = "scope.delete" THEN Larger(k.fence, op.through) ELSE k.fence
  BY <1>3 DEF ControlTaken
<1>12. n.consent = IF op.type \in {"consent.put", "consent.revoke"} /\ op.rev > k.consent.rev
                   THEN [rev |-> op.rev, type |-> op.type] ELSE k.consent
  BY <1>3 DEF ControlTaken
<1>13. \A i \in Items : /\ k.live[i].rev \in Nat /\ k.live[i].at \in Nat
                       /\ k.tombs[i] \in Nat /\ d.tombs[i] \in Nat /\ d.live[i].rev \in Nat
  BY <1>6
<1> DEFINE has == op.type
<1>14. /\ has = "item.delete" =>
            \A i \in Items : n.tombs[i] = IF i = op.item THEN Larger(k.tombs[i], op.through) ELSE k.tombs[i]
       /\ has # "item.delete" => n.tombs = k.tombs
  <2> HIDE DEF op
  <2> QED BY <1>6, <1>10
<1>15. \A i \in Items :
         /\ n.tombs[i] \in Nat /\ k.tombs[i] <= n.tombs[i]
         /\ n.live[i].rev > 0 => n.live[i] = k.live[i] /\ i \notin erased
         /\ n.live[i].rev \in Nat /\ n.live[i].rev <= k.live[i].rev
  <2>1. \A i \in Items : n.tombs[i] \in Nat /\ k.tombs[i] <= n.tombs[i]
    <3> HIDE DEF op
    <3> QED BY <1>4, <1>13, <1>14 DEF Larger
  <2>2. \A i \in Items : /\ i \in erased => n.live[i].rev = 0
                         /\ i \notin erased => n.live[i] = k.live[i]
    BY <1>9
  <2> HIDE DEF erased
  <2> QED BY <1>13, <2>1, <2>2
<1>16. n.fence \in Nat /\ k.fence <= n.fence
  <2> HIDE DEF op
  <2> QED BY <1>4, <1>6, <1>11 DEF Larger
<1>17. /\ op.type = "item.delete" => op.through <= n.tombs[op.item]
       /\ op.type = "scope.delete" =>
            op.through <= n.fence /\ \A i \in Items : n.live[i].rev > 0 => op.through < n.live[i].at
  <2>1. op.type = "item.delete" => op.through <= n.tombs[op.item]
    <3> HIDE DEF op
    <3> QED BY <1>4, <1>13, <1>14 DEF Larger
  <2>2. op.type = "scope.delete" => op.through <= n.fence
    <3> HIDE DEF op
    <3> QED BY <1>4, <1>6, <1>11 DEF Larger
  <2>3. ASSUME op.type = "scope.delete", NEW i \in Items, n.live[i].rev > 0
        PROVE  op.through < n.live[i].at
    <3>1. n.live[i] = k.live[i] /\ i \notin erased
      BY <1>15, <2>3
    <3>2. ~ (k.live[i].at <= op.through)
      BY <2>3, <3>1
    <3> HIDE DEF op, erased
    <3> QED BY <1>4, <1>13, <2>3, <3>1, <3>2
  <2> QED BY <2>1, <2>2, <2>3
<1>18. \A i \in Items : n.live[i].rev \notin 1 .. n.tombs[i]
  <2> SUFFICES ASSUME NEW i \in Items, n.live[i].rev > 0
               PROVE  n.live[i].rev > n.tombs[i]
    BY <1>15
  <2>1. n.live[i] = k.live[i] /\ i \notin erased
    BY <1>15
  <2>2. k.live[i].rev > k.tombs[i]
    <3>1. k.live[i].rev \notin 1 .. k.tombs[i]
      BY DEF ControlIsApplied
    <3> QED BY <1>13, <2>1, <3>1
  <2>3. CASE op.type = "item.delete" /\ i = op.item
    <3>1. ~ (k.live[i].rev <= op.through)
      BY <2>1, <2>3
    <3> HIDE DEF op, erased
    <3> QED BY <1>4, <1>13, <1>14, <2>1, <2>2, <2>3, <3>1 DEF Larger
  <2>4. CASE ~ (op.type = "item.delete" /\ i = op.item)
    <3>1. n.tombs[i] = k.tombs[i]
      BY <1>14, <2>4
    <3> QED BY <2>1, <2>2, <3>1
  <2> QED BY <2>3, <2>4
<1> HIDE DEF erased
<1>19. ControlIsApplied(d, n)
  <2>1. ASSUME NEW q \in DOMAIN n.got["control"]
        PROVE  LET o == d.log["control"][q] IN
               /\ o.type = "item.delete" => o.through <= n.tombs[o.item]
               /\ o.type = "scope.delete" =>
                    /\ o.through <= n.fence
                    /\ \A i \in Items : n.live[i].rev > 0 => o.through < n.live[i].at
    <3> DEFINE o == d.log["control"][q]
    <3>1. CASE q = p
      <4>1. o = op
        BY <3>1 DEF op
      <4> QED BY <1>17, <4>1
    <3>2. CASE q \in DOMAIN k.got["control"]
      <4>1. /\ o.type = "item.delete" => o.through <= k.tombs[o.item]
            /\ o.type = "scope.delete" =>
                 /\ o.through <= k.fence
                 /\ \A i \in Items : k.live[i].rev > 0 => o.through < k.live[i].at
        BY <3>2 DEF ControlIsApplied
      <4>2. /\ o.type = "item.delete" => o.item \in Items /\ o.through \in Nat
            /\ o.type = "scope.delete" => o.through \in Nat
        <5>1. d.log["control"] \in Seq(ControlOps) /\ q \in DOMAIN d.log["control"]
          BY <1>1, <1>2, <3>2, DbParts
        <5>2. o \in ControlOps
          BY <5>1, Element
        <5> HIDE DEF o
        <5> QED BY <5>2 DEF ControlOps, ConsentOps, DeleteOps, ScopeOps, Amounts
      <4> HIDE DEF o
      <4>3. o.type = "item.delete" => o.through <= n.tombs[o.item]
        BY <1>13, <1>15, <4>1, <4>2
      <4>4. o.type = "scope.delete" => o.through <= n.fence
        BY <1>6, <1>16, <4>1, <4>2
      <4>5. o.type = "scope.delete" =>
              \A i \in Items : n.live[i].rev > 0 => o.through < n.live[i].at
        BY <1>15, <4>1
      <4> QED BY <4>3, <4>4, <4>5 DEF o
    <3> QED BY <1>2, <3>1, <3>2
  <2>2. ASSUME n.fence > 0
        PROVE  \E q \in DOMAIN d.log["control"] :
                 d.log["control"][q].type = "scope.delete" /\ d.log["control"][q].through = n.fence
    <3>1. CASE n.fence = k.fence
      BY <2>2, <3>1 DEF ControlIsApplied
    <3>2. CASE op.type = "scope.delete" /\ n.fence = op.through
      BY <1>2, <3>2
    <3>3. n.fence = k.fence \/ (op.type = "scope.delete" /\ n.fence = op.through)
      <4> HIDE DEF op
      <4> QED BY <1>11 DEF Larger
    <3> QED BY <3>1, <3>2, <3>3
  <2>3. \A i \in Items :
          /\ n.live[i].rev \notin 1 .. n.tombs[i]
          /\ n.live[i].rev > 0 /\ n.live[i].at > 0 =>
               n.live[i].at \in DOMAIN n.got["data"] /\ d.log["data"][n.live[i].at].item = i
    BY <1>7, <1>15, <1>18 DEF ControlIsApplied
  <2>4. \A i \in d.done : d.tombs[i] <= n.tombs[i]
    <3> SUFFICES ASSUME NEW i \in d.done
                 PROVE  d.tombs[i] <= n.tombs[i]
      OBVIOUS
    <3>1. i \in Items
      BY <1>1, DbParts
    <3>2. d.tombs[i] <= k.tombs[i]
      BY DEF ControlIsApplied
    <3> QED BY <1>13, <1>15, <3>1, <3>2
  <2> QED BY <2>1, <2>2, <2>3, <2>4 DEF ControlIsApplied
<1>20. ASSUME HoldsWhatIsPut(d, k)
       PROVE  HoldsWhatIsPut(d, n)
  <2>1. ASSUME NEW i \in Items
        PROVE  n.live[i].rev <= Larger(d.live[i].rev, d.tombs[i]) /\ n.tombs[i] <= d.tombs[i]
    <3>1. k.live[i].rev <= Larger(d.live[i].rev, d.tombs[i]) /\ k.tombs[i] <= d.tombs[i]
      BY <1>20 DEF HoldsWhatIsPut
    <3>2. Larger(d.live[i].rev, d.tombs[i]) \in Nat
      BY <1>13 DEF Larger
    <3>3. n.live[i].rev <= Larger(d.live[i].rev, d.tombs[i])
      BY <1>13, <1>15, <3>1, <3>2
    <3>4. n.tombs[i] <= d.tombs[i]
      <4>1. CASE op.type = "item.delete" /\ i = op.item
        <5> HIDE DEF op
        <5> QED BY <1>5, <1>14, <3>1, <4>1 DEF Larger
      <4>2. CASE ~ (op.type = "item.delete" /\ i = op.item)
        BY <1>14, <3>1, <4>2
      <4> QED BY <4>1, <4>2
    <3> QED BY <3>3, <3>4
  <2>2. /\ n.consent.rev <= Revision(d)
        /\ n.consent.type = IF n.consent.rev = 0 THEN "none" ELSE d.consent[n.consent.rev]
    <3>1. /\ k.consent.rev <= Revision(d)
          /\ k.consent.type = IF k.consent.rev = 0 THEN "none" ELSE d.consent[k.consent.rev]
      BY <1>20 DEF HoldsWhatIsPut
    <3>2. CASE op.type \in {"consent.put", "consent.revoke"} /\ op.rev > k.consent.rev
      <4>1. n.consent.rev = op.rev /\ n.consent.type = op.type
        <5> HIDE DEF op
        <5> QED BY <1>12, <3>2
      <4> HIDE DEF op
      <4> QED BY <1>4, <1>5, <3>2, <4>1
    <3>3. CASE ~ (op.type \in {"consent.put", "consent.revoke"} /\ op.rev > k.consent.rev)
      <4>1. n.consent = k.consent
        <5> HIDE DEF op
        <5> QED BY <1>12, <3>3
      <4> QED BY <3>1, <4>1
    <3> QED BY <3>2, <3>3
  <2>3. ASSUME NEW q \in DOMAIN n.got["data"],
               LET o == d.log["data"][q] IN d.live[o.item].rev > 0
        PROVE  LET o == d.log["data"][q] IN
               o.rev <= n.live[o.item].rev /\ q <= n.live[o.item].at
    <3> DEFINE o == d.log["data"][q]
    <3>1. q \in DOMAIN k.got["data"] /\ q \in DOMAIN d.log["data"]
      BY <1>1, <1>2, <1>7
    <3>2. o.item \in Items /\ o.rev \in Nat /\ q \in Nat
      <4>1. d.log["data"] \in Seq(PutOps)
        BY <1>1, DbParts
      <4>2. o \in PutOps /\ q \in Nat
        BY <3>1, <4>1, Element
      <4> HIDE DEF o
      <4> QED BY <4>2 DEF PutOps, Amounts
    <3>3. o.rev <= k.live[o.item].rev /\ q <= k.live[o.item].at
      BY <1>20, <2>3, <3>1 DEF HoldsWhatIsPut
    <3>4. o.item \in LiveItems(d)
      BY <2>3, <3>2 DEF LiveItems
    <3>5. o.item \notin erased
      <4>1. CASE op.type = "item.delete"
        <5>1. d.tombs[op.item] > 0
          <6> HIDE DEF op
          <6> QED BY <1>4, <1>5, <1>13, <4>1
        <5>2. d.live[op.item].rev = 0
          BY <1>4, <4>1, <5>1 DEF DbInv, ItemsAreSettled
        <5>3. o.item # op.item
          BY <2>3, <1>13, <3>2, <5>2
        <5> QED BY <4>1, <5>3 DEF erased
      <4>2. CASE op.type = "scope.delete"
        <5>1. op.through < q
          BY <1>2, <3>1, <3>4, <4>2 DEF DbInv, LiveIsTold, op
        <5>2. ~ (k.live[o.item].at <= op.through)
          <6> HIDE DEF op, o
          <6> QED BY <1>4, <1>13, <3>2, <3>3, <4>2, <5>1
        <5> QED BY <4>2, <5>2 DEF erased
      <4>3. CASE op.type \notin {"item.delete", "scope.delete"}
        BY <4>3 DEF erased
      <4> QED BY <4>1, <4>2, <4>3
    <3>6. n.live[o.item] = k.live[o.item]
      <4>1. \A i \in Items : i \notin erased => n.live[i] = k.live[i]
        BY <1>9
      <4> HIDE DEF o
      <4> QED BY <3>2, <3>5, <4>1
    <3> QED BY <3>3, <3>6
  <2> QED BY <2>1, <2>2, <2>3 DEF HoldsWhatIsPut
<1> QED BY <1>19, <1>20

-----------------------------------------------------------------------------
(* Every step                                                              *)

LEMMA MoreIds ==
    ASSUME NEW d, NEW ids, NEW more, DbInv(d, ids), ids \subseteq more
    PROVE  DbInv(d, more)
BY DEF DbInv, ItemsAreSettled

\* What the invariant is after a step.
LEMMA OutboxInvAfter ==
    ASSUME OutboxTypeOK', DbInv(db', drawn'), DbInv(backedUp', drawn'),
           backedUp'.generation <= db'.generation, dest'.generation <= db'.generation,
           \A i \in backedUp'.done : backedUp'.tombs[i] <= dest'.tombs[i],
           DecidedIsLog(db', KnownDestination'), ControlIsApplied(db', KnownDestination'),
           restores' = 0 => HoldsWhatIsPut(db', KnownDestination')
    PROVE  OutboxInv'
BY DEF OutboxInv

LEMMA GoingOn ==
    ASSUME OutboxInv, GoesOn(db, db'), DbInv(db', drawn'), drawn \subseteq drawn',
           drawn' \in SUBSET Items, changes' \in Nat,
           UNCHANGED <<backedUp, restores, dest>>
    PROVE  OutboxInv'
<1>1. KnownDestination' = KnownDestination
  BY DEF KnownDestination, GoesOn
<1>2. IsDb(db)
  BY DEF OutboxInv, DbInv
<1>3. KnownDestination \in Destinations
  BY <1>2, KnownIs DEF OutboxInv
<1>4. /\ DecidedIsLog(db', KnownDestination) /\ ControlIsApplied(db', KnownDestination)
      /\ restores = 0 => HoldsWhatIsPut(db', KnownDestination)
  BY <1>3, KnownOfGoesOn DEF OutboxInv
<1>5. DbInv(backedUp', drawn')
  BY MoreIds DEF OutboxInv
<1>6. OutboxTypeOK'
  BY DEF OutboxInv, OutboxTypeOK
<1>7. backedUp'.generation <= db'.generation /\ dest'.generation <= db'.generation
  BY DEF OutboxInv, GoesOn
<1>8. \A i \in backedUp'.done : backedUp'.tombs[i] <= dest'.tombs[i]
  BY DEF OutboxInv
<1> QED BY <1>1, <1>4, <1>5, <1>6, <1>7, <1>8, OutboxInvAfter

LEMMA UserSteps ==
    ASSUME OutboxInv,
           \/ GrantConsent \/ RevokeConsent \/ DeleteScope
           \/ \E i \in Items : CaptureDecision(i) \/ ReviseDecision(i) \/ DeleteItem(i)
    PROVE  OutboxInv'
<1>1. DbInv(db, drawn) /\ IsDb(db) /\ changes \in Nat /\ drawn \in SUBSET Items
  BY DEF OutboxInv, DbInv, OutboxTypeOK
<1>2. ASSUME NEW gone \in SUBSET Items, Buries(db, db', gone), drawn' = drawn,
             changes' = changes + 1, UNCHANGED <<backedUp, restores, dest>>
      PROVE  OutboxInv'
  <2>1. GoesOn(db, db') /\ DbInv(db', drawn)
    BY <1>1, <1>2, BuriesGoesOn, BuriesKeeps
  <2> QED BY <1>1, <1>2, <2>1, GoingOn
<1>3. ASSUME NEW i \in Items, Puts(db, db', i, drawn), drawn' = drawn \cup {i},
             changes' = changes + 1, UNCHANGED <<backedUp, restores, dest>>
      PROVE  OutboxInv'
  <2>1. GoesOn(db, db') /\ DbInv(db', drawn \cup {i})
    BY <1>1, <1>3, PutsGoesOn, PutsKeeps
  <2> QED BY <1>1, <1>3, <2>1, GoingOn
<1>4. CASE GrantConsent
  BY <1>1, <1>2, <1>4, GrantBuries DEF GrantConsent, Commit
<1>5. CASE RevokeConsent
  BY <1>1, <1>2, <1>5, RevokeBuries DEF RevokeConsent, Commit
<1>6. CASE DeleteScope
  BY <1>1, <1>2, <1>6, DeleteScopeBuries DEF DeleteScope, Commit
<1>7. ASSUME NEW i \in Items, CaptureDecision(i)
      PROVE  OutboxInv'
  <2>1. Puts(db, db', i, drawn)
    BY <1>1, <1>7, CapturePuts
  <2>2. /\ drawn' = drawn \cup {i} /\ changes' = changes + 1
        /\ UNCHANGED <<backedUp, restores, dest>>
    BY <1>7 DEF CaptureDecision, Commit
  <2> QED BY <1>3, <2>1, <2>2
<1>8. ASSUME NEW i \in Items, ReviseDecision(i)
      PROVE  OutboxInv'
  <2>1. i \in drawn
    <3>1. db.live[i].rev \in 1 .. MaxRevision - 1
      BY <1>8 DEF ReviseDecision
    <3>2. db.live[i].rev # 0
      BY <3>1
    <3> QED BY <1>1, <3>2 DEF DbInv, ItemsAreSettled
  <2>2. Puts(db, db', i, drawn)
    BY <1>1, <1>8, RevisePuts
  <2>3. /\ drawn' = drawn \cup {i} /\ changes' = changes + 1
        /\ UNCHANGED <<backedUp, restores, dest>>
    BY <1>8, <2>1 DEF ReviseDecision, Commit
  <2> QED BY <1>3, <2>2, <2>3
<1>9. ASSUME NEW i \in Items, DeleteItem(i)
      PROVE  OutboxInv'
  BY <1>1, <1>2, <1>9, DeleteItemBuries DEF DeleteItem, Commit
<1> QED BY <1>4, <1>5, <1>6, <1>7, <1>8, <1>9

LEMMA BackupSteps ==
    ASSUME OutboxInv, ~ReusesBackups, BeginGeneration \/ Backup \/ Restore
    PROVE  OutboxInv'
<1>1. /\ DbInv(db, drawn) /\ IsDb(db) /\ DbInv(backedUp, drawn) /\ IsDb(backedUp)
      /\ changes \in Nat /\ restores \in Nat /\ drawn \in SUBSET Items
      /\ dest \in Destinations /\ OutboxTypeOK
      /\ DecidedIsLog(db, KnownDestination) /\ ControlIsApplied(db, KnownDestination)
  BY DEF OutboxInv, DbInv, OutboxTypeOK
<1>2. db.generation \in Nat /\ dest.generation \in Nat /\ backedUp.generation \in Nat
  BY <1>1, DbParts, KnownParts
<1>3. \A i \in db.done : db.tombs[i] <= dest.tombs[i]
  <2>1. KnownDestination.tombs = dest.tombs
    BY <1>1, KnownIs
  <2> QED BY <1>1, <2>1 DEF ControlIsApplied
<1>4. CASE BeginGeneration
  <2>1. /\ db' = Redescribed(db) /\ drawn' = drawn /\ changes' = changes + 1
        /\ UNCHANGED <<backedUp, restores, dest>>
    BY <1>4 DEF BeginGeneration, Commit
  <2>2. /\ KnownDestination' = Renewed(dest, db.generation + 1)
        /\ DecidedIsLog(db', KnownDestination') /\ ControlIsApplied(db', KnownDestination')
    BY <1>1, <1>3, <2>1, NewGenerationKnown DEF OutboxInv
  <2>3. restores = 0 => HoldsWhatIsPut(db', KnownDestination')
    BY <1>1, <2>1, <2>2, NewGenerationHolds DEF OutboxInv
  <2>4. db'.generation = db.generation + 1
    BY <1>1, <2>1, RedescribedParts
  <2>5. DbInv(db', drawn')
    BY <1>1, <2>1, RedescribedKeeps
  <2>6. backedUp'.generation <= db'.generation /\ dest'.generation <= db'.generation
    BY <1>2, <2>1, <2>4 DEF OutboxInv
  <2>7. OutboxTypeOK'
    BY <1>1, <2>1 DEF OutboxTypeOK
  <2>8. \A i \in backedUp'.done : backedUp'.tombs[i] <= dest'.tombs[i]
    BY <2>1 DEF OutboxInv
  <2> QED BY <1>1, <2>1, <2>2, <2>3, <2>5, <2>6, <2>7, <2>8, OutboxInvAfter
<1>5. CASE Backup
  <2>1. backedUp' = db /\ UNCHANGED <<db, changes, drawn, restores, dest>>
    BY <1>5 DEF Backup
  <2>2. KnownDestination' = KnownDestination
    BY <2>1 DEF KnownDestination
  <2>3. OutboxTypeOK'
    BY <1>1, <2>1 DEF OutboxTypeOK
  <2>4. backedUp'.generation <= db'.generation /\ dest'.generation <= db'.generation
    BY <1>2, <2>1 DEF OutboxInv
  <2>5. restores' = 0 => HoldsWhatIsPut(db', KnownDestination')
    BY <2>1, <2>2 DEF OutboxInv
  <2>6. DecidedIsLog(db', KnownDestination') /\ ControlIsApplied(db', KnownDestination')
    BY <1>1, <2>1, <2>2
  <2> QED BY <1>1, <1>3, <2>1, <2>3, <2>4, <2>5, <2>6, OutboxInvAfter
<1>6. CASE Restore
  <2>1. /\ db' = Redescribed(backedUp) /\ drawn' = drawn /\ changes' = changes + 1
        /\ restores' = restores + 1 /\ UNCHANGED <<backedUp, dest>>
        /\ backedUp.generation = db.generation
    BY <1>6 DEF Restore
  <2>2. DecidedIsLog(db', KnownDestination') /\ ControlIsApplied(db', KnownDestination')
    <3>1. dest.generation <= backedUp.generation
      BY <2>1 DEF OutboxInv
    <3>2. \A i \in backedUp.done : backedUp.tombs[i] <= dest.tombs[i]
      BY DEF OutboxInv
    <3> QED BY <1>1, <2>1, <3>1, <3>2, NewGenerationKnown
  <2>4. db'.generation = backedUp.generation + 1
    BY <1>1, <2>1, RedescribedParts
  <2>5. DbInv(db', drawn')
    BY <1>1, <2>1, RedescribedKeeps
  <2>6. backedUp'.generation <= db'.generation /\ dest'.generation <= db'.generation
    BY <1>2, <2>1, <2>4 DEF OutboxInv
  <2>7. OutboxTypeOK'
    BY <1>1, <2>1 DEF OutboxTypeOK
  <2>8. \A i \in backedUp'.done : backedUp'.tombs[i] <= dest'.tombs[i]
    BY <2>1 DEF OutboxInv
  <2>9. restores' # 0
    BY <1>1, <2>1
  <2> QED BY <1>1, <2>1, <2>2, <2>5, <2>6, <2>7, <2>8, <2>9, OutboxInvAfter
<1> QED BY <1>4, <1>5, <1>6

\* What a decision leaves to be shown.
LEMMA DecisionStep ==
    ASSUME OutboxInv, NEW lane \in Lanes, UNCHANGED <<db, backedUp, changes, drawn, restores>>,
           Further(db, KnownDestination, dest', lane), dest'.generation = db.generation,
           ControlIsApplied(db, dest'),
           HoldsWhatIsPut(db, KnownDestination) => HoldsWhatIsPut(db, dest'),
           \A i \in Items : KnownDestination.tombs[i] <= dest'.tombs[i]
    PROVE  OutboxInv'
<1>1. /\ DbInv(db, drawn) /\ IsDb(db) /\ IsDb(backedUp) /\ OutboxTypeOK
      /\ DecidedIsLog(db, KnownDestination)
  BY DEF OutboxInv, DbInv
<1>2. /\ KnownDestination \in Destinations /\ KnownDestination.tombs = dest.tombs
      /\ dest' \in Destinations
  BY <1>1, KnownIs DEF Further
<1>3. KnownDestination' = dest'
  BY DEF KnownDestination
<1>4. DecidedIsLog(db, dest')
  BY <1>1, <1>2, FurtherParts
<1>5. OutboxTypeOK'
  BY <1>1, <1>2 DEF OutboxTypeOK
<1>6. ASSUME NEW i \in backedUp.done
      PROVE  backedUp.tombs[i] <= dest'.tombs[i]
  <2>1. i \in Items /\ backedUp.tombs[i] \in Nat
    BY <1>1, DbParts
  <2>2. dest.tombs[i] \in Nat /\ dest'.tombs[i] \in Nat
    BY <1>2, <2>1, KnownParts DEF Destinations
  <2>3. backedUp.tombs[i] <= dest.tombs[i] /\ dest.tombs[i] <= dest'.tombs[i]
    BY <1>2, <2>1 DEF OutboxInv
  <2> QED BY <2>1, <2>2, <2>3
<1>7. db.generation <= db.generation
  BY <1>1, DbParts
<1> QED BY <1>1, <1>3, <1>4, <1>5, <1>6, <1>7, OutboxInvAfter DEF OutboxInv

\* The operation a batch comes to.
LEMMA BatchedParts ==
    ASSUME OutboxInv, NEW lane \in Lanes, Batched(lane)
    PROVE  LET k == KnownDestination
               p == Position(lane)
               op == db.log[lane][p]
           IN  /\ k \in Destinations /\ k.generation = db.generation
               /\ p = Len(k.got[lane]) + 1 /\ p \in Nat /\ p > 0
               /\ p <= Len(db.log[lane]) /\ p \in DOMAIN db.log[lane]
               /\ op.stamp \in Nat
               /\ lane = "data" => op \in PutOps
               /\ lane = "control" => op \in ControlOps
<1>1. IsDb(db) /\ OutboxTypeOK
  BY DEF OutboxInv, DbInv
<1>2. KnownDestination \in Destinations /\ KnownDestination.generation = db.generation
  BY <1>1, KnownIs
<1> DEFINE k == KnownDestination
           p == Position(lane)
           op == db.log[lane][p]
<1>3. p = Len(k.got[lane]) + 1 /\ Len(k.got[lane]) \in Nat
  BY <1>2, KnownParts DEF Position
<1>4. /\ Len(db.log[lane]) \in Nat /\ db.acked[lane] \in Nat
      /\ db.log["data"] \in Seq(PutOps) /\ db.log["control"] \in Seq(ControlOps)
  BY <1>1, DbParts DEF Lanes
<1>5. p \in db.acked[lane] + 1 .. Len(db.log[lane])
  BY DEF Batched
<1> HIDE DEF p
<1>6. p \in Nat /\ p > 0 /\ p <= Len(db.log[lane])
  BY <1>3, <1>4, <1>5
<1>7. p \in DOMAIN db.log[lane]
  BY <1>4, <1>6 DEF Lanes
<1>8. lane = "data" => op \in PutOps
  BY <1>4, <1>7, Element
<1>9. lane = "control" => op \in ControlOps
  BY <1>4, <1>7, Element
<1>10. op.stamp \in Nat
  <2> HIDE DEF op
  <2>1. op \in PutOps \/ op \in ControlOps
    BY <1>8, <1>9 DEF Lanes
  <2> QED BY <2>1 DEF PutOps, ControlOps, ConsentOps, DeleteOps, ScopeOps
<1> QED BY <1>2, <1>3, <1>6, <1>7, <1>8, <1>9, <1>10 DEF p

LEMMA RefuseSteps ==
    ASSUME OutboxInv, Refuse
    PROVE  OutboxInv'
<1> DEFINE k == KnownDestination
           p == Position("data")
           op == db.log["data"][p]
           no == [stamp |-> op.stamp, ok |-> FALSE]
           n == [k EXCEPT !.got["data"] = Append(@, no)]
<1>1. /\ Batched("data") /\ Refuses(k, op, p)
      /\ UNCHANGED <<db, backedUp, changes, drawn, restores>>
  BY DEF Refuse
<1>2. dest' = n
  BY DEF Refuse, Decided
<1>3. "data" \in Lanes
  BY DEF Lanes
<1>4. /\ k \in Destinations /\ k.generation = db.generation
      /\ p = Len(k.got["data"]) + 1 /\ p \in Nat
      /\ p <= Len(db.log["data"])
      /\ op.stamp \in Nat
  BY <1>1, <1>3, BatchedParts
<1> HIDE DEF k, p, op
<1>5. no \in Decisions /\ no.stamp = op.stamp
  BY <1>4 DEF Decisions
<1> HIDE DEF no
<1>6. /\ n \in Destinations
      /\ n.generation = k.generation /\ n.fence = k.fence /\ n.consent = k.consent
      /\ n.live = k.live /\ n.tombs = k.tombs
      /\ n.got["data"] = Append(k.got["data"], no)
      /\ \A l \in Lanes \ {"data"} : n.got[l] = k.got[l]
  BY <1>3, <1>4, <1>5, DecidedParts
<1> HIDE DEF n
<1>7. n.got["data"][p] = no
  <2>1. k.got["data"] \in Seq(Decisions)
    BY <1>3, <1>4, KnownParts
  <2> QED BY <1>4, <1>5, <1>6, <2>1, Longer
<1>8. Further(db, k, n, "data")
  BY <1>4, <1>5, <1>6, <1>7 DEF Further, op
<1>9. DbInv(db, drawn) /\ DecidedIsLog(db, k) /\ ControlIsApplied(db, k)
  BY DEF OutboxInv, k
<1>10. \/ op.rev <= k.tombs[op.item]
       \/ p <= k.fence
       \/ k.consent.type = "consent.revoke" /\ op.grant < k.consent.rev
  BY <1>1 DEF Refuses
<1>11. ControlIsApplied(db, n) /\ (HoldsWhatIsPut(db, k) => HoldsWhatIsPut(db, n))
  BY <1>4, <1>6, <1>8, <1>9, <1>10, RefusesPut DEF op
<1>12. \A i \in Items : k.tombs[i] <= n.tombs[i]
  <2>1. k.tombs \in [Items -> Nat]
    BY <1>4, KnownParts
  <2> QED BY <1>6, <2>1
<1> QED BY <1>1, <1>2, <1>3, <1>4, <1>6, <1>8, <1>11, <1>12, DecisionStep DEF k

\* The effect of an operation, on what was decided.
LEMMA AppliedPut ==
    ASSUME NEW m \in Destinations, NEW op \in PutOps, NEW p \in Nat
    PROVE  LET n == Applied(m, op, p) IN
           /\ n \in Destinations
           /\ n.generation = m.generation /\ n.got = m.got /\ n.fence = m.fence
           /\ n.consent = m.consent /\ n.tombs = m.tombs
           /\ n.live = [m.live EXCEPT ![op.item] = [rev |-> op.rev, at |-> p]]
<1> DEFINE held == [m.live EXCEPT ![op.item] = [rev |-> op.rev, at |-> p]]
           n == [m EXCEPT !.live = held]
<1>1. op.type = "item.put" /\ op.item \in Items /\ op.rev \in Nat
  BY DEF PutOps, Amounts
<1>2. Applied(m, op, p) = n
  BY <1>1 DEF Applied
<1>3. held \in [Items -> [rev : Nat, at : Nat]]
  <2>1. m.live \in [Items -> [rev : Nat, at : Nat]]
    BY KnownParts
  <2> QED BY <1>1, <2>1
<1> HIDE DEF held
<1>4. /\ n.generation = m.generation /\ n.got = m.got /\ n.fence = m.fence
      /\ n.consent = m.consent /\ n.tombs = m.tombs /\ n.live = held
  BY DEF Destinations
<1>5. n \in Destinations
  BY <1>3 DEF Destinations
<1> HIDE DEF n
<1> QED BY <1>2, <1>4, <1>5 DEF held

LEMMA AppliedControl ==
    ASSUME NEW m \in Destinations, NEW op \in ControlOps, NEW p \in Nat
    PROVE  LET n == Applied(m, op, p) IN
           /\ n \in Destinations
           /\ n.generation = m.generation /\ n.got = m.got
           /\ \/ /\ op.type = "item.delete"
                 /\ n.tombs = [m.tombs EXCEPT ![op.item] = Larger(@, op.through)]
                 /\ n.live = Erased(m.live, {i \in {op.item} : m.live[i].rev <= op.through})
                 /\ n.fence = m.fence /\ n.consent = m.consent
              \/ /\ op.type = "scope.delete"
                 /\ n.fence = Larger(m.fence, op.through)
                 /\ n.live = Erased(m.live, {i \in Items : m.live[i].at <= op.through})
                 /\ n.tombs = m.tombs /\ n.consent = m.consent
              \/ /\ op.type \in {"consent.put", "consent.revoke"}
                 /\ n.consent = IF op.rev > m.consent.rev
                                THEN [rev |-> op.rev, type |-> op.type] ELSE m.consent
                 /\ n.fence = m.fence /\ n.tombs = m.tombs /\ n.live = m.live
<1> DEFINE n == Applied(m, op, p)
<1>1. /\ m.live \in [Items -> [rev : Nat, at : Nat]] /\ m.tombs \in [Items -> Nat] /\ m.fence \in Nat
      /\ m.consent.rev \in Nat
  BY KnownParts
<1>2. CASE op \in DeleteOps
  <2>1. op.type = "item.delete" /\ op.item \in Items /\ op.through \in Nat
    BY <1>2 DEF DeleteOps, Amounts
  <2> DEFINE tombs == [m.tombs EXCEPT ![op.item] = Larger(@, op.through)]
             live == Erased(m.live, {i \in {op.item} : m.live[i].rev <= op.through})
             o == [m EXCEPT !.tombs = tombs, !.live = live]
  <2>2. n = o
    BY <2>1 DEF Applied
  <2>3. tombs \in [Items -> Nat]
    BY <1>1, <2>1 DEF Larger
  <2>4. live \in [Items -> [rev : Nat, at : Nat]]
    BY <1>1, ErasedParts
  <2> HIDE DEF tombs, live
  <2>5. /\ o.generation = m.generation /\ o.got = m.got /\ o.fence = m.fence
        /\ o.consent = m.consent /\ o.tombs = tombs /\ o.live = live
    BY DEF Destinations
  <2>6. o \in Destinations
    BY <2>3, <2>4 DEF Destinations
  <2> HIDE DEF o, n
  <2>7. n \in Destinations /\ n.generation = m.generation /\ n.got = m.got
        /\ n.fence = m.fence /\ n.consent = m.consent /\ n.tombs = tombs /\ n.live = live
    BY <2>2, <2>5, <2>6
  <2> QED BY <2>1, <2>7 DEF n, tombs, live
<1>3. CASE op \in ScopeOps
  <2>1. op.type = "scope.delete" /\ op.through \in Nat
    BY <1>3 DEF ScopeOps
  <2> DEFINE fence == Larger(m.fence, op.through)
             live == Erased(m.live, {i \in Items : m.live[i].at <= op.through})
             o == [m EXCEPT !.fence = fence, !.live = live]
  <2>2. n = o
    BY <2>1 DEF Applied
  <2>3. fence \in Nat
    BY <1>1, <2>1 DEF Larger
  <2>4. live \in [Items -> [rev : Nat, at : Nat]]
    BY <1>1, ErasedParts
  <2> HIDE DEF fence, live
  <2>5. /\ o.generation = m.generation /\ o.got = m.got /\ o.fence = fence
        /\ o.consent = m.consent /\ o.tombs = m.tombs /\ o.live = live
    BY DEF Destinations
  <2>6. o \in Destinations
    BY <2>3, <2>4 DEF Destinations
  <2> HIDE DEF o, n
  <2>7. n \in Destinations /\ n.generation = m.generation /\ n.got = m.got
        /\ n.fence = fence /\ n.consent = m.consent /\ n.tombs = m.tombs /\ n.live = live
    BY <2>2, <2>5, <2>6
  <2> QED BY <2>1, <2>7 DEF n, fence, live
<1>4. CASE op \in ConsentOps
  <2>1. op.type \in {"consent.put", "consent.revoke"} /\ op.rev \in Nat
    BY <1>4 DEF ConsentOps, Amounts
  <2> DEFINE consent == IF op.rev > m.consent.rev
                        THEN [rev |-> op.rev, type |-> op.type] ELSE m.consent
             o == [m EXCEPT !.consent = consent]
  <2>2. n = o
    BY <2>1 DEF Applied
  <2>3. consent \in [rev : Nat, type : {"consent.put", "consent.revoke", "none"}]
    <3>1. m.consent \in [rev : Nat, type : {"consent.put", "consent.revoke", "none"}]
      BY DEF Destinations
    <3> QED BY <2>1, <3>1
  <2> HIDE DEF consent
  <2>5. /\ o.generation = m.generation /\ o.got = m.got /\ o.fence = m.fence
        /\ o.consent = consent /\ o.tombs = m.tombs /\ o.live = m.live
    BY DEF Destinations
  <2>6. o \in Destinations
    BY <2>3 DEF Destinations
  <2> HIDE DEF o, n
  <2>7. n \in Destinations /\ n.generation = m.generation /\ n.got = m.got
        /\ n.fence = m.fence /\ n.consent = consent /\ n.tombs = m.tombs /\ n.live = m.live
    BY <2>2, <2>5, <2>6
  <2> QED BY <2>1, <2>7 DEF n, consent
<1> QED BY <1>2, <1>3, <1>4 DEF ControlOps

LEMMA AcceptSteps ==
    ASSUME OutboxInv, NEW lane \in Lanes, Accept(lane)
    PROVE  OutboxInv'
<1> DEFINE k == KnownDestination
           p == Position(lane)
           op == db.log[lane][p]
           yes == [stamp |-> op.stamp, ok |-> TRUE]
           m == [k EXCEPT !.got[lane] = Append(@, yes)]
           n == Applied(m, op, p)
<1>1. /\ Batched(lane) /\ ~ Refuses(k, op, p)
      /\ UNCHANGED <<db, backedUp, changes, drawn, restores>>
  BY DEF Accept
<1>2. dest' = n
  BY DEF Accept, Decided
<1>3. /\ k \in Destinations /\ k.generation = db.generation
      /\ p = Len(k.got[lane]) + 1 /\ p \in Nat
      /\ p <= Len(db.log[lane])
      /\ op.stamp \in Nat
      /\ lane = "data" => op \in PutOps
      /\ lane = "control" => op \in ControlOps
  BY <1>1, BatchedParts
<1> HIDE DEF k, p, op
<1>4. yes \in Decisions /\ yes.stamp = op.stamp /\ yes.ok = TRUE
  BY <1>3 DEF Decisions
<1> HIDE DEF yes
<1>5. /\ m \in Destinations
      /\ m.generation = k.generation /\ m.fence = k.fence /\ m.consent = k.consent
      /\ m.live = k.live /\ m.tombs = k.tombs
      /\ m.got[lane] = Append(k.got[lane], yes)
      /\ \A l \in Lanes \ {lane} : m.got[l] = k.got[l]
  BY <1>3, <1>4, DecidedParts
<1> HIDE DEF m
<1>6. n \in Destinations /\ n.generation = m.generation /\ n.got = m.got
  <2>1. CASE lane = "data"
    <3>1. m \in Destinations /\ op \in PutOps /\ p \in Nat
      BY <1>3, <1>5, <2>1
    <3> QED BY <3>1, AppliedPut
  <2>2. CASE lane = "control"
    <3>1. m \in Destinations /\ op \in ControlOps /\ p \in Nat
      BY <1>3, <1>5, <2>2
    <3> QED BY <3>1, AppliedControl
  <2> QED BY <2>1, <2>2 DEF Lanes
<1>7. n.got[lane][p] = yes
  <2>1. k.got[lane] \in Seq(Decisions)
    BY <1>3, KnownParts
  <2> QED BY <1>3, <1>4, <1>5, <1>6, <2>1, Longer
<1>8. Further(db, k, n, lane)
  BY <1>3, <1>4, <1>5, <1>6, <1>7 DEF Further, op
<1>9. DbInv(db, drawn) /\ DecidedIsLog(db, k) /\ ControlIsApplied(db, k)
  BY DEF OutboxInv, k
<1>10. k.tombs \in [Items -> Nat]
  BY <1>3, KnownParts
<1>11. CASE lane = "data"
  <2>1. op \in PutOps /\ op.type = "item.put"
    BY <1>3, <1>11 DEF PutOps
  <2>2. ~ (op.rev <= k.tombs[op.item]) /\ ~ (p <= k.fence)
    BY <1>1, <2>1 DEF Refuses
  <2>3. /\ n.fence = m.fence /\ n.consent = m.consent /\ n.tombs = m.tombs
        /\ n.live = [m.live EXCEPT ![op.item] = [rev |-> op.rev, at |-> p]]
    <3>1. m \in Destinations /\ p \in Nat
      BY <1>3, <1>5
    <3> QED BY <2>1, <3>1, AppliedPut
  <2> HIDE DEF n
  <2>4. PutTaken(db, k, n, p)
    BY <1>5, <1>11, <2>2, <2>3 DEF PutTaken, op
  <2>5. ControlIsApplied(db, n) /\ (HoldsWhatIsPut(db, k) => HoldsWhatIsPut(db, n))
    BY <1>3, <1>8, <1>9, <1>11, <2>4, TakesPut
  <2>6. \A i \in Items : k.tombs[i] <= n.tombs[i]
    BY <1>5, <1>10, <2>3
  <2> QED BY <1>1, <1>2, <1>3, <1>5, <1>6, <1>8, <2>5, <2>6, DecisionStep DEF k
<1>12. CASE lane = "control"
  <2>1. op \in ControlOps
    BY <1>3, <1>12
  <2>2. \/ /\ op.type = "item.delete"
           /\ n.tombs = [m.tombs EXCEPT ![op.item] = Larger(@, op.through)]
           /\ n.live = Erased(m.live, {i \in {op.item} : m.live[i].rev <= op.through})
           /\ n.fence = m.fence /\ n.consent = m.consent
        \/ /\ op.type = "scope.delete"
           /\ n.fence = Larger(m.fence, op.through)
           /\ n.live = Erased(m.live, {i \in Items : m.live[i].at <= op.through})
           /\ n.tombs = m.tombs /\ n.consent = m.consent
        \/ /\ op.type \in {"consent.put", "consent.revoke"}
           /\ n.consent = IF op.rev > m.consent.rev
                          THEN [rev |-> op.rev, type |-> op.type] ELSE m.consent
           /\ n.fence = m.fence /\ n.tombs = m.tombs /\ n.live = m.live
    <3>1. m \in Destinations /\ p \in Nat
      BY <1>3, <1>5
    <3> QED BY <2>1, <3>1, AppliedControl
  <2> HIDE DEF n
  <2>3. ControlTaken(db, k, n, p)
    BY <1>5, <1>12, <2>2 DEF ControlTaken, op
  <2>4. ControlIsApplied(db, n) /\ (HoldsWhatIsPut(db, k) => HoldsWhatIsPut(db, n))
    BY <1>3, <1>8, <1>9, <1>12, <2>3, TakesControl
  <2>5. \A i \in Items : k.tombs[i] <= n.tombs[i]
    <3>1. CASE n.tombs = k.tombs
      BY <1>10, <3>1
    <3>2. CASE op.type = "item.delete" /\ n.tombs = [k.tombs EXCEPT ![op.item] = Larger(@, op.through)]
      <4>1. op.item \in Items /\ op.through \in Nat
        BY <2>1, <3>2 DEF ControlOps, ConsentOps, DeleteOps, ScopeOps, Amounts
      <4> QED BY <1>10, <3>2, <4>1 DEF Larger
    <3> QED BY <1>5, <2>2, <3>1, <3>2
  <2> QED BY <1>1, <1>2, <1>3, <1>5, <1>6, <1>8, <2>4, <2>5, DecisionStep DEF k
<1> QED BY <1>11, <1>12 DEF Lanes

\* The database but for the cursor or the receipts.
LEMMA DbInvOfSame ==
    ASSUME NEW d, NEW e, NEW ids, DbInv(d, ids), IsDb(e), e.log = d.log, e.consent = d.consent,
           e.live = d.live, e.tombs = d.tombs, \A i \in e.done : d.tombs[i] > 0
    PROVE  DbInv(e, ids)
<1>1. IsDb(d)
  BY DEF DbInv
<1>2. ItemsAreSettled(e, ids)
  BY DEF DbInv, ItemsAreSettled
<1>3. PutsAreOfItems(e)
  BY DEF DbInv, PutsAreOfItems
<1>4. DeletionsAreTold(e)
  BY DEF DbInv, DeletionsAreTold, TellsOf, Revision
<1>5. LiveIsTold(e)
  BY DEF DbInv, LiveIsTold, LiveItems, Revision
<1> QED BY <1>2, <1>3, <1>4, <1>5 DEF DbInv

LEMMA AcknowledgeSteps ==
    ASSUME OutboxInv, NEW ack \in Responses, Acknowledge(ack)
    PROVE  OutboxInv'
<1> DEFINE cursor == Larger(db.acked[ack.lane], ack.through)
           c == IF Skips(ack, cursor) THEN ack.rejected ELSE cursor
<1>1. /\ DbInv(db, drawn) /\ IsDb(db) /\ OutboxTypeOK
      /\ DecidedIsLog(db, KnownDestination) /\ ControlIsApplied(db, KnownDestination)
  BY DEF OutboxInv, DbInv
<1>2. dest \in Destinations
  BY <1>1 DEF OutboxTypeOK
<1>3. \A l \in Lanes : Len(dest.got[l]) \in Nat /\ DOMAIN dest.got[l] = 1 .. Len(dest.got[l])
  BY <1>2, KnownParts
<1>4. /\ ack.generation = dest.generation /\ ack.lane \in Lanes
      /\ ack.through \in Nat /\ ack.through <= Len(dest.got[ack.lane])
      /\ ack.lane = "data" => ack.rejected \in Nat /\ ack.rejected <= Len(dest.got["data"])
  <2>1. CASE ack \in {Respond("control", p - 1, p) : p \in 1 .. Len(dest.got["control"]) + 1}
    <3>1. PICK p \in 1 .. Len(dest.got["control"]) + 1 : ack = Respond("control", p - 1, p)
      BY <2>1
    <3>2. "control" \in Lanes /\ Len(dest.got["control"]) \in Nat
      BY <1>3 DEF Lanes
    <3>3. ack.generation = dest.generation /\ ack.lane = "control" /\ ack.through = p - 1
      BY <3>1 DEF Respond
    <3> QED BY <3>2, <3>3
  <2>2. CASE \E lane \in Lanes : ack \in {IF dest.got[lane][p].ok THEN Respond(lane, p, 0)
                                          ELSE Respond(lane, p - 1, p) : p \in DOMAIN dest.got[lane]}
    <3>1. PICK lane \in Lanes : ack \in {IF dest.got[lane][p].ok THEN Respond(lane, p, 0)
                                         ELSE Respond(lane, p - 1, p) : p \in DOMAIN dest.got[lane]}
      BY <2>2
    <3>2. PICK p \in DOMAIN dest.got[lane] :
            ack = IF dest.got[lane][p].ok THEN Respond(lane, p, 0) ELSE Respond(lane, p - 1, p)
      BY <3>1
    <3>3. p \in 1 .. Len(dest.got[lane]) /\ Len(dest.got[lane]) \in Nat
      BY <1>3
    <3>4. CASE ack = Respond(lane, p, 0)
      <4>1. /\ ack.generation = dest.generation /\ ack.lane = lane
            /\ ack.through = p /\ ack.rejected = 0
        BY <3>4 DEF Respond
      <4> QED BY <3>3, <4>1
    <3>5. CASE ack = Respond(lane, p - 1, p)
      <4>1. /\ ack.generation = dest.generation /\ ack.lane = lane
            /\ ack.through = p - 1 /\ ack.rejected = p
        BY <3>5 DEF Respond
      <4> QED BY <3>3, <4>1
    <3> QED BY <3>2, <3>4, <3>5
  <2> QED BY <2>1, <2>2 DEF Responses
<1>5. /\ ack.generation = db.generation
      /\ db' = [db EXCEPT !.acked[ack.lane] = c]
      /\ UNCHANGED <<backedUp, changes, drawn, restores, dest>>
  BY DEF Acknowledge
<1>6. KnownDestination = dest /\ dest.generation = db.generation
  BY <1>4, <1>5 DEF KnownDestination
<1>7. db.acked \in [Lanes -> Nat] /\ \A l \in Lanes : db.acked[l] <= Len(dest.got[l])
  BY <1>1, <1>6, DbParts DEF DecidedIsLog
<1>8. c \in Nat /\ c <= Len(dest.got[ack.lane])
  <2>1. cursor \in Nat /\ cursor <= Len(dest.got[ack.lane])
    BY <1>3, <1>4, <1>7 DEF Larger
  <2>2. CASE Skips(ack, cursor)
    <3>1. ack.lane = "data" /\ ack.rejected \in Nat /\ ack.rejected <= Len(dest.got["data"])
      BY <1>4, <2>2 DEF Skips
    <3> QED BY <2>2, <3>1
  <2>3. CASE ~ Skips(ack, cursor)
    BY <2>1, <2>3
  <2> QED BY <2>2, <2>3
<1> HIDE DEF c, cursor
<1>9. /\ db'.generation = db.generation /\ db'.log = db.log /\ db'.consent = db.consent
      /\ db'.live = db.live /\ db'.tombs = db.tombs /\ db'.done = db.done
      /\ db'.acked = [db.acked EXCEPT ![ack.lane] = c]
  BY <1>1, <1>5 DEF IsDb
<1>10. db'.acked \in [Lanes -> Nat] /\ \A l \in Lanes : db'.acked[l] <= Len(dest.got[l])
  BY <1>4, <1>7, <1>8, <1>9
<1>11. IsDb(db')
  <2>1. db' = [db EXCEPT !.acked = db'.acked]
    BY <1>5, <1>9
  <2> QED BY <1>1, <1>10, <2>1 DEF IsDb
<1>12. DbInv(db', drawn)
  <2>1. \A i \in db'.done : db.tombs[i] > 0
    BY <1>1, <1>9 DEF DbInv, ItemsAreSettled
  <2> QED BY <1>1, <1>9, <1>11, <2>1, DbInvOfSame
<1>13. KnownDestination' = dest
  BY <1>5, <1>6, <1>9 DEF KnownDestination
<1>14. DecidedIsLog(db', dest)
  BY <1>1, <1>6, <1>9, <1>10 DEF DecidedIsLog
<1>15. ControlIsApplied(db', dest)
  BY <1>1, <1>6, <1>9 DEF ControlIsApplied
<1>16. restores = 0 => HoldsWhatIsPut(db', dest)
  BY <1>6, <1>9 DEF OutboxInv, HoldsWhatIsPut, Revision
<1>17. OutboxTypeOK'
  BY <1>1, <1>5 DEF OutboxTypeOK
<1>18. /\ DbInv(backedUp', drawn')
       /\ backedUp'.generation <= db'.generation /\ dest'.generation <= db'.generation
       /\ \A i \in backedUp'.done : backedUp'.tombs[i] <= dest'.tombs[i]
  BY <1>5, <1>9 DEF OutboxInv
<1> QED BY <1>5, <1>12, <1>13, <1>14, <1>15, <1>16, <1>17, <1>18, OutboxInvAfter

LEMMA ReceiptSteps ==
    ASSUME OutboxInv, RecordDeletionReceipt
    PROVE  OutboxInv'
<1>1. /\ DbInv(db, drawn) /\ IsDb(db) /\ OutboxTypeOK
      /\ DecidedIsLog(db, KnownDestination) /\ ControlIsApplied(db, KnownDestination)
  BY DEF OutboxInv, DbInv
<1>2. KnownDestination = dest
  BY DEF RecordDeletionReceipt, KnownDestination
<1>3. PICK p \in DOMAIN dest.got["control"] \cap DOMAIN db.log["control"] :
        LET op == db.log["control"][p] IN
        /\ op.type = "item.delete"
        /\ db' = [db EXCEPT !.done =
                    @ \cup (IF db.tombs[op.item] <= op.through THEN {op.item} ELSE {})]
  BY DEF RecordDeletionReceipt
<1>4. UNCHANGED <<backedUp, changes, drawn, restores, dest>>
  BY DEF RecordDeletionReceipt
<1> DEFINE op == db.log["control"][p]
           more == IF db.tombs[op.item] <= op.through THEN {op.item} ELSE {}
<1>5. op.type = "item.delete" /\ db' = [db EXCEPT !.done = @ \cup more]
  BY <1>3
<1>6. op.item \in Items /\ op.through \in Nat /\ op.through > 0
  <2>1. db.log["control"] \in Seq(ControlOps)
    BY <1>1, DbParts
  <2>2. op \in ControlOps
    BY <2>1, Element
  <2> HIDE DEF op
  <2> QED BY <1>5, <2>2 DEF ControlOps, ConsentOps, DeleteOps, ScopeOps, Amounts
<1>7. op.through <= db.tombs[op.item] /\ op.through <= dest.tombs[op.item]
  <2>1. op.through <= db.tombs[op.item]
    BY <1>1, <1>5 DEF DbInv, DeletionsAreTold
  <2>2. op.through <= dest.tombs[op.item]
    BY <1>1, <1>2, <1>5 DEF ControlIsApplied
  <2> QED BY <2>1, <2>2
<1>8. db.tombs \in [Items -> Nat] /\ dest.tombs \in [Items -> Nat] /\ db.done \in SUBSET Items
  BY <1>1, DbParts, KnownParts DEF OutboxTypeOK
<1>9. \A i \in more : i \in Items /\ db.tombs[i] > 0 /\ db.tombs[i] <= dest.tombs[i]
  <2> HIDE DEF op
  <2> QED BY <1>6, <1>7, <1>8
<1> HIDE DEF more, op
<1>10. /\ db'.generation = db.generation /\ db'.log = db.log /\ db'.consent = db.consent
       /\ db'.live = db.live /\ db'.tombs = db.tombs /\ db'.acked = db.acked
       /\ db'.done = db.done \cup more
  BY <1>1, <1>5 DEF IsDb
<1>11. IsDb(db')
  <2>1. db' = [db EXCEPT !.done = db'.done]
    BY <1>5, <1>10
  <2>2. db'.done \in SUBSET Items
    BY <1>8, <1>9, <1>10
  <2> QED BY <1>1, <2>1, <2>2 DEF IsDb
<1>12. DbInv(db', drawn)
  <2>1. \A i \in db'.done : db.tombs[i] > 0
    BY <1>1, <1>9, <1>10 DEF DbInv, ItemsAreSettled
  <2> QED BY <1>1, <1>10, <1>11, <2>1, DbInvOfSame
<1>13. KnownDestination' = dest
  BY <1>2, <1>4, <1>10 DEF KnownDestination
<1>14. DecidedIsLog(db', dest)
  BY <1>1, <1>2, <1>10 DEF DecidedIsLog
<1>15. ControlIsApplied(db', dest)
  <2>1. \A i \in db'.done : db'.tombs[i] <= dest.tombs[i]
    BY <1>1, <1>2, <1>9, <1>10 DEF ControlIsApplied
  <2> QED BY <1>1, <1>2, <1>10, <2>1 DEF ControlIsApplied
<1>16. restores = 0 => HoldsWhatIsPut(db', dest)
  BY <1>2, <1>10 DEF OutboxInv, HoldsWhatIsPut, Revision
<1>17. OutboxTypeOK'
  BY <1>1, <1>4 DEF OutboxTypeOK
<1>18. /\ DbInv(backedUp', drawn')
       /\ backedUp'.generation <= db'.generation /\ dest'.generation <= db'.generation
       /\ \A i \in backedUp'.done : backedUp'.tombs[i] <= dest'.tombs[i]
  BY <1>4, <1>10 DEF OutboxInv
<1> QED BY <1>4, <1>12, <1>13, <1>14, <1>15, <1>16, <1>17, <1>18, OutboxInvAfter

LEMMA OutboxStart ==
    ASSUME OutboxInit
    PROVE  OutboxInv
<1> DEFINE d == EmptyDb
<1>1. /\ d.generation = 0 /\ d.acked = [l \in Lanes |-> 0] /\ d.log = [l \in Lanes |-> <<>>]
      /\ d.consent = <<>> /\ d.live = [i \in Items |-> [rev |-> 0, grant |-> 0]]
      /\ d.tombs = [i \in Items |-> 0] /\ d.done = {}
  BY DEF EmptyDb, NoItem
<1>2. IsDb(d)
  <2>1. <<>> \in Seq(PutOps \cup ControlOps) /\ <<>> \in Seq(PutOps) /\ <<>> \in Seq(ControlOps)
        /\ <<>> \in Seq({"consent.put", "consent.revoke"})
    OBVIOUS
  <2>2. [l \in Lanes |-> <<>>] \in [Lanes -> Seq(PutOps \cup ControlOps)]
    BY <2>1
  <2>3. [i \in Items |-> NoItem] \in [Items -> [rev : Nat, grant : Nat]]
    BY DEF NoItem
  <2>4. d \in [generation : Nat, log : [Lanes -> Seq(PutOps \cup ControlOps)],
                acked : [Lanes -> Nat], consent : Seq({"consent.put", "consent.revoke"}),
                live : [Items -> [rev : Nat, grant : Nat]], tombs : [Items -> Nat],
                done : SUBSET Items]
    BY <2>1, <2>2, <2>3 DEF EmptyDb
  <2> HIDE DEF d
  <2>5. d.log["data"] = <<>> /\ d.log["control"] = <<>>
    BY <1>1 DEF Lanes
  <2> QED BY <2>1, <2>4, <2>5 DEF IsDb
<1> HIDE DEF d
<1>3. DOMAIN d.log["data"] = {} /\ DOMAIN d.log["control"] = {}
  BY <1>1 DEF Lanes
<1>4. LiveItems(d) = {}
  BY <1>1 DEF LiveItems
<1>5. DbInv(d, {})
  <2>1. ItemsAreSettled(d, {})
    BY <1>1 DEF ItemsAreSettled
  <2>2. PutsAreOfItems(d)
    BY <1>3 DEF PutsAreOfItems
  <2>3. DeletionsAreTold(d)
    BY <1>1, <1>3 DEF DeletionsAreTold
  <2>4. LiveIsTold(d)
    BY <1>4 DEF LiveIsTold
  <2> QED BY <1>2, <2>1, <2>2, <2>3, <2>4 DEF DbInv
<1>6. /\ db = d /\ backedUp = d /\ changes = 0 /\ restores = 0 /\ drawn = {} /\ dest = EmptyDest
  BY DEF OutboxInit, d
<1> DEFINE k == EmptyDest
<1>7. /\ k.generation = 0 /\ k.got = [l \in Lanes |-> <<>>] /\ k.fence = 0
      /\ k.consent.rev = 0 /\ k.consent.type = "none"
      /\ \A i \in Items : k.live[i].rev = 0 /\ k.live[i].at = 0 /\ k.tombs[i] = 0
  BY DEF EmptyDest
<1>8. k \in Destinations
  <2>1. <<>> \in Seq(Decisions)
    OBVIOUS
  <2> QED BY <2>1 DEF EmptyDest, Destinations
<1> HIDE DEF k
<1>9. KnownDestination = k
  BY <1>1, <1>6, <1>7 DEF KnownDestination, k
<1>10. DecidedIsLog(d, k) /\ ControlIsApplied(d, k)
  BY <1>1, <1>2, <1>7, <1>8, KnownOfNew
<1>11. HoldsWhatIsPut(d, k)
  <2>1. DOMAIN k.got["data"] = {}
    BY <1>7 DEF Lanes
  <2>2. \A i \in Items : d.live[i].rev = 0 /\ d.tombs[i] = 0
    BY <1>1
  <2>3. Revision(d) = 0
    BY <1>1 DEF Revision
  <2> QED BY <1>7, <2>1, <2>2, <2>3 DEF HoldsWhatIsPut, Larger
<1>12. OutboxTypeOK
  BY <1>6, <1>8 DEF OutboxTypeOK, k
<1> QED BY <1>1, <1>5, <1>6, <1>7, <1>9, <1>10, <1>11, <1>12 DEF OutboxInv, k

-----------------------------------------------------------------------------
(* What the invariant gives                                                *)

LEMMA OutboxGivesCursor ==
    ASSUME OutboxInv
    PROVE  CursorCoversDecided
<1> SUFFICES ASSUME NEW lane \in Lanes, NEW p \in 1 .. db.acked[lane]
             PROVE  /\ dest.generation = db.generation
                    /\ p <= Len(dest.got[lane])
                    /\ dest.got[lane][p].stamp = db.log[lane][p].stamp
                    /\ lane = "control" => dest.got[lane][p].ok
  BY DEF CursorCoversDecided
<1> DEFINE k == KnownDestination
<1>1. IsDb(db) /\ OutboxTypeOK /\ DecidedIsLog(db, k)
  BY DEF OutboxInv, DbInv
<1>2. db.acked[lane] \in Nat /\ dest \in Destinations
  BY <1>1, DbParts DEF OutboxTypeOK
<1>3. /\ k \in Destinations
      /\ dest.generation = db.generation => k = dest
      /\ dest.generation # db.generation => k = Renewed(dest, db.generation)
  BY <1>1, KnownIs
<1> HIDE DEF k
<1>4. db.acked[lane] <= Len(k.got[lane]) /\ Len(k.got[lane]) \in Nat
      /\ DOMAIN k.got[lane] = 1 .. Len(k.got[lane])
  BY <1>1, <1>3, KnownParts DEF DecidedIsLog
<1>5. p \in DOMAIN k.got[lane] /\ p <= Len(k.got[lane])
  BY <1>2, <1>4
<1>6. dest.generation = db.generation
  <2> SUFFICES ASSUME dest.generation # db.generation
               PROVE  FALSE
    OBVIOUS
  <2>1. db.generation \in Nat
    BY <1>1, DbParts
  <2>2. k.got = [l \in Lanes |-> <<>>]
    <3>1. Renewed(dest, db.generation).got = [l \in Lanes |-> <<>>]
      BY <1>2, <2>1, RenewedParts
    <3>2. k = Renewed(dest, db.generation)
      BY <1>3
    <3> QED BY <3>1, <3>2
  <2>3. k.got[lane] = <<>>
    BY <2>2
  <2> QED BY <1>5, <2>3
<1>7. /\ k.got[lane][p].stamp = db.log[lane][p].stamp
      /\ lane = "control" => k.got[lane][p].ok = TRUE
  BY <1>1, <1>5 DEF DecidedIsLog
<1> QED BY <1>3, <1>5, <1>6, <1>7

LEMMA OutboxGivesDeletions ==
    ASSUME OutboxInv, NEW i \in Buried(db), Synced("control") \/ i \in db.done
    PROVE  dest.live[i].rev \notin 1 .. db.tombs[i]
<1> DEFINE k == KnownDestination
<1>1. IsDb(db) /\ OutboxTypeOK /\ DbInv(db, drawn) /\ ControlIsApplied(db, k)
  BY DEF OutboxInv, DbInv
<1>2. /\ k \in Destinations
      /\ dest.generation = db.generation => k = dest
      /\ k.tombs = dest.tombs /\ \A j \in Items : k.live[j].rev = dest.live[j].rev
  BY <1>1, KnownIs
<1> HIDE DEF k
<1>3. i \in Items /\ db.tombs[i] > 0 /\ db.tombs[i] \in Nat
  BY <1>1, DbParts DEF Buried
<1>4. /\ k.live[i].rev \in Nat /\ k.live[i].at \in Nat /\ k.tombs[i] \in Nat
      /\ k.live[i].rev \notin 1 .. k.tombs[i]
  <2>1. k.live \in [Items -> [rev : Nat, at : Nat]] /\ k.tombs \in [Items -> Nat]
    BY <1>2, KnownParts
  <2>2. k.live[i] \in [rev : Nat, at : Nat] /\ k.tombs[i] \in Nat
    BY <1>3, <2>1
  <2>3. k.live[i].rev \notin 1 .. k.tombs[i]
    BY <1>1, <1>3 DEF ControlIsApplied
  <2> QED BY <2>2, <2>3
<1>5. CASE db.tombs[i] <= k.tombs[i]
  BY <1>2, <1>3, <1>4, <1>5
<1>6. CASE i \in db.done
  <2>1. db.tombs[i] <= k.tombs[i]
    BY <1>1, <1>6 DEF ControlIsApplied
  <2> QED BY <1>5, <2>1
<1>7. CASE Synced("control")
  <2>1. k = dest /\ Len(k.got["control"]) = Len(db.log["control"])
    BY <1>2, <1>7 DEF Synced
  <2>2. "control" \in Lanes /\ "data" \in Lanes
    BY DEF Lanes
  <2>3. DOMAIN k.got["control"] = DOMAIN db.log["control"]
    <3>1. DOMAIN k.got["control"] = 1 .. Len(k.got["control"])
      BY <1>2, <2>2, KnownParts
    <3>2. db.log["control"] \in Seq(ControlOps)
      BY <1>1, DbParts
    <3> QED BY <2>1, <3>1, <3>2
  <2>4. PICK q \in DOMAIN db.log["control"] : TellsOf(db, i, db.log["control"][q])
    BY <1>1, <1>3 DEF DbInv, DeletionsAreTold
  <2> DEFINE op == db.log["control"][q]
  <2>5. CASE op.type = "item.delete" /\ op.item = i /\ op.through = db.tombs[i]
    <3>1. op.through <= k.tombs[op.item]
      BY <1>1, <2>3, <2>5 DEF ControlIsApplied
    <3> HIDE DEF op
    <3> QED BY <1>5, <2>5, <3>1
  <2>6. CASE /\ op.type = "scope.delete"
             /\ \A p \in DOMAIN db.log["data"] : db.log["data"][p].item = i => p <= op.through
    <3> SUFFICES ASSUME k.live[i].rev > 0
                 PROVE  FALSE
      BY <1>3, <1>4, <2>1
    <3>1. op.through < k.live[i].at
      BY <1>1, <1>3, <2>3, <2>6 DEF ControlIsApplied
    <3>2. op.through \in Nat
      <4>1. db.log["control"] \in Seq(ControlOps)
        BY <1>1, DbParts
      <4>2. op \in ControlOps
        BY <4>1, Element
      <4> HIDE DEF op
      <4> QED BY <2>6, <4>2 DEF ControlOps, ConsentOps, DeleteOps, ScopeOps
    <3> HIDE DEF op
    <3>3. k.live[i].at > 0
      BY <1>4, <3>1, <3>2
    <3>4. k.live[i].at \in DOMAIN k.got["data"] /\ db.log["data"][k.live[i].at].item = i
      BY <1>1, <1>3, <3>3 DEF ControlIsApplied
    <3>5. k.live[i].at \in DOMAIN db.log["data"]
      <4>1. Len(k.got["data"]) <= Len(db.log["data"])
        BY <2>2 DEF OutboxInv, DecidedIsLog, k
      <4>2. DOMAIN k.got["data"] = 1 .. Len(k.got["data"]) /\ Len(k.got["data"]) \in Nat
        BY <1>2, <2>2, KnownParts
      <4>3. db.log["data"] \in Seq(PutOps)
        BY <1>1, DbParts
      <4> QED BY <3>4, <4>1, <4>2, <4>3
    <3>6. k.live[i].at <= op.through
      BY <2>6, <3>4, <3>5
    <3> QED BY <1>4, <3>1, <3>2, <3>6
  <2> QED BY <2>4, <2>5, <2>6 DEF TellsOf
<1> QED BY <1>6, <1>7

LEMMA OutboxGivesLive ==
    ASSUME OutboxInv, restores = 0, Synced("control"), Synced("data"), NEW i \in Items
    PROVE  dest.live[i].rev = db.live[i].rev
<1> DEFINE k == KnownDestination
<1>1. /\ IsDb(db) /\ OutboxTypeOK /\ DbInv(db, drawn) /\ HoldsWhatIsPut(db, k)
      /\ k = dest
  BY DEF OutboxInv, DbInv, Synced, KnownDestination
<1>2. k \in Destinations
  BY <1>1 DEF OutboxTypeOK
<1> HIDE DEF k
<1>3. /\ db.live[i].rev \in Nat /\ db.tombs[i] \in Nat /\ k.live[i].rev \in Nat
  <2>1. k.live \in [Items -> [rev : Nat, at : Nat]]
    BY <1>2, KnownParts
  <2>2. db.live \in [Items -> [rev : Nat, grant : Nat]] /\ db.tombs \in [Items -> Nat]
    BY <1>1, DbParts
  <2>3. k.live[i] \in [rev : Nat, at : Nat] /\ db.live[i] \in [rev : Nat, grant : Nat]
    BY <2>1, <2>2
  <2> QED BY <2>2, <2>3
<1>4. k.live[i].rev <= Larger(db.live[i].rev, db.tombs[i])
  BY <1>1 DEF HoldsWhatIsPut
<1>5. CASE db.live[i].rev > 0
  <2>1. db.tombs[i] = 0
    BY <1>1, <1>3, <1>5 DEF DbInv, ItemsAreSettled
  <2>2. PICK p \in DOMAIN db.log["data"] :
          db.log["data"][p].item = i /\ db.log["data"][p].rev = db.live[i].rev
    BY <1>1, <1>5 DEF DbInv, LiveIsTold, LiveItems
  <2>3. p \in DOMAIN k.got["data"]
    <3>1. Len(k.got["data"]) = Len(db.log["data"])
      BY <1>1 DEF Synced
    <3>2. DOMAIN k.got["data"] = 1 .. Len(k.got["data"])
      BY <1>2, KnownParts DEF Lanes
    <3>3. db.log["data"] \in Seq(PutOps)
      BY <1>1, DbParts
    <3> QED BY <3>1, <3>2, <3>3
  <2>4. db.live[i].rev <= k.live[i].rev
    BY <1>1, <1>5, <2>2, <2>3 DEF HoldsWhatIsPut
  <2> QED BY <1>1, <1>3, <1>4, <2>1, <2>4 DEF Larger
<1>6. CASE db.live[i].rev = 0 /\ db.tombs[i] = 0
  BY <1>1, <1>3, <1>4, <1>6 DEF Larger
<1>7. CASE db.live[i].rev = 0 /\ db.tombs[i] > 0
  <2>1. dest.live[i].rev \notin 1 .. db.tombs[i]
    BY <1>7, OutboxGivesDeletions DEF Buried
  <2>2. k.live[i].rev <= db.tombs[i]
    BY <1>3, <1>4, <1>7 DEF Larger
  <2> QED BY <1>1, <1>3, <1>7, <2>1, <2>2
<1> QED BY <1>3, <1>5, <1>6, <1>7

-----------------------------------------------------------------------------
\* As long as a backup is not restored over a newer generation, what the
\* destination decided, holds and erased is told by what was enqueued, whatever
\* was answered, late or again.
THEOREM OutboxInvariant ==
    ASSUME ~ReusesBackups
    PROVE  OutboxSpec => []OutboxInv
<1>1. OutboxInit => OutboxInv
  BY OutboxStart
<1>2. OutboxInv /\ [OutboxNext]_outboxVars => OutboxInv'
  <2> SUFFICES ASSUME OutboxInv, [OutboxNext]_outboxVars
               PROVE  OutboxInv'
    OBVIOUS
  <2>1. CASE GrantConsent \/ RevokeConsent \/ DeleteScope
             \/ \E i \in Items : CaptureDecision(i) \/ ReviseDecision(i) \/ DeleteItem(i)
    BY <2>1, UserSteps
  <2>2. CASE BeginGeneration \/ Backup \/ Restore
    BY <2>2, BackupSteps
  <2>3. ASSUME NEW lane \in Lanes, Accept(lane)
        PROVE  OutboxInv'
    BY <2>3, AcceptSteps
  <2>4. CASE Refuse
    BY <2>4, RefuseSteps
  <2>5. ASSUME NEW ack \in Responses, Acknowledge(ack)
        PROVE  OutboxInv'
    BY <2>5, AcknowledgeSteps
  <2>6. CASE RecordDeletionReceipt
    BY <2>6, ReceiptSteps
  <2>7. CASE UNCHANGED outboxVars
    BY <2>7 DEF outboxVars, OutboxInv, OutboxTypeOK, KnownDestination
  <2> QED BY <2>1, <2>2, <2>3, <2>4, <2>5, <2>6, <2>7 DEF OutboxNext
<1> QED BY <1>1, <1>2, PTL DEF OutboxSpec

\* The cursor covers only what the destination decided on, no deleted revision
\* stays live there once the deletion is through, and both lanes through it
\* holds what the replica holds: for every number of items, revisions,
\* generations and answers.
THEOREM DestinationFollowed ==
    ASSUME ~ReusesBackups
    PROVE  OutboxSpec => []DestinationFollows
<1>1. OutboxInv => DestinationFollows
  BY OutboxGivesCursor, OutboxGivesDeletions, OutboxGivesLive DEF DestinationFollows, Converges
<1> QED BY <1>1, OutboxInvariant, PTL

-----------------------------------------------------------------------------
(* Numbers, and functions made of steps                                    *)

\* Of a set of numbers that is not empty, one is the least.
LEMMA LeastNumber ==
    ASSUME NEW S \in SUBSET Nat, S # {}
    PROVE  \E j \in S : \A k \in S : ~(k < j)
<1> DEFINE R == {ss \in Nat \X Nat : ss[1] < ss[2]}
<1>1. IsWellFoundedOn(R, Nat)
  BY NatLessThanWellFounded DEF OpToRel
<1>2. \E j \in S : \A k \in S : ~(<<k, j>> \in R)
  BY <1>1, WFMin
<1> QED BY <1>2

\* A set that has 0, and with a number the next, has those up to n.
LEMMA UpToN ==
    ASSUME NEW n \in Nat, NEW P, 0 \in P, \A k \in 1 .. n : k - 1 \in P => k \in P
    PROVE  \A k \in 0 .. n : k \in P
<1> DEFINE missing == {k \in 0 .. n : k \notin P}
<1>1. SUFFICES ASSUME missing # {} PROVE FALSE
  OBVIOUS
<1>2. PICK k \in missing : \A j \in missing : ~(j < k)
  <2>1. missing \in SUBSET Nat
    OBVIOUS
  <2> HIDE DEF missing
  <2> QED BY <1>1, <2>1, LeastNumber
<1>3. k \in 1 .. n /\ k - 1 \in 0 .. n /\ k - 1 < k
  OBVIOUS
<1> QED BY <1>2, <1>3

\* A function that begins with b and goes on by step.
Iterates(n, T, b, step) ==
    \E f \in [0 .. n -> T] : f[0] = b /\ \A k \in 1 .. n : f[k] = step[<<f[k - 1], k>>]

\* A step that stays in T makes a function on 0 .. n from a value of T.
LEMMA StepsMakeFunction ==
    ASSUME NEW n \in Nat, NEW T, NEW b \in T, NEW step \in [T \X (1 .. n) -> T]
    PROVE  Iterates(n, T, b, step)
<1> DEFINE Makes(f, m) == f[0] = b /\ \A k \in 1 .. m : f[k] = step[<<f[k - 1], k>>]
           P == {m \in 0 .. n : \E f \in [0 .. n -> T] : Makes(f, m)}
<1>1. 0 \in P
  <2>1. [k \in 0 .. n |-> b] \in [0 .. n -> T] /\ [k \in 0 .. n |-> b][0] = b
    OBVIOUS
  <2>2. \A k \in 1 .. 0 : FALSE
    OBVIOUS
  <2>3. 0 \in 0 .. n
    OBVIOUS
  <2>4. \E f \in [0 .. n -> T] : Makes(f, 0)
    BY <2>1, <2>2
  <2> QED BY <2>3, <2>4
<1>2. ASSUME NEW m \in 1 .. n, m - 1 \in P
      PROVE  m \in P
  <2>1. m - 1 \in 0 .. n /\ m \in 0 .. n /\ m \in Nat /\ m # 0
    OBVIOUS
  <2>2. PICK f \in [0 .. n -> T] : Makes(f, m - 1)
    BY <1>2
  <2> DEFINE g == [f EXCEPT ![m] = step[<<f[m - 1], m>>]]
  <2>3. f[m - 1] \in T
    BY <2>1
  <2>4. step[<<f[m - 1], m>>] \in T
    <3>1. <<f[m - 1], m>> \in T \X (1 .. n)
      BY <2>3
    <3> QED BY <3>1
  <2>5. g \in [0 .. n -> T]
    BY <2>4
  <2>6. g[0] = f[0]
    BY <2>1
  <2>7. ASSUME NEW k \in 1 .. m
        PROVE  g[k] = step[<<g[k - 1], k>>]
    <3>0. k - 1 \in 0 .. n /\ k - 1 # m /\ k \in 0 .. n
      BY <2>1
    <3>1. g[k - 1] = f[k - 1]
      BY <3>0
    <3>2. CASE k = m
      BY <3>0, <3>1, <3>2
    <3>3. CASE k # m
      <4>1. k \in 1 .. m - 1 /\ g[k] = f[k]
        BY <2>1, <3>0, <3>3
      <4> QED BY <2>2, <3>1, <4>1
    <3> QED BY <3>2, <3>3
  <2>8. Makes(g, m)
    <3> HIDE DEF g
    <3> QED BY <2>2, <2>6, <2>7
  <2> HIDE DEF Makes, g
  <2> QED BY <2>1, <2>5, <2>8
<1>3. n \in P
  <2>1. n \in 0 .. n
    OBVIOUS
  <2> HIDE DEF P
  <2> QED BY <1>1, <1>2, <2>1, UpToN
<1>4. PICK f \in [0 .. n -> T] : Makes(f, n)
  BY <1>3
<1> QED BY <1>4 DEF Iterates

-----------------------------------------------------------------------------
(* Alerts                                                                  *)

AlertsKept == [key : Keys, state : {"active", "acknowledged", "recovered"}]

LedgerTypeOK ==
    ledger \in [alerts : Seq(AlertsKept), notified : [Keys -> Int],
                trust : Trusts \cup {"unknown"}, gap : Int]

AlertsTypeOK ==
    /\ LedgerTypeOK
    /\ observed \in [queue : {0, GrowthFiles, Uncounted}, big : BOOLEAN, gap : Int,
                     open : BOOLEAN, trust : Trusts]
    /\ known \in Trusts \cup {"unknown"}
    /\ bounds \in [evaluations : Nat, changes : Nat]

\* What is picked up to a position: a sequence of the elements picked.
PickedUpTo(f, s, I, n) ==
    /\ f[n] \in Seq({s[i] : i \in I})
    /\ Len(f[n]) <= n
    /\ \A i \in I : i <= n => \E j \in DOMAIN f[n] : f[n][j] = s[i]

\* What is picked of a sequence are its elements at the positions.
LEMMA PickedHas ==
    ASSUME NEW T, NEW s \in Seq(T), NEW I, I \subseteq DOMAIN s
    PROVE  /\ Picked(s, I) \in Seq({s[i] : i \in I})
           /\ Len(Picked(s, I)) <= Len(s)
           /\ \A i \in I : \E j \in DOMAIN Picked(s, I) : Picked(s, I)[j] = s[i]
<1> DEFINE Body(f, k) == IF k = 0 THEN <<>> ELSE IF k \in I THEN Append(f[k - 1], s[k]) ELSE f[k - 1]
           picked == CHOOSE f : f = [k \in 0 .. Len(s) |-> Body(f, k)]
           right == {n \in 0 .. Len(s) : PickedUpTo(picked, s, I, n)}
           R == {s[i] : i \in I}
<1>1. Len(s) \in Nat /\ DOMAIN s = 1 .. Len(s)
  OBVIOUS
<1>2. picked = [k \in 0 .. Len(s) |-> Body(picked, k)]
  <2> DEFINE step == [x \in Seq(T) \X (1 .. Len(s)) |->
                        IF x[2] \in I THEN Append(x[1], s[x[2]]) ELSE x[1]]
  <2>1. step \in [Seq(T) \X (1 .. Len(s)) -> Seq(T)]
    OBVIOUS
  <2>2. PICK f \in [0 .. Len(s) -> Seq(T)] :
           f[0] = <<>> /\ \A k \in 1 .. Len(s) : f[k] = step[<<f[k - 1], k>>]
    <3> DEFINE U == Seq(T)
               e == <<>>
               n == Len(s)
    <3>1. e \in U /\ n \in Nat /\ step \in [U \X (1 .. n) -> U]
      BY <1>1, <2>1
    <3> HIDE DEF step, U, e, n
    <3>2. Iterates(n, U, e, step)
      BY <3>1, StepsMakeFunction
    <3> QED BY <3>2 DEF U, e, n, Iterates
  <2>3. ASSUME NEW k \in 0 .. Len(s)
        PROVE  f[k] = Body(f, k)
    <3>1. k = 0 \/ (k # 0 /\ k \in 1 .. Len(s) /\ k - 1 \in 0 .. Len(s))
      BY <1>1
    <3>2. CASE k \in 1 .. Len(s) /\ k - 1 \in 0 .. Len(s) /\ k # 0
      <4>1. f[k - 1] \in Seq(T)
        BY <3>2
      <4>2. step[<<f[k - 1], k>>] = IF k \in I THEN Append(f[k - 1], s[k]) ELSE f[k - 1]
        BY <3>2, <4>1
      <4> QED BY <2>2, <3>2, <4>2
    <3> QED BY <2>2, <3>1, <3>2
  <2>4. f = [k \in 0 .. Len(s) |-> Body(f, k)]
    <3> HIDE DEF Body
    <3> QED BY <2>3
  <2> QED BY <2>4
<1>3. Picked(s, I) = picked[Len(s)]
  BY DEF Picked
<1> HIDE DEF picked
<1>4. \A k \in 0 .. Len(s) : picked[k] = Body(picked, k)
  BY <1>2
<1>5. 0 \in right
  <2>1. picked[0] = <<>>
    BY <1>1, <1>4
  <2>2. \A i \in I : ~(i <= 0)
    BY <1>1
  <2>3. picked[0] \in Seq(R) /\ Len(picked[0]) <= 0
    BY <2>1
  <2>4. PickedUpTo(picked, s, I, 0)
    BY <2>2, <2>3 DEF PickedUpTo
  <2>5. 0 \in 0 .. Len(s)
    BY <1>1
  <2> QED BY <2>4, <2>5
<1>6. ASSUME NEW n \in 1 .. Len(s), n - 1 \in right
      PROVE  n \in right
  <2>1. n \in 0 .. Len(s) /\ n # 0 /\ n \in DOMAIN s /\ n \in Nat
    BY <1>1
  <2>2. picked[n] = IF n \in I THEN Append(picked[n - 1], s[n]) ELSE picked[n - 1]
    BY <1>4, <2>1
  <2> DEFINE before == picked[n - 1]
  <2>3. /\ before \in Seq(R) /\ Len(before) <= n - 1
        /\ \A i \in I : i <= n - 1 => \E j \in DOMAIN before : before[j] = s[i]
    BY <1>6 DEF PickedUpTo
  <2> HIDE DEF before
  <2>4. CASE n \in I
    <3>1. s[n] \in R
      BY <2>4
    <3> HIDE DEF R
    <3>2. picked[n] = Append(before, s[n])
      BY <2>2, <2>4 DEF before
    <3>3. Append(before, s[n]) \in Seq(R) /\ Len(Append(before, s[n])) = Len(before) + 1
      BY <2>3, <3>1
    <3>4. ASSUME NEW i \in I, i <= n
          PROVE  \E j \in DOMAIN Append(before, s[n]) : Append(before, s[n])[j] = s[i]
      <4>1. CASE i = n
        <5>1. Append(before, s[n])[Len(before) + 1] = s[n]
          BY <2>3
        <5>2. Len(before) + 1 \in DOMAIN Append(before, s[n])
          BY <2>3
        <5> QED BY <4>1, <5>1, <5>2
      <4>2. CASE i # n
        <5>1. i <= n - 1
          BY <1>1, <2>1, <3>4, <4>2
        <5>2. PICK j \in DOMAIN before : before[j] = s[i]
          BY <2>3, <5>1
        <5>3. j \in DOMAIN Append(before, s[n]) /\ Append(before, s[n])[j] = before[j]
          BY <2>3
        <5> QED BY <5>2, <5>3
      <4> QED BY <4>1, <4>2
    <3>5. Len(Append(before, s[n])) <= n
      BY <2>1, <2>3, <3>3
    <3>6. PickedUpTo(picked, s, I, n)
      BY <3>2, <3>3, <3>4, <3>5 DEF PickedUpTo, R
    <3> QED BY <2>1, <3>6
  <2>5. CASE n \notin I
    <3>1. picked[n] = before
      BY <2>2, <2>5 DEF before
    <3>2. ASSUME NEW i \in I, i <= n
          PROVE  \E j \in DOMAIN before : before[j] = s[i]
      <4>1. i <= n - 1
        BY <1>1, <2>1, <2>5, <3>2
      <4> QED BY <2>3, <4>1
    <3>3. Len(before) <= n
      BY <2>1, <2>3
    <3>4. PickedUpTo(picked, s, I, n)
      BY <2>3, <3>1, <3>2, <3>3 DEF PickedUpTo
    <3> QED BY <2>1, <3>4
  <2> QED BY <2>4, <2>5
<1>7. Len(s) \in right
  <2>1. Len(s) \in 0 .. Len(s)
    BY <1>1
  <2> HIDE DEF right
  <2> QED BY <1>1, <1>5, <1>6, <2>1, UpToN
<1>8. \A i \in I : i <= Len(s)
  BY <1>1
<1> QED BY <1>3, <1>7, <1>8 DEF PickedUpTo

\* Raised alerts are a sequence of alerts under different keys.
LEMMA NewAlertsType ==
    ASSUME AlertsAssumption, NEW trust
    PROVE  NewAlerts(trust) \in Seq(AlertsKept)
<1> DEFINE S == Raised(trust)
           n == Cardinality(S)
           Orders(s) == \A i, j \in DOMAIN s : i # j => s[i] # s[j]
<1>1. S \subseteq Keys /\ IsFiniteSet(S)
  <2>1. MaxChanges \in Nat
    BY AlertsAssumption
  <2>2. IsFiniteSet(Keys)
    <3>1. Keys \subseteq -3 .. MaxChanges
      BY <2>1 DEF Keys, Gaps, SizeKey, GrowthKey, HookKey
    <3>2. IsFiniteSet(-3 .. MaxChanges)
      BY <2>1, FS_Interval
    <3> QED BY <3>1, <3>2, FS_Subset
  <2>3. S \subseteq Keys
    BY DEF Raised, Conditions
  <2> QED BY <2>2, <2>3, FS_Subset
<1>2. n \in Nat /\ \E s \in [1 .. n -> S] : Orders(s)
  <2>1. n \in Nat /\ ExistsBijection(1 .. n, S)
    BY <1>1, FS_CardinalityType
  <2>2. PICK s : s \in Bijection(1 .. n, S)
    BY <2>1 DEF ExistsBijection
  <2>3. s \in [1 .. n -> S] /\ Orders(s)
    BY <2>2 DEF Bijection, Injection, IsInjective
  <2> QED BY <2>1, <2>3
<1>3. Order(S) \in [1 .. n -> S]
  BY <1>2 DEF Order
<1>4. NewAlerts(trust) = [i \in 1 .. n |-> [key |-> Order(S)[i], state |-> "active"]]
  BY <1>3 DEF NewAlerts
<1>5. \A i \in 1 .. n : [key |-> Order(S)[i], state |-> "active"] \in AlertsKept
  BY <1>1, <1>3 DEF AlertsKept
<1> HIDE DEF n, S
<1> QED BY <1>2, <1>4, <1>5

\* What a step keeps of the ledger, and what it puts before it.
LEMMA RetainedHas ==
    ASSUME AlertsAssumption, LedgerTypeOK, NEW trust
    PROVE  /\ Retained(trust) \in Seq(AlertsKept)
           /\ Len(Retained(trust)) < MaxRetained =>
                \A i \in DOMAIN ledger.alerts : ~Lapses(ledger.alerts[i], trust) =>
                  \E j \in DOMAIN Retained(trust) : Retained(trust)[j] = ledger.alerts[i]
<1> DEFINE alerts == ledger.alerts
           stays == {i \in DOMAIN alerts : ~Lapses(alerts[i], trust)}
           goes == {i \in DOMAIN alerts : Lapses(alerts[i], trust)}
           kept == Picked(alerts, stays)
           over == Picked(alerts, goes)
           front == Lapsed(trust) \o NewAlerts(trust)
           whole == front \o kept
<1>1. alerts \in Seq(AlertsKept)
  BY DEF LedgerTypeOK
<1>2. /\ kept \in Seq({alerts[i] : i \in stays})
      /\ \A i \in stays : \E j \in DOMAIN kept : kept[j] = alerts[i]
  <2>1. stays \subseteq DOMAIN alerts
    OBVIOUS
  <2> HIDE DEF stays, alerts
  <2> QED BY <1>1, <2>1, PickedHas
<1>3. over \in Seq({alerts[i] : i \in goes})
  <2>1. goes \subseteq DOMAIN alerts
    OBVIOUS
  <2> HIDE DEF goes, alerts
  <2> QED BY <1>1, <2>1, PickedHas
<1>4. kept \in Seq(AlertsKept) /\ over \in Seq(AlertsKept)
  <2>1. {alerts[i] : i \in stays} \subseteq AlertsKept /\ {alerts[i] : i \in goes} \subseteq AlertsKept
    BY <1>1
  <2> HIDE DEF kept, over, stays, goes, alerts
  <2> QED BY <1>2, <1>3, <2>1
<1> HIDE DEF kept, over
<1>5. Lapsed(trust) \in Seq(AlertsKept)
  <2>1. Lapsed(trust) = [i \in DOMAIN over |-> Recovered(over[i])]
    BY DEF Lapsed, over
  <2>2. \A i \in DOMAIN over : Recovered(over[i]) \in AlertsKept
    <3> SUFFICES ASSUME NEW a \in AlertsKept PROVE Recovered(a) \in AlertsKept
      BY <1>4
    <3> QED BY DEF Recovered, AlertsKept
  <2> QED BY <1>4, <2>1, <2>2
<1>6. front \in Seq(AlertsKept)
  BY <1>5, NewAlertsType
<1> HIDE DEF front
<1>7. /\ whole \in Seq(AlertsKept)
      /\ \A j \in DOMAIN kept :
           Len(front) + j \in DOMAIN whole /\ whole[Len(front) + j] = kept[j]
  BY <1>4, <1>6
<1>8. Retained(trust) = FirstOf(whole, MaxRetained)
  BY DEF Retained, kept, front
<1> HIDE DEF whole
<1>9. MaxRetained \in Nat
  BY AlertsAssumption
<1>10. CASE Len(whole) < MaxRetained
  <2>1. Retained(trust) = whole
    BY <1>7, <1>8, <1>9, <1>10 DEF FirstOf
  <2> QED BY <1>2, <1>7, <2>1
<1>11. CASE ~(Len(whole) < MaxRetained)
  <2>1. Retained(trust) = SubSeq(whole, 1, MaxRetained)
    BY <1>8, <1>11 DEF FirstOf
  <2>2. Retained(trust) \in Seq(AlertsKept) /\ Len(Retained(trust)) = MaxRetained
    BY <1>7, <1>9, <1>11, <2>1
  <2> QED BY <1>9, <2>2
<1> QED BY <1>10, <1>11

-----------------------------------------------------------------------------
\* The types of the ledger and of what is observed.
LEMMA AlertsInitType ==
    AlertsInit => AlertsTypeOK
BY AlertsAssumption DEF AlertsInit, AlertsTypeOK, LedgerTypeOK, Trusts, Never, Uncounted

LEMMA EvaluateType ==
    ASSUME AlertsTypeOK, NEW trust \in Trusts \cup {"unknown"}, Evaluate(trust)
    PROVE  LedgerTypeOK' /\ bounds' \in [evaluations : Nat, changes : Nat]
<1>1. ledger' = [alerts   |-> Retained(trust),
                 notified |-> Notified(trust),
                 trust    |-> IF trust = "unknown" THEN ledger.trust ELSE trust,
                 gap      |-> IF observed.gap = 0 THEN ledger.gap ELSE observed.gap]
  BY DEF Evaluate
<1>2. Retained(trust) \in Seq(AlertsKept)
  BY AlertsAssumption, RetainedHas DEF AlertsTypeOK
<1>3. Notified(trust) \in [Keys -> Int]
  <2>1. Never \in Int /\ bounds.evaluations + 1 \in Int /\ \A k \in Keys : ledger.notified[k] \in Int
    BY AlertsAssumption DEF AlertsTypeOK, LedgerTypeOK, Never
  <2> QED BY <2>1 DEF Notified
<1>4. ledger.trust \in Trusts \cup {"unknown"} /\ ledger.gap \in Int /\ observed.gap \in Int
  BY DEF AlertsTypeOK, LedgerTypeOK
<1>5. LedgerTypeOK'
  BY <1>1, <1>2, <1>3, <1>4 DEF LedgerTypeOK
<1>6. bounds' \in [evaluations : Nat, changes : Nat]
  BY DEF Evaluate, AlertsTypeOK
<1> QED BY <1>5, <1>6

\* An acknowledgement puts its alert before the others, and loses none of them.
LEMMA AcknowledgeKeeps ==
    ASSUME LedgerTypeOK, AcknowledgeAlert
    PROVE  /\ LedgerTypeOK'
           /\ AckedKeys \subseteq AckedKeys'
<1> DEFINE alerts == ledger.alerts
<1>0. alerts \in Seq(AlertsKept)
  BY DEF LedgerTypeOK
<1>1. PICK i \in DOMAIN alerts :
        /\ alerts[i].state = "active"
        /\ ledger' = [ledger EXCEPT !.alerts =
             <<[alerts[i] EXCEPT !.state = "acknowledged"]>>
               \o Picked(alerts, {j \in DOMAIN alerts : alerts[j] # alerts[i]})]
  BY DEF AcknowledgeAlert
<1> DEFINE I == {j \in DOMAIN alerts : alerts[j] # alerts[i]}
           others == Picked(alerts, I)
           acked == [alerts[i] EXCEPT !.state = "acknowledged"]
<1>2. others \in Seq({alerts[j] : j \in I}) /\ \A j \in I : \E k \in DOMAIN others : others[k] = alerts[j]
  <2>1. I \subseteq DOMAIN alerts
    OBVIOUS
  <2> HIDE DEF I, alerts
  <2> QED BY <1>0, <2>1, PickedHas
<1>3. others \in Seq(AlertsKept)
  <2>1. {alerts[j] : j \in I} \subseteq AlertsKept
    BY <1>0
  <2> HIDE DEF others, I, alerts
  <2> QED BY <1>2, <2>1
<1> HIDE DEF others
<1>4. acked \in AlertsKept
  <2>1. alerts[i] \in AlertsKept
    BY <1>0
  <2> HIDE DEF alerts
  <2> QED BY <2>1 DEF AlertsKept
<1> HIDE DEF acked
<1>5. /\ <<acked>> \o others \in Seq(AlertsKept)
      /\ \A k \in DOMAIN others : /\ k + 1 \in DOMAIN (<<acked>> \o others)
                                  /\ (<<acked>> \o others)[k + 1] = others[k]
  BY <1>3, <1>4
<1>6. ledger'.alerts = <<acked>> \o others /\ ledger' = [ledger EXCEPT !.alerts = <<acked>> \o others]
  BY <1>1 DEF LedgerTypeOK, others, acked
<1>7. LedgerTypeOK'
  BY <1>5, <1>6 DEF LedgerTypeOK
<1>8. ASSUME NEW j \in DOMAIN alerts, alerts[j].state = "acknowledged"
      PROVE  alerts[j].key \in AckedKeys'
  <2>1. j \in I
    BY <1>1, <1>8
  <2>2. PICK k \in DOMAIN others : others[k] = alerts[j]
    BY <1>2, <2>1
  <2>3. k + 1 \in DOMAIN ledger'.alerts /\ ledger'.alerts[k + 1] = alerts[j]
    BY <1>5, <1>6, <2>2
  <2> QED BY <1>8, <2>3 DEF AckedKeys
<1> QED BY <1>7, <1>8 DEF AckedKeys

LEMMA AlertsNextType ==
    ASSUME AlertsTypeOK, [AlertsNext]_alertVars
    PROVE  AlertsTypeOK'
<1>1. CASE SampleOperations
  BY <1>1, EvaluateType DEF SampleOperations, AlertsTypeOK
<1>2. CASE RefreshTrust
  <2>1. known' \in Trusts \cup {"unknown"} /\ Evaluate(known')
    BY <1>2 DEF RefreshTrust, AlertsTypeOK
  <2>2. LedgerTypeOK' /\ bounds' \in [evaluations : Nat, changes : Nat]
    BY <2>1, EvaluateType
  <2> QED BY <1>2, <2>1, <2>2 DEF RefreshTrust, AlertsTypeOK
<1>3. CASE PublishAlert \/ UNCHANGED alertVars
  BY <1>3 DEF PublishAlert, alertVars, AlertsTypeOK, LedgerTypeOK
<1>4. CASE AcknowledgeAlert
  BY <1>4, AcknowledgeKeeps DEF AcknowledgeAlert, AlertsTypeOK
<1>5. CASE Change
  <2>1. LedgerTypeOK'
    BY <1>5 DEF Change, AlertsTypeOK, LedgerTypeOK
  <2>2. observed' \in [queue : {0, GrowthFiles, Uncounted}, big : BOOLEAN, gap : Int,
                        open : BOOLEAN, trust : Trusts]
    <3>1. bounds.changes + 1 \in Int
      BY DEF AlertsTypeOK
    <3>2. \/ \E n \in {0, GrowthFiles, Uncounted} : observed' = [observed EXCEPT !.queue = n]
          \/ observed' = [observed EXCEPT !.big = ~@]
          \/ observed' = [observed EXCEPT !.gap = bounds.changes + 1, !.open = TRUE]
          \/ observed' = [observed EXCEPT !.open = FALSE]
          \/ \E t \in Trusts : observed' = [observed EXCEPT !.trust = t]
      BY <1>5 DEF Change
    <3> QED BY <3>1, <3>2 DEF AlertsTypeOK
  <2>3. known' = known /\ bounds' = [bounds EXCEPT !.changes = @ + 1]
    BY <1>5 DEF Change
  <2> QED BY <2>1, <2>2, <2>3 DEF AlertsTypeOK
<1>6. CASE RestartDaemon
  <2>1. /\ known' = "unknown" /\ bounds' = [bounds EXCEPT !.changes = @ + 1]
        /\ observed' = observed /\ ledger' = ledger
    BY <1>6 DEF RestartDaemon
  <2> QED BY <2>1 DEF AlertsTypeOK, LedgerTypeOK
<1> QED BY <1>1, <1>2, <1>3, <1>4, <1>5, <1>6 DEF AlertsNext

\* The ledger is a sequence of alerts, in every reachable state.
THEOREM AlertsType ==
    AlertsSpec => []AlertsTypeOK
<1>1. AlertsInit => AlertsTypeOK
  BY AlertsInitType
<1>2. AlertsTypeOK /\ [AlertsNext]_alertVars => AlertsTypeOK'
  BY AlertsNextType
<1> QED BY <1>1, <1>2, PTL DEF AlertsSpec

\* An evaluation forgets an acknowledgement only of a condition that is gone,
\* or when it fills the ledger.
LEMMA EvaluateKeepsAcked ==
    ASSUME AlertsTypeOK, NEW trust, Evaluate(trust), (Len(ledger.alerts) < MaxRetained)',
           NEW k \in AckedKeys, k \in Conditions(trust)
    PROVE  k \in AckedKeys'
<1> DEFINE alerts == ledger.alerts
<1>1. ledger'.alerts = Retained(trust)
  BY DEF Evaluate
<1>2. PICK i \in DOMAIN alerts : alerts[i].state = "acknowledged" /\ alerts[i].key = k
  BY DEF AckedKeys
<1>3. ~Lapses(alerts[i], trust)
  BY <1>2 DEF Lapses
<1>4. PICK j \in DOMAIN Retained(trust) : Retained(trust)[j] = alerts[i]
  BY <1>1, <1>3, AlertsAssumption, RetainedHas DEF AlertsTypeOK
<1> QED BY <1>1, <1>2, <1>4 DEF AckedKeys

LEMMA StepKeepsAcked ==
    ASSUME AlertsTypeOK, [AlertsNext]_alertVars, (Len(ledger.alerts) < MaxRetained)'
    PROVE  \A k \in AckedKeys : k \in AckedKeys' \/ k \notin Conditions(known')
<1>1. CASE SampleOperations
  BY <1>1, EvaluateKeepsAcked DEF SampleOperations
<1>2. CASE RefreshTrust
  BY <1>2, EvaluateKeepsAcked DEF RefreshTrust
<1>3. CASE AcknowledgeAlert
  BY <1>3, AcknowledgeKeeps DEF AlertsTypeOK
<1>4. CASE PublishAlert \/ Change \/ RestartDaemon \/ UNCHANGED alertVars
  BY <1>4 DEF PublishAlert, Change, RestartDaemon, alertVars, AckedKeys
<1> QED BY <1>1, <1>2, <1>3, <1>4 DEF AlertsNext

\* "Acknowledgement remains until recovery", as long as the ledger has room:
\* an acknowledged alert is the ledger's until its condition is gone.
THEOREM AcknowledgementRemains ==
    AlertsSpec /\ [](Len(ledger.alerts) < MaxRetained) => AcknowledgementHolds
<1>1. /\ AlertsTypeOK /\ [AlertsNext]_alertVars
      /\ (Len(ledger.alerts) < MaxRetained)'
      => [\A k \in AckedKeys : k \in AckedKeys' \/ k \notin Conditions(known')]_alertVars
  BY StepKeepsAcked
<1> QED BY <1>1, AlertsType, PTL DEF AlertsSpec, AcknowledgementHolds
=============================================================================
