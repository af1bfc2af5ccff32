----------------------------- MODULE Explainer -----------------------------
(***************************************************************************)
(* When a session is explained.  Each live coordinator asks a helper       *)
(* program at the boundaries its stop names; two helpers run at most,      *)
(* counting those that write a reader's presentation.  A call is aborted   *)
(* when the stop becomes off and when its coordinator is put away, may     *)
(* time out, and its process ends some time after it was killed.           *)
(***************************************************************************)
EXTENDS Integers, FiniteSets

CONSTANTS
    Sessions,
    Nowhere,      \* whom the call of a closed coordinator answers
    Reader,         \* whom the call for a presentation answers
    MaxHelpers,   \* MAX_EXPLAINER_PROCESSES
    MaxEvents,    \* bound on the events of a session
    MaxStops      \* bound on the choices of a stop

ASSUME ExplainerAssumption ==
    /\ {MaxHelpers, MaxEvents, MaxStops} \subseteq Nat
    /\ Nowhere \notin Sessions /\ Reader \notin Sessions /\ Nowhere # Reader

VARIABLES
    cadence,   \* the stop in force: "off", "session" or "turn"
    stops,     \* how often it was chosen
    live,      \* the sessions that have a coordinator
    latest,    \* latestSeq of each session
    based,     \* basedOnSeq of its newest explanation; 0: none
    turn,      \* its last turn: "none", "working" or "ended"
    covered,   \* explainedSeq of the coordinator; 0: none
    status,    \* explanationStatus of the coordinator
    idle,      \* the sessions whose idleEndTimer is armed
    calls,     \* the calls not delivered, and the processes not reaped
    active     \* the slots taken

sessionVars == <<latest, based, turn>>
coordinatorVars == <<live, covered, status, idle>>
callVars == <<calls, active>>
explainerVars == <<cadence, stops, sessionVars, coordinatorVars, callVars>>

-----------------------------------------------------------------------------
(* Calls                                                                   *)

\* A call is forgotten once it is delivered and its process is gone.
Without(c) == calls \ {c}
Kept(c) == IF c.stage = "delivered" /\ ~c.process THEN {} ELSE {c}

\* Those whose slot is not given back yet.
Held(cs) == Cardinality({c \in cs : c.stage = "generating"})

\* acquireExplainerSlot: beyond the limit the call fails without a process.
BeginCall(who, seq, others, free) ==
    LET stage == IF free < MaxHelpers THEN "generating" ELSE "failed" IN
    /\ calls' = others \cup {[who |-> who, seq |-> seq, stage |-> stage,
                              aborted |-> FALSE, process |-> stage = "generating"]}
    /\ active' = IF free < MaxHelpers THEN free + 1 ELSE free

Aborted(c, who) ==
    [c EXCEPT !.who = who, !.aborted = TRUE,
              !.stage = IF @ = "generating" THEN "failed" ELSE @]

Timeout(c) ==
    /\ c.stage = "generating"
    /\ calls' = Without(c) \cup {[c EXCEPT !.stage = "failed"]}
    /\ active' = active - 1
    /\ UNCHANGED <<cadence, stops, sessionVars, coordinatorVars>>

\* Mutant: the end of a process gives a slot back whoever settled the call.
ReleasesMutant(c) == TRUE

\* Whoever settles the call first gives the slot back.
Releases(c) == c.stage = "generating"

\* The process ends, by itself or because it was killed.
Close(c) ==
    /\ c.process
    /\ \E stage \in IF c.stage = "generating" THEN {"generated", "failed"} ELSE {c.stage} :
         calls' = Without(c) \cup Kept([c EXCEPT !.stage = stage, !.process = FALSE])
    /\ active' = IF Releases(c) THEN active - 1 ELSE active
    /\ UNCHANGED <<cadence, stops, sessionVars, coordinatorVars>>

-----------------------------------------------------------------------------
(* The coordinator                                                         *)

\* explanationAbort is set until the call is delivered.
Busy(s) == \E c \in calls : c.who = s /\ c.stage # "delivered"

IsCurrent(s, seq) == based[s] # 0 /\ seq - based[s] <= 1

Explainable(s, seq, begun) ==
    /\ cadence # "off" /\ ~Busy(s) /\ begun # "none"
    /\ (s \in live => covered[s] # seq) /\ ~IsCurrent(s, seq)

\* scheduleExplanation, after the latest event has become seq.
Schedule(s, seq, begun) ==
    IF Explainable(s, seq, begun)
    THEN BeginCall(s, seq, calls, active) /\ status' = [status EXCEPT ![s] = "generating"]
    ELSE /\ status' = IF cadence = "off" THEN [status EXCEPT ![s] = "disabled"] ELSE status
         /\ UNCHANGED callVars

\* SessionRegistry.get, for a reader or for the events that follow: a
\* coordinator that is loaded remembers no attempt.
Load(s) ==
    /\ s \notin live
    /\ live' = live \cup {s}
    /\ status' = [status EXCEPT ![s] = IF cadence = "off" THEN "disabled" ELSE "none"]
    /\ UNCHANGED <<cadence, stops, sessionVars, covered, idle, callVars>>

\* An event that is no boundary.
Event(s) ==
    /\ s \in live /\ latest[s] < MaxEvents
    /\ latest' = [latest EXCEPT ![s] = @ + 1]
    /\ turn' = [turn EXCEPT ![s] = "working"]
    /\ UNCHANGED <<cadence, stops, based, coordinatorVars, callVars>>

\* explainAtBoundary: the turn ended, or with it the session.
EndTurn(s, sessionEnded) ==
    /\ s \in live /\ turn[s] # "none" /\ latest[s] < MaxEvents
    /\ sessionEnded \/ turn[s] = "working"
    /\ latest' = [latest EXCEPT ![s] = @ + 1]
    /\ turn' = [turn EXCEPT ![s] = "ended"]
    /\ IF cadence = "off"
       THEN UNCHANGED <<idle, status, callVars>>
       ELSE IF sessionEnded \/ cadence = "turn"
            THEN idle' = idle \ {s} /\ Schedule(s, latest'[s], "ended")
            ELSE idle' = idle \cup {s} /\ UNCHANGED <<status, callVars>>
    /\ UNCHANGED <<cadence, stops, based, live, covered>>

\* The session has been silent for idleEndMs since its turn ended.
FallSilent(s) ==
    /\ s \in idle
    /\ idle' = idle \ {s}
    /\ Schedule(s, latest[s], turn[s])
    /\ UNCHANGED <<cadence, stops, sessionVars, live, covered>>

\* Mutant: the answer of an aborted call is ingested.
UsableMutant(c) == c.who \in live

Usable(c) == c.who \in live /\ ~c.aborted

\* The explanation is itself an event; the attempt covers what came before.
Deliver(c) ==
    /\ c.stage \in {"generated", "failed"}
    /\ calls' = Without(c) \cup Kept([c EXCEPT !.stage = "delivered"])
    /\ IF Usable(c)
       THEN LET ingested == c.stage = "generated" IN
            /\ latest' = IF ingested THEN [latest EXCEPT ![c.who] = @ + 1] ELSE latest
            /\ based' = IF ingested THEN [based EXCEPT ![c.who] = c.seq] ELSE based
            /\ status' = [status EXCEPT ![c.who] = c.stage]
            /\ covered' = [covered EXCEPT ![c.who] =
                             IF ingested THEN latest'[c.who] ELSE c.seq]
       ELSE UNCHANGED <<latest, based, status, covered>>
    /\ UNCHANGED <<cadence, stops, turn, live, idle, active>>

\* close, by the eviction of a session that is not working.
Evict(s) ==
    /\ s \in live /\ turn[s] # "working"
    /\ live' = live \ {s}
    /\ idle' = idle \ {s}
    /\ covered' = [covered EXCEPT ![s] = 0]
    /\ status' = [status EXCEPT ![s] = "none"]
    /\ calls' = {c \in calls : c.who # s} \cup
                {Aborted(c, Nowhere) : c \in {d \in calls : d.who = s}}
    /\ active' = active - Held({c \in calls : c.who = s})
    /\ UNCHANGED <<cadence, stops, sessionVars>>

-----------------------------------------------------------------------------
(* The daemon                                                              *)

\* Mutant: the calls under way survive.
CancelledMutant == {}

Cancelled == {c \in calls : c.who \in live}

\* setExplainerCadence, for the coordinators that are live.
SetCadence(stop) ==
    /\ stop # cadence /\ stops < MaxStops
    /\ stops' = stops + 1
    /\ cadence' = stop
    /\ IF stop = "off"
       THEN /\ idle' = {}
            /\ calls' = (calls \ Cancelled) \cup {Aborted(c, c.who) : c \in Cancelled}
            /\ active' = active - Held(Cancelled)
            /\ status' = [s \in Sessions |-> IF s \in live THEN "disabled" ELSE status[s]]
       ELSE /\ UNCHANGED <<idle, callVars>>
            /\ status' = [s \in Sessions |->
                            IF s \in live /\ cadence = "off" THEN "none" ELSE status[s]]
    /\ UNCHANGED <<sessionVars, live, covered>>

\* personalize: the presentation under way is aborted for the one asked now.
Present ==
    LET previous == {c \in calls : c.who = Reader} IN
    /\ Cardinality({c \in calls : c.who = Nowhere}) < 2
    /\ BeginCall(Reader, 0, (calls \ previous) \cup {Aborted(c, Nowhere) : c \in previous},
             active - Held(previous))
    /\ UNCHANGED <<cadence, stops, sessionVars, coordinatorVars>>

ExplainerInit ==
    /\ cadence \in {"off", "session", "turn"} /\ stops = 0
    /\ live = {} /\ idle = {}
    /\ latest = [s \in Sessions |-> 0] /\ based = [s \in Sessions |-> 0]
    /\ turn = [s \in Sessions |-> "none"]
    /\ covered = [s \in Sessions |-> 0]
    /\ status = [s \in Sessions |-> "none"]
    /\ calls = {} /\ active = 0

ExplainerNext ==
    \/ \E s \in Sessions :
         \/ Load(s) \/ Event(s) \/ FallSilent(s) \/ Evict(s)
         \/ \E ended \in BOOLEAN : EndTurn(s, ended)
    \/ \E c \in calls : Timeout(c) \/ Close(c) \/ Deliver(c)
    \/ \E stop \in {"off", "session", "turn"} : SetCadence(stop)
    \/ Present

ExplainerSpec == ExplainerInit /\ [][ExplainerNext]_explainerVars

-----------------------------------------------------------------------------
(* Properties                                                              *)

\* However a call ends - answer, timeout, abort, or two of them - its slot
\* comes back once: the slots taken are the calls that generate, two at most.
SlotsAddUp == active = Held(calls) /\ active <= MaxHelpers

\* While the stop is off nothing is being generated for a session and no
\* explanation arrives, whatever was under way when it was chosen.
OffMeansOff ==
    [][cadence = "off" => based' = based]_explainerVars

\* A coordinator takes its session as explained only when the explanation
\* covers what happened, but for the explanation's own event: what the agent
\* did during the call is new work to explain.
WorkDuringCallCounts ==
    \A s \in live :
        (status[s] = "generated" /\ covered[s] = latest[s]) => IsCurrent(s, latest[s])
=============================================================================
