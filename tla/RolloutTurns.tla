----------------------------- MODULE RolloutTurns -----------------------------
(***************************************************************************)
(* The turns, the agents and the patches of a Codex rollout, as the parser *)
(* tells them.  Older builds write no ids of turns; a second message may   *)
(* come in the middle of a turn; an agent is named by its thread when it   *)
(* starts and by its path when it reports.  The log keeps one event of an  *)
(* id, so an id chosen badly loses what it should have told.               *)
(***************************************************************************)
EXTENDS Naturals, Sequences, FiniteSets

CONSTANTS
    Agents,     \* paths of agents; each has one thread
    Patches,    \* call ids of patches
    MaxRolloutLines    \* bound on the records of a rollout

ASSUME TurnsAssumption == MaxRolloutLines \in Nat

VARIABLES
    turnIds,        \* whether this build writes the ids of turns
    rollout,        \* the records so far
    currentTurnId, startedTurns,
    agentThreadByPath,
    patchCalls,     \* the patches whose call waits for its output
    tells            \* the events told; the log keeps the first of an id

turnVars == <<turnIds, rollout, currentTurnId, startedTurns, agentThreadByPath,
              patchCalls, tells>>

NoTurnId == 0
Line == Len(rollout) + 1

\* Turns that get an id of Codex are 1, 2, ...; one named by the line of its
\* first message is MaxLines + that line.
Begun == Cardinality({i \in DOMAIN rollout : rollout[i].kind = "task"})
OfLine(n) == MaxRolloutLines + n

WriteLine(kind, who) == rollout' = Append(rollout, [kind |-> kind, who |-> who, turn |-> Begun])

TellAll(events) ==
    tells' = tells \cup {e \in events : \A d \in tells : d.id # e.id}

\* task_started, turn_context.
TaskStarted ==
    /\ rollout' = Append(rollout, [kind |-> "task", who |-> NoTurnId, turn |-> Begun + 1])
    /\ currentTurnId' = IF turnIds THEN Begun + 1 ELSE currentTurnId
    /\ UNCHANGED <<turnIds, startedTurns, agentThreadByPath, patchCalls, tells>>

\* The first message of a turn owns its id; a later one has its own.
StartOf(turn) == <<"start", turn, IF turn \in startedTurns THEN Line ELSE 0>>

UserMessage ==
    /\ WriteLine("prompt", NoTurnId)
    /\ LET turn == IF currentTurnId = NoTurnId THEN OfLine(Line) ELSE currentTurnId IN
       /\ currentTurnId' = turn
       /\ startedTurns' = startedTurns \cup {turn}
       /\ TellAll({[id |-> StartOf(turn), line |-> Line]})
    /\ UNCHANGED <<turnIds, agentThreadByPath, patchCalls>>

\* task_complete, turn_aborted: nothing when no turn is known.
TaskEnds ==
    /\ Begun > 0
    /\ WriteLine("end", NoTurnId)
    /\ LET turn == IF turnIds THEN Begun ELSE currentTurnId IN
       IF turn = NoTurnId THEN UNCHANGED tells
       ELSE TellAll({[id |-> <<"end", turn, 0>>, line |-> Line]})
    /\ UNCHANGED <<turnIds, currentTurnId, startedTurns, agentThreadByPath, patchCalls>>

-----------------------------------------------------------------------------
(* Agents                                                                  *)

Did(kind, a) == \E i \in DOMAIN rollout : rollout[i].kind = kind /\ rollout[i].who = a

\* sub_agent_activity of a known thread: started, interacted or interrupted.
AgentActivity(a, activity) ==
    /\ activity = "started" <=> ~Did("started", a)
    /\ WriteLine(activity, a)
    /\ agentThreadByPath' = agentThreadByPath \cup {a}
    /\ IF activity = "interacted" THEN UNCHANGED tells
       ELSE TellAll({[id |-> <<activity, "thread", a>>, line |-> Line]})
    /\ UNCHANGED <<turnIds, currentTurnId, startedTurns, patchCalls>>

\* The lane its start opened, or one of its own.
Lane(a) == IF a \in agentThreadByPath THEN "thread" ELSE "path"

\* interAgentMessage: a final answer is the account of its author, and ends
\* its lane.
FinalAnswer(a) ==
    /\ Did("started", a)
    /\ WriteLine("answer", a)
    /\ TellAll({[id |-> <<"message", Lane(a), Line>>, line |-> Line],
                [id |-> <<"interrupted", Lane(a), a>>, line |-> Line]})
    /\ UNCHANGED <<turnIds, currentTurnId, startedTurns, agentThreadByPath, patchCalls>>

-----------------------------------------------------------------------------
(* Patches                                                                 *)

\* custom_tool_call of apply_patch.
PatchCalled(p) ==
    /\ ~Did("patch", p) /\ ~Did("applied", p)
    /\ WriteLine("patch", p)
    /\ patchCalls' = patchCalls \cup {p}
    /\ TellAll({[id |-> <<"call", "patch", p>>, line |-> Line]})
    /\ UNCHANGED <<turnIds, currentTurnId, startedTurns, agentThreadByPath>>

\* Its output is only the summary; the changes come in a record of their own.
PatchOutput(p) ==
    /\ Did("patch", p) /\ ~Did("output", p)
    /\ WriteLine("output", p)
    /\ patchCalls' = patchCalls \ {p}
    /\ UNCHANGED <<turnIds, currentTurnId, startedTurns, agentThreadByPath, tells>>

\* patchApplied, for patch_apply_end or a FileChange item: of a call told
\* before, or of a patch that a code cell applied.
PatchApplied(p) ==
    /\ ~Did("applied", p)
    /\ WriteLine("applied", p)
    /\ patchCalls' = patchCalls \ {p}
    /\ TellAll((IF p \in patchCalls THEN {} ELSE {[id |-> <<"call", "patch", p>>, line |-> Line]})
               \cup {[id |-> <<"result", "patch", p>>, line |-> Line]})
    /\ UNCHANGED <<turnIds, currentTurnId, startedTurns, agentThreadByPath>>

TurnsInit ==
    /\ turnIds \in BOOLEAN
    /\ rollout = <<>>
    /\ currentTurnId = NoTurnId
    /\ startedTurns = {} /\ agentThreadByPath = {} /\ patchCalls = {} /\ tells = {}

TurnsNext ==
    /\ Len(rollout) < MaxRolloutLines
    /\ \/ TaskStarted \/ UserMessage \/ TaskEnds
       \/ \E a \in Agents :
            \/ \E activity \in {"started", "interacted", "interrupted"} : AgentActivity(a, activity)
            \/ FinalAnswer(a)
       \/ \E p \in Patches : PatchCalled(p) \/ PatchOutput(p) \/ PatchApplied(p)

TurnsSpec == TurnsInit /\ [][TurnsNext]_turnVars

-----------------------------------------------------------------------------
ToldAt(i) == {e \in tells : e.line = i}

\* Every message and every patch of the rollout is told once, each agent that
\* started has one lane, the answer and the end of it are told in that lane,
\* and where turns have ids each message is told of the turn it belongs to.
NothingIsMisfiled ==
    \A i \in DOMAIN rollout :
      LET r == rollout[i] IN
      /\ r.kind = "prompt" =>
           /\ \E e \in ToldAt(i) : e.id[1] = "start"
           /\ turnIds /\ r.turn > 0 => \A e \in ToldAt(i) : e.id[2] = r.turn
      /\ r.kind = "applied" => \E c, e \in tells :
           c.id = <<"call", "patch", r.who>> /\ e.id = <<"result", "patch", r.who>>
      /\ r.kind = "answer" =>
           /\ \E e \in tells : e.id = <<"interrupted", "thread", r.who>>
           /\ \A e \in ToldAt(i) : e.id[2] = "thread"
=============================================================================
