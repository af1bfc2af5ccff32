------------------------------- MODULE Reducer -------------------------------
(* How the daemon folds the events of one session into its run state, when  *)
(* two channels report the same turns and calls.  The provider's transcript *)
(* tells everything, in order, but is read late; hooks tell less, may come  *)
(* before or after the record of the same fact, in any order, or never.     *)
EXTENDS Integers, Sequences, FiniteSets, Functions, SequencesExt

CONSTANTS
    Checks,      \* calls that run a recognised check (tests, lint, build)
    Edits,       \* calls that change a file, each one of its own
    LastTurn,    \* the session has the turns 1 .. LastTurn
    TurnOf,      \* the turn each call was made in
    Disagreements \* of how many calls the channels may tell different outcomes

ToolCalls == Checks \cup Edits
Turns == 1 .. LastTurn

ASSUME ReducerAssumption ==
    /\ IsFiniteSet(ToolCalls) /\ Checks \cap Edits = {}
    /\ LastTurn \in Nat \ {0} /\ TurnOf \in [ToolCalls -> Turns]
    /\ Disagreements \in Nat

VARIABLES
    provider,    \* which adapter's events these are
    verdict,     \* what became of each call; "cut": it never answered
    hookSays,    \* what the hook reports of it
    read,        \* how many records of the transcript were read
    stored,      \* the ids of the events stored, each applied once
    run,         \* the run state
    overtaken    \* calls whose turn ended in the fold while they were running

reducerVars == <<provider, verdict, hookSays, read, stored, run, overtaken>>

-----------------------------------------------------------------------------
\* What the adapters make of the session.

NoResult == [kind |-> "none", exit |-> "none", lines |-> 0]

Started(t, src) == [kind |-> "turn.started", turn |-> t, src |-> src]

CalledBy(c, src) == [kind |-> "tool.called", call |-> c, turn |-> TurnOf[c], src |-> src]

Completed(c, src, result, isError) ==
    [kind |-> "tool.completed", call |-> c, turn |-> TurnOf[c], src |-> src,
     result |-> result, isError |-> isError]

Failed(c, src, cause, exit) ==
    [kind |-> "tool.failed", call |-> c, turn |-> TurnOf[c], src |-> src,
     cause |-> cause, exit |-> exit]

TurnEndedBy(t, src, outcome) ==
    [kind |-> "turn.ended", turn |-> t, src |-> src, outcome |-> outcome]

Command(exit) == [kind |-> "command", exit |-> exit, lines |-> 0]
Changes(applied, lines) ==
    [kind |-> "changes", exit |-> IF applied THEN "applied" ELSE "refused", lines |-> lines]

\* What a channel reports of a finished call.  Claude Code tells both the
\* same; a Codex hook knows no exit code and no diff.
Reply(c, src, said) ==
    IF provider = "claude-code"
      THEN CASE said = "pass" ->
                  Completed(c, src, IF c \in Checks THEN Command("inferred-pass")
                                                    ELSE Changes(TRUE, 1), FALSE)
             [] said = "fail" ->
                  Failed(c, src, "error",
                         IF c \in Checks THEN "explicit-fail" ELSE "inferred-fail")
             [] OTHER -> Failed(c, src, said, "none")
      ELSE LET isError == said = "fail" IN
           IF c \in Checks
             THEN IF src = "hook"
                    THEN Completed(c, src, Command("unknown"), FALSE)
                    ELSE Completed(c, src, Command("explicit-" \o said), isError)
             ELSE Completed(c, src,
                            Changes(~isError, IF src = "hook" THEN 0 ELSE 1), isError)

CutTurns == {TurnOf[c] : c \in {d \in ToolCalls : verdict[d] = "cut"}}

CallsOf(t) == SetToSeq({c \in ToolCalls : TurnOf[c] = t})

RecordsOf(t) ==
    LET Told(c) == IF verdict[c] = "cut" THEN <<CalledBy(c, "file")>>
                   ELSE <<CalledBy(c, "file"), Reply(c, "file", verdict[c])>>
        calls == CallsOf(t)
    IN  <<Started(t, "file")>>
        \o FlattenSeq([i \in 1 .. Len(calls) |-> Told(calls[i])])
        \o <<TurnEndedBy(t, "file", IF t \in CutTurns THEN "interrupted" ELSE "completed")>>

Transcript == FlattenSeq([t \in Turns |-> RecordsOf(t)])

\* A hook tells of every call that ran to its end.
Heard == {c \in ToolCalls : verdict[c] \notin {"cut", "rejected"}}

HookEvents ==
    {Started(t, "hook") : t \in Turns}
    \cup {CalledBy(c, "hook") : c \in ToolCalls}
    \cup {Reply(c, "hook", hookSays[c]) : c \in Heard}
    \cup {TurnEndedBy(t, "hook", "completed") : t \in Turns \ CutTurns}

\* Event ids: a fact both channels tell under one id is stored once.
SharesId(e) ==
    \/ e.kind = "turn.started"
    \/ e.kind \in {"tool.called", "turn.ended"} /\ provider = "codex"

Subject(e) == IF e.kind \in {"turn.started", "turn.ended"} THEN <<e.turn>> ELSE <<e.call>>
EventId(e) == <<e.kind, Subject(e), IF SharesId(e) THEN "both" ELSE e.src>>

-----------------------------------------------------------------------------
\* Turns of the run state.

KnownTurn(r, t) == \E i \in DOMAIN r.turns : r.turns[i].id = t
IndexOf(r, t) == CHOOSE i \in DOMAIN r.turns : r.turns[i].id = t

NewTurn(t, prompt) ==
    [id |-> t, prompt |-> prompt, calls |-> {}, ended |-> FALSE,
     inferred |-> FALSE, outcome |-> "none"]

\* A turn opens: a placeholder an out-of-order event left is adopted, a turn
\* still open is closed as interrupted, which only this tells.
openTurn(r, t, prompt) ==
    LET n    == Len(r.turns)
        open == n > 0 /\ ~r.turns[n].ended
    IN  IF open /\ r.turns[n].calls = {} /\ ~r.turns[n].prompt
          THEN [r EXCEPT !.turns[n].id = t, !.turns[n].prompt = prompt]
          ELSE [r EXCEPT !.turns =
                 Append(IF open THEN [@ EXCEPT ![n].ended = TRUE, ![n].inferred = TRUE,
                                               ![n].outcome = "interrupted"]
                                ELSE @,
                        NewTurn(t, prompt))]

turnFor(r, t) == IF KnownTurn(r, t) THEN r ELSE openTurn(r, t, FALSE)

onTurnStarted(r, e) ==
    IF KnownTurn(r, e.turn) THEN [r EXCEPT !.turns[IndexOf(r, e.turn)].prompt = TRUE]
                        ELSE openTurn(r, e.turn, TRUE)

\* Calls still running when their turn ends are unknown from then on.  What a
\* later end of an ended turn adds, its text, is left out.
CloseTurn(r, e) ==
    LET i    == IndexOf(r, e.turn)
        left == {c \in r.running : r.acts[c].turn = e.turn}
    IN  IF r.turns[i].ended /\ ~r.turns[i].inferred THEN r
        ELSE [r EXCEPT
               !.turns[i] = [@ EXCEPT !.ended = TRUE, !.inferred = FALSE,
                                      !.outcome = e.outcome],
               !.acts = [c \in ToolCalls |->
                          IF c \in left THEN [@[c] EXCEPT !.status = "unknown"] ELSE @[c]],
               !.running = @ \ left]

\* An end that comes before its turn's start leaves a closed placeholder.
onTurnEnded(r, e) == CloseTurn(turnFor(r, e.turn), e)

-----------------------------------------------------------------------------
\* How much a record tells: what it says first, then who says it.

sourceFidelity(e) == IF e.src = "file" THEN 3 ELSE 1

exitFidelity(exit) ==
    CASE exit \in {"explicit-pass", "explicit-fail"} -> 500
      [] exit = "unknown" -> 300
      [] exit = "none" -> 200
      [] OTHER -> 400

\* Mutant: what a result says does not count, only that it came first.
FirstWins(e) == 0

completionFidelity(e) ==
    10 * (IF e.result.kind = "command" THEN exitFidelity(e.result.exit)
          ELSE 300 + (IF e.result.exit = "applied" /\ e.result.lines > 0 THEN 150 ELSE 0))
    + sourceFidelity(e)

failureFidelity(e) == 10 * exitFidelity(e.exit) + sourceFidelity(e)

callFidelity(e) == 100 + sourceFidelity(e)

SaysFail(exit) == exit \in {"explicit-fail", "inferred-fail"}
SaysPass(exit) == exit \in {"explicit-pass", "inferred-pass"}

commandVerdict(exit, isError) ==
    IF isError \/ SaysFail(exit) THEN "fail" ELSE IF SaysPass(exit) THEN "pass" ELSE "unknown"

terminalVerdictsConflict(v, w) == {v, w} = {"pass", "fail"}

-----------------------------------------------------------------------------
\* Checks, issues and review items drawn from a finished call.

NoActivity ==
    [status |-> "absent", turn |-> 0, input |-> "none", isError |-> FALSE,
     result |-> NoResult, exit |-> "none", callFid |-> 0, resFid |-> -1,
     cause |-> "error", conflict |-> FALSE]

deriveVerification(c, a) ==
    [call |-> c,
     outcome |-> commandVerdict(IF a.exit = "none" THEN a.result.exit ELSE a.exit, FALSE)]

\* A passing check resolves the failures of every check before it, and a
\* failing one opens its review item unless one is open already.
recordVerification(r, v) ==
    [r EXCEPT
      !.checks = Append(@, v),
      !.issues = CASE v.outcome = "fail" -> @ \cup {<<"check", v.call>>}
                   [] v.outcome = "pass" -> {i \in @ : i[1] # "check"}
                   [] OTHER -> @,
      !.failing = CASE v.outcome = "fail" -> IF @ = {} THEN {v.call} ELSE @
                    [] v.outcome = "pass" -> {}
                    [] OTHER -> @]

Unrecorded(r, c) ==
    [r EXCEPT !.checks = SelectSeq(@, LAMBDA v : v.call # c),
              !.issues = {i \in @ : i[2] # c},
              !.failing = @ \ {c}]

\* Two terminal records contradict each other: neither wins.
markSourceConflict(r, c, incomingFails) ==
    LET a == r.acts[c]
        b == [a EXCEPT !.status = "unknown", !.conflict = TRUE, !.isError = FALSE,
                       !.exit = "unknown", !.result = Command("unknown")]
        s == [Unrecorded(r, c) EXCEPT
               !.toolFailures = IF incomingFails /\ a.status # "failed" /\ ~a.isError
                                  THEN @ + 1 ELSE @,
               !.acts[c] = b,
               !.running = @ \ {c},
               !.disputed = @ \cup {c}]
    IN  IF a.input = "command" THEN recordVerification(s, deriveVerification(c, b)) ELSE s

applyFileChange(r, c, change) ==
    IF change.exit = "refused" THEN [r EXCEPT !.issues = @ \cup {<<"patch", c>>}]
    ELSE [r EXCEPT !.files[c] = IF @ = -1 THEN change.lines ELSE @ + change.lines,
                   !.filesChanged = IF r.files[c] = -1 THEN @ + 1 ELSE @,
                   !.linesAdded = @ + change.lines]

onCommandCompleted(r, c) ==
    IF r.acts[c].input = "command" /\ r.acts[c].result.kind = "command"
      THEN recordVerification(r, deriveVerification(c, r.acts[c])) ELSE r

\* A command that timed out did not fail: its outcome is unknown.
recordToolFailure(r, c, cause) ==
    LET a == r.acts[c]
        inconclusive == cause = "timeout"
        exit == CASE inconclusive -> "unknown"
                  [] a.exit = "none" -> "inferred-fail"
                  [] OTHER -> a.exit
        b == [a EXCEPT !.result = IF @.kind = "none" THEN Command(exit) ELSE @,
                       !.exit = IF inconclusive THEN "unknown" ELSE @]
    IN  IF a.input = "command"
          THEN recordVerification([r EXCEPT !.acts[c] = b], deriveVerification(c, b))
          ELSE [r EXCEPT !.issues = @ \cup {<<"tool", c>>}]

-----------------------------------------------------------------------------
\* Calls.

InputOf(c) == IF c \in Checks THEN "command" ELSE "edit"

\* An activity begins: from its call, or from a result that came before it.
BeginCall(r0, c, input, fidelity) ==
    LET r == turnFor(r0, TurnOf[c]) IN
    [r EXCEPT
      !.acts[c] = [NoActivity EXCEPT !.status = "running", !.turn = TurnOf[c],
                                     !.input = input, !.callFid = fidelity],
      !.running = @ \cup {c},
      !.toolCalls = @ + 1,
      !.commands = IF input = "command" THEN @ + 1 ELSE @,
      !.turns[IndexOf(r, TurnOf[c])].calls = @ \cup {c}]

\* Only the record that first names the command says what a result means
\* that came before it.
NamesCommand(a, c) == c \in Checks /\ a.status # "running" /\ a.input # "command"

\* A better record of a known call.
upgradeLateToolCall(r, c, e) ==
    LET a == r.acts[c]
        s == [r EXCEPT
               !.acts[c].input = InputOf(c), !.acts[c].callFid = callFidelity(e),
               !.commands = IF c \in Checks /\ a.input # "command" THEN @ + 1 ELSE @]
    IN  CASE a.input # "other" /\ callFidelity(e) <= a.callFid -> r
          [] ~NamesCommand(a, c) -> s
          [] a.result.kind = "command" -> onCommandCompleted(s, c)
          [] a.isError /\ a.status = "failed" ->
               recordToolFailure([s EXCEPT !.issues = @ \ {<<"tool", c>>}], c, a.cause)
          [] OTHER -> s

onToolCalled(r, e) ==
    IF r.acts[e.call].status = "absent"
      THEN BeginCall(r, e.call, InputOf(e.call), callFidelity(e))
      ELSE upgradeLateToolCall(r, e.call, e)

FinishCall(r, c, status, isError, result, exit, fidelity) ==
    [r EXCEPT !.acts[c] = [@ EXCEPT !.status = status, !.isError = isError,
                                    !.result = result, !.exit = exit, !.resFid = fidelity]]

StatusOf(isError) == IF isError THEN "failed" ELSE "completed"

\* A second result for a finished call: it replaces the first when it tells
\* more, and makes the call inconclusive when both are conclusive and differ.
upgradeCompletedActivity(r, c, e) ==
    LET a == r.acts[c]
        fid == completionFidelity(e)
        better == fid > a.resFid
        exit == IF e.result.kind = "command" THEN e.result.exit ELSE a.exit
        s == FinishCall(r, c, StatusOf(e.isError), e.isError, e.result, a.exit, fid)
    IN  CASE a.conflict -> r
          [] e.result.kind = "command" /\ a.result.kind = "command" ->
               IF terminalVerdictsConflict(commandVerdict(a.result.exit, a.isError),
                                           commandVerdict(e.result.exit, e.isError))
                 THEN markSourceConflict(r, c, e.isError)
               ELSE IF ~better THEN r
               ELSE LET t == [s EXCEPT !.acts[c].exit = exit,
                                       !.checks = SelectSeq(@, LAMBDA v : v.call # c)]
                    IN  IF a.input = "command"
                          THEN recordVerification(t, deriveVerification(c, t.acts[c]))
                          ELSE t
          [] e.result.kind = "changes" /\ a.result.kind = "changes" ->
               IF ~better THEN r
               ELSE IF r.files[c] = -1 THEN s
               ELSE [s EXCEPT !.files[c] = @ + e.result.lines - a.result.lines,
                              !.linesAdded = @ + e.result.lines - a.result.lines]
          [] OTHER -> IF better THEN s ELSE r

onToolCompleted(r0, e) ==
    LET c == e.call
        r == IF r0.acts[c].status = "absent" THEN BeginCall(r0, c, "other", 0) ELSE r0
        exit == IF e.result.kind = "command" THEN e.result.exit ELSE r.acts[c].exit
        s == [FinishCall(r, c, StatusOf(e.isError), e.isError, e.result, exit,
                     completionFidelity(e)) EXCEPT
               !.running = @ \ {c},
               !.toolFailures = IF e.isError THEN @ + 1 ELSE @]
    IN  IF r.acts[c].status # "running" THEN upgradeCompletedActivity(r, c, e)
        ELSE IF e.result.kind = "changes" THEN applyFileChange(s, c, e.result)
        ELSE onCommandCompleted(s, c)

Fails(r, c, e, result, exit) ==
    LET s == FinishCall(r, c, IF e.cause = "rejected" THEN "unknown" ELSE "failed", TRUE,
                    result, exit, failureFidelity(e))
    IN  [s EXCEPT !.acts[c].cause = e.cause]

upgradeFailedActivity(r, c, e) ==
    IF failureFidelity(e) <= r.acts[c].resFid THEN r
    ELSE recordToolFailure(Fails(Unrecorded(r, c), c, e, NoResult, e.exit), c, e.cause)

\* A call the user rejected is neither a failure nor a check.
onToolFailed(r0, e) ==
    LET c == e.call
        r == IF r0.acts[c].status = "absent" THEN BeginCall(r0, c, "other", 0) ELSE r0
        a == r.acts[c]
        s == [Fails(r, c, e, a.result, IF e.exit = "none" THEN a.exit ELSE e.exit)
                EXCEPT !.running = @ \ {c}]
    IN  CASE a.conflict -> r
          [] a.status # "running" ->
               IF /\ a.result.kind = "command"
                  /\ terminalVerdictsConflict(
                       commandVerdict(a.result.exit, a.isError),
                       IF e.cause = "error" THEN "fail" ELSE "unknown")
                 THEN markSourceConflict(r, c, TRUE)
                 ELSE upgradeFailedActivity(r, c, e)
          [] OTHER ->
               IF e.cause = "rejected" THEN s
               ELSE recordToolFailure([s EXCEPT !.toolFailures = @ + 1], c, e.cause)

applyEvent(r, e) ==
    CASE e.kind = "turn.started" -> onTurnStarted(r, e)
      [] e.kind = "turn.ended" -> onTurnEnded(r, e)
      [] e.kind = "tool.called" -> onToolCalled(r, e)
      [] e.kind = "tool.completed" -> onToolCompleted(r, e)
      [] e.kind = "tool.failed" -> onToolFailed(r, e)

\* Waiting apart: what the session is shown to do.
deriveStatus(r) ==
    CASE r.turns # <<>> /\ ~Last(r.turns).ended -> "working"
      [] r.running # {} -> "working"
      [] OTHER -> "idle"

EmptyRun ==
    [turns |-> <<>>, acts |-> [c \in ToolCalls |-> NoActivity], running |-> {},
     toolCalls |-> 0, toolFailures |-> 0, commands |-> 0, checks |-> <<>>,
     issues |-> {}, failing |-> {}, disputed |-> {},
     files |-> [c \in Edits |-> -1], filesChanged |-> 0, linesAdded |-> 0]

-----------------------------------------------------------------------------
\* What arrives, in every order the channels can bring it.

ReducerInit ==
    /\ provider \in {"claude-code", "codex"}
    /\ verdict \in [ToolCalls -> {"pass", "fail", "cut", "timeout", "rejected"}]
    /\ \A c \in ToolCalls :
         verdict[c] \in {"timeout", "rejected"} => c \in Checks /\ provider = "claude-code"
    /\ hookSays \in [ToolCalls -> {"pass", "fail", "timeout", "nothing"}]
    /\ \A c \in ToolCalls :
         IF verdict[c] \in {"pass", "fail"} THEN hookSays[c] \in {"pass", "fail"}
         ELSE hookSays[c] = IF c \in Heard THEN verdict[c] ELSE "nothing"
    /\ Cardinality({c \in Heard : verdict[c] # hookSays[c]}) <= Disagreements
    /\ read = 0 /\ stored = {} /\ run = EmptyRun /\ overtaken = {}

\* The session log stores an event under an id once; the fold sees it then.
Store(e) ==
    /\ stored' = stored \cup {EventId(e)}
    /\ run' = IF EventId(e) \in stored THEN run ELSE applyEvent(run, e)
    /\ overtaken' = overtaken \cup
         {c \in run.running : run'.acts[c].status = "unknown" /\ ~run'.acts[c].conflict}
    /\ UNCHANGED <<provider, verdict, hookSays>>

ReadRecord ==
    /\ read < Len(Transcript)
    /\ read' = read + 1
    /\ Store(Transcript[read + 1])

HookArrives ==
    \E e \in HookEvents :
        /\ EventId(e) \notin stored
        /\ Store(e)
        /\ UNCHANGED read

ReducerNext == ReadRecord \/ HookArrives
ReducerSpec == ReducerInit /\ [][ReducerNext]_reducerVars

-----------------------------------------------------------------------------
\* What the run state must say of what arrived.

\* What the transcript alone, read in its order, comes to.
Alone == FoldLeft(applyEvent, EmptyRun, Transcript)

Over == read = Len(Transcript)

\* The channels do not contradict each other about a call.
Agreed(c) == c \in Heard => verdict[c] = hookSays[c]

ChecksOf(r, c) == {v \in ToSet(r.checks) : v.call = c}

SameAsAlone(c) ==
    /\ ChecksOf(run, c) = ChecksOf(Alone, c)
    /\ c \in Edits => run.files[c] = Alone.files[c]

\* However a call, its result and its turn came in: every counter is what the
\* calls and files it counts say, a turn is listed once, and a call has one
\* check at most, which says what the call's own record says (reducer.ts: "a
\* better record of a call that was already a command has nothing new to
\* derive, and deriving again would count its check twice").
RunAddsUp ==
    /\ run.toolCalls = Cardinality({c \in ToolCalls : run.acts[c].status # "absent"})
    /\ run.commands = Cardinality({c \in ToolCalls : run.acts[c].input = "command"})
    /\ run.running = {c \in ToolCalls : run.acts[c].status = "running"}
    /\ run.filesChanged = Cardinality({c \in Edits : run.files[c] # -1})
    /\ run.linesAdded = FoldFunction(LAMBDA n, m : IF n = -1 THEN m ELSE n + m, 0, run.files)
    /\ Cardinality({turn.id : turn \in ToSet(run.turns)}) = Len(run.turns)
    /\ Cardinality({v.call : v \in ToSet(run.checks)}) = Len(run.checks)
    /\ \A v \in ToSet(run.checks) : v = deriveVerification(v.call, run.acts[v.call])
    /\ run.failing # {} => \E v \in ToSet(run.checks) : v.outcome = "fail"

\* When the hook and the transcript contradict each other about a check, the
\* call and its check end inconclusive and under review, whichever came first
\* (reducer.test.ts "makes contradictory terminal evidence inconclusive
\* regardless of arrival order").
ConflictInconclusive ==
    \A c \in Checks :
      (/\ Over /\ provider = "claude-code" /\ ~Agreed(c)
       /\ EventId(Reply(c, "hook", hookSays[c])) \in stored)
      => /\ run.acts[c].status = "unknown" /\ c \in run.disputed
         /\ ChecksOf(run, c) = {[call |-> c, outcome |-> "unknown"]}

\* Whichever hooks came, in whatever order, a session whose transcript was
\* read to its end is idle: no call is left running, no turn open.
Settles == Over => deriveStatus(run) = "idle" /\ run.running = {}

\* Once the transcript is read, the checks and the file changes of a call the
\* channels agree about are those of the transcript alone, whatever hooks came
\* and when, unless the turn's end was applied while the call was running.
OrderIrrelevant ==
    Over => \A c \in ToolCalls : Agreed(c) /\ c \notin overtaken => SameAsAlone(c)

\* What the run state says does not depend on which channel spoke first.
RunAgrees == RunAddsUp /\ ConflictInconclusive /\ Settles /\ OrderIrrelevant

\* The comment on upgradeCompletedActivity (reducer.ts 799-804): "real diffs
\* replace zero-line placeholders. Anything else is a duplicate and is
\* ignored, so replay order cannot change the outcome."
OrderNeverMatters == Over => \A c \in ToolCalls : Agreed(c) => SameAsAlone(c)

=============================================================================
