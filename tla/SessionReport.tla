---------------------------- MODULE SessionReport ----------------------------
(***************************************************************************)
(* What the report of a session says of its changes, its checks and what   *)
(* waits for a person.  The same facts are kept twice: the review items    *)
(* are opened and resolved as events are folded in, by their order in the  *)
(* log, while the verdict, the coverage and what is left are computed from *)
(* the state when the report is drawn, by the times of the events.         *)
(***************************************************************************)
EXTENDS Naturals, Sequences, FiniteSets

CONSTANTS
    Paths,       \* files of the session
    MaxReported,      \* bound on the events of the session
    Ties,        \* whether a change and a check may have the same time
    MaxLag       \* by how much an event may be older than one before it

ASSUME ReportAssumption == {MaxReported, MaxLag} \subseteq Nat /\ Ties \in BOOLEAN

VARIABLES
    seq,         \* the last event of the log
    clock,       \* the latest time of an event
    turn,        \* the current turn
    openCalls,   \* kinds of the calls that run
    changed,     \* changed[p]: when a file was changed last, 0 if never
    checks,      \* the checks, in the order of the log
    waiting,     \* what the state says the session waits for
    ended,       \* endedAt
    review       \* the open review items

reportVars == <<seq, clock, turn, openCalls, changed, checks, waiting, ended, review>>
workVars == <<clock, changed, checks>>

Methods == {"test", "lint"}
Outcomes == {"pass", "fail", "unknown"}
NoTurn == [id |-> 0, over |-> TRUE, touched |-> {}, overSince |-> 0]
Unblocked == [kind |-> "none", since |-> 0]

-----------------------------------------------------------------------------
(* The review rules                                                        *)

Item(rule, key, severity, count) ==
    [rule |-> rule, key |-> key, severity |-> severity, count |-> count]

IsOpen(items, rule, key) == \E r \in items : r.rule = rule /\ r.key = key

\* An item that is open already stays as it is.
WithOpen(items, item) ==
    IF IsOpen(items, item.rule, item.key) THEN items ELSE items \cup {item}

Resolved(items, rules) == {r \in items : r.rule \notin rules}

WaitingRule == [permission |-> "waiting-permission", input |-> "waiting-input"]
Asking == {"waiting-permission", "waiting-input"}
AllWaiting == Asking \cup {"waiting-question"}

\* A check that can vouch for the whole tree.
Covers(v) == v.outcome = "pass" /\ v.scope # "partial" /\ v.method # "lint"

\* applyVerificationReview
Reviewed(items, v) ==
    IF v.outcome = "fail" THEN WithOpen(items, Item("verification-failed", v.method, "high", 0))
    ELSE IF v.outcome = "pass" /\ v.scope # "partial"
    THEN {r \in items : /\ ~(r.rule = "verification-failed" /\ r.key = v.method)
                        /\ ~(Covers(v) /\ r.rule = "changes-unverified")}
    ELSE items

-----------------------------------------------------------------------------
(* The report                                                              *)

\* The covering check with the latest time, the last in the log of those.
LastPass ==
    LET passes == {i \in DOMAIN checks : Covers(checks[i])}
    IN  IF passes = {} THEN 0
        ELSE CHOOSE i \in passes : \A j \in passes :
               checks[j].at < checks[i].at \/ (checks[j].at = checks[i].at /\ j <= i)

ChangedFiles == {p \in Paths : changed[p] > 0}

\* verified.unverifiedFiles
UnverifiedFiles ==
    {p \in ChangedFiles : LastPass = 0 \/ changed[p] > checks[LastPass].at}

UnclearedFailures ==
    {i \in DOMAIN checks :
       /\ checks[i].outcome = "fail"
       /\ ~\E j \in DOMAIN checks \ {i} :
            /\ checks[j].at >= checks[i].at /\ checks[j].method = checks[i].method
            /\ checks[j].outcome = "pass" /\ checks[j].scope # "partial"}

\* leftSection: one line for each method with a failure not cleared.
FailingMethods == {checks[i].method : i \in UnclearedFailures}

Attention == {r \in review : r.severity # "info"}

\* deriveStatus
Status ==
    CASE ended -> "ended"
      [] ~ended /\ waiting # Unblocked -> "waiting"
      [] ~ended /\ waiting = Unblocked -> IF ~turn.over \/ openCalls # {} THEN "working" ELSE "idle"

\* The single derived answer, by rules in order of priority.
Verdict ==
    CASE Status = "waiting" -> "waiting"
      [] OTHER ->
         CASE UnclearedFailures # {} -> "fail"
           [] UnclearedFailures = {} /\ Status = "working" /\ openCalls # {} -> "working"
           [] OTHER ->
              IF ChangedFiles # {} /\ UnverifiedFiles # {} THEN "unverified"
              ELSE IF LastPass # 0 THEN "pass"
              ELSE IF Attention # {} THEN "attention" ELSE "neutral"

\* summarizeByMethod: a later run that said nothing is only counted, unless
\* none has said anything yet.
Summary(m) ==
    LET Step(held, i) ==
          IF checks[i].method # m THEN held
          ELSE IF checks[i].outcome = "unknown" /\ held.at # 0 /\ checks[held.at].outcome # "unknown"
          THEN [held EXCEPT !.unreadable = @ + 1]
          ELSE [at |-> i, unreadable |-> 0]
        upTo[i \in 0 .. Len(checks)] ==
          IF i = 0 THEN [at |-> 0, unreadable |-> 0] ELSE Step(upTo[i - 1], i)
    IN  upTo[Len(checks)]

-----------------------------------------------------------------------------
(* The events                                                              *)

Counted == seq < MaxReported /\ seq' = seq + 1

\* The time of a change or of a check.
Times == {clock + 1} \cup (IF Ties THEN {clock} ELSE {})
         \cup {clock - l : l \in {k \in 1 .. MaxLag : k < clock}}
Passes(t) == clock' = IF t > clock THEN t ELSE clock

\* A turn that is still open ends with the start of the next.
TurnStarted ==
    /\ Counted
    /\ turn' = [id |-> turn.id + 1, over |-> FALSE, touched |-> {}, overSince |-> 0]
    /\ waiting' = Unblocked
    /\ review' = Resolved(review, AllWaiting)
    /\ UNCHANGED <<openCalls, ended, workVars>>

\* A call that runs; of a question, the session waits for the answer.
CallMade(kind) ==
    /\ Counted
    /\ ~turn.over /\ kind \notin openCalls
    /\ openCalls' = openCalls \cup {kind}
    /\ IF kind = "question"
       THEN /\ waiting' = [kind |-> "question", since |-> seq']
            /\ review' = Resolved(WithOpen(review, Item("waiting-question", 0, "high", 0)), Asking)
       ELSE /\ review' = Resolved(review, Asking)
            /\ UNCHANGED waiting
    /\ UNCHANGED <<turn, ended, workVars>>

\* completeActivity
Completes(kind) ==
    /\ kind \in openCalls
    /\ openCalls' = openCalls \ {kind}
    /\ waiting' = IF waiting.kind \in {"permission", "input"} THEN Unblocked ELSE waiting

\* Mutant: a change leaves the checks before it current.
MadeStaleMutant(v, t) == v

MadeStale(v, t) == IF v.at <= t THEN [v EXCEPT !.stale = TRUE] ELSE v

FileChanged(p) ==
    /\ Counted
    /\ Completes("edit")
    /\ \E t \in Times :
         /\ Passes(t)
         /\ changed' = [changed EXCEPT ![p] = IF t > @ THEN t ELSE @]
         /\ checks' = [i \in DOMAIN checks |-> MadeStale(checks[i], t)]
    /\ turn' = [turn EXCEPT !.touched = @ \cup {p}]
    /\ review' = Resolved(review, Asking)
    /\ UNCHANGED ended

CheckDone ==
    /\ Counted
    /\ Completes("check")
    /\ \E t \in Times, m \in Methods, o \in Outcomes, s \in {"full", "partial"} :
         LET v == [method |-> m, outcome |-> o, scope |-> s, at |-> t, turn |-> turn.id,
                   stale |-> FALSE]
         IN  /\ Passes(t)
             /\ checks' = Append(checks, v)
             /\ review' = Reviewed(Resolved(review, Asking), v)
    /\ UNCHANGED <<turn, changed, ended>>

QuestionAnswered ==
    /\ Counted
    /\ "question" \in openCalls /\ openCalls' = openCalls \ {"question"}
    /\ waiting' = IF waiting.kind \in {"permission", "input", "question"} THEN Unblocked ELSE waiting
    /\ review' = Resolved(review, AllWaiting)
    /\ UNCHANGED <<turn, ended, workVars>>

\* permission.requested, and a notification that the agent needs input.
Asks(kind) ==
    /\ Counted
    /\ waiting' = [kind |-> kind, since |-> seq']
    /\ review' = WithOpen(review, Item(WaitingRule[kind], seq', "high", 0))
    /\ UNCHANGED <<turn, openCalls, ended, workVars>>

\* The rules at the end of a turn.  An open item of unverified changes is
\* brought up to date.
AtTurnEnd(items, outcome, says) ==
    LET failed == IF outcome # "failed" THEN items
                  ELSE WithOpen(items, Item("turn-failed", seq', "high", 0))
        item == Item("changes-unverified", 0, IF LastPass = 0 THEN "medium" ELSE "low",
                     Cardinality(UnverifiedFiles))
        unverified == IF turn.touched = {} \/ UnverifiedFiles = {} THEN failed
                      ELSE Resolved(failed, {"changes-unverified"}) \cup {item}
        observed == \E i \in DOMAIN checks :
                        checks[i].turn = turn.id /\ checks[i].outcome = "pass"
    IN  IF says = "passes" /\ ~observed
        THEN WithOpen(unverified, Item("claim-without-evidence", turn.id, "medium", 0))
        ELSE unverified

\* A turn ends; a second report of the end, from another channel, changes the
\* items only.
TurnEnded ==
    /\ Counted
    /\ turn.id > 0
    /\ \E outcome \in {"completed", "failed"}, says \in {"nothing", "passes", "asks"} :
         /\ outcome = "failed" => says = "nothing"
         /\ IF turn.over THEN UNCHANGED <<turn, openCalls, waiting>>
            ELSE /\ turn' = [turn EXCEPT !.over = TRUE, !.overSince = seq']
                 /\ openCalls' = {}
                 /\ waiting' = IF says = "asks" THEN [kind |-> "message", since |-> seq']
                               ELSE Unblocked
         /\ review' = AtTurnEnd(Resolved(review, AllWaiting), outcome, says)
    /\ UNCHANGED <<ended, workVars>>

SessionEnded ==
    /\ Counted
    /\ ~ended /\ ended' = TRUE
    /\ UNCHANGED <<turn, openCalls, waiting, review, workVars>>

ReportInit ==
    /\ seq = 0 /\ clock = 0 /\ turn = NoTurn /\ openCalls = {}
    /\ changed = [p \in Paths |-> 0] /\ checks = <<>>
    /\ waiting = Unblocked /\ ended = FALSE /\ review = {}

ReportNext ==
    \/ TurnStarted \/ CheckDone \/ QuestionAnswered \/ TurnEnded \/ SessionEnded
    \/ \E kind \in {"edit", "check", "question"} : CallMade(kind)
    \/ \E kind \in {"permission", "input"} : Asks(kind)
    \/ \E p \in Paths : FileChanged(p)

ReportSpec == ReportInit /\ [][ReportNext]_reportVars

-----------------------------------------------------------------------------
LatestReadable(m) ==
    {i \in DOMAIN checks :
       /\ checks[i].method = m /\ checks[i].outcome # "unknown"
       /\ \A j \in i + 1 .. Len(checks) : checks[j].method = m => checks[j].outcome = "unknown"}

\* One report gives one answer.  The items name as failing the methods that
\* the verdict and what is left do; unverified changes are flagged only while
\* there are some, and with their number when a turn that changed files ends;
\* a covering check is marked as before the latest changes exactly when there
\* are; a verdict of pass stands beside no item against it; and the summary of
\* a method shows its latest readable run and counts those after it.
ReportGivesOneAnswer ==
    /\ {r.key : r \in {i \in review : i.rule = "verification-failed"}} = FailingMethods
    /\ \A r \in review : r.rule = "changes-unverified" =>
         /\ UnverifiedFiles # {}
         /\ turn.overSince = seq /\ turn.touched # {} => r.count = Cardinality(UnverifiedFiles)
    /\ seq > 0 /\ turn.overSince = seq /\ turn.touched # {} /\ UnverifiedFiles # {} =>
         IsOpen(review, "changes-unverified", 0)
    /\ LastPass # 0 => (checks[LastPass].stale <=> UnverifiedFiles # {})
    /\ Verdict = "pass" => ~\E r \in review : r.rule \in {"verification-failed", "changes-unverified"}
    /\ \A m \in Methods, i \in DOMAIN checks :
         i \in LatestReadable(m) => Summary(m) =
           [at |-> i, unreadable |-> Cardinality({j \in i + 1 .. Len(checks) : checks[j].method = m})]

\* What the session waits for, a permission or an input, is among its items.
WaitingIsListed ==
    waiting.kind \in {"permission", "input"} => IsOpen(review, WaitingRule[waiting.kind], waiting.since)
=============================================================================
