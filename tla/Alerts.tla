------------------------------- MODULE Alerts ------------------------------
(***************************************************************************)
(* Health samples, the conditions read from them, and the ledger of local  *)
(* alerts: raised, acknowledged, recovered, announced.  A restart forgets  *)
(* what the daemon knew of the Codex hook, and what it had not announced.  *)
(***************************************************************************)
EXTENDS Integers, Sequences, FiniteSets

CONSTANTS
    MaxRetained,    \* alerts the ledger keeps, 100 in the code
    Cooldown,       \* evaluations within which a key is not announced again
    GrowthFiles,    \* files a queue may gain within the sampled window
    Window,         \* samples retained
    MaxEvaluations, \* bound on evaluations
    MaxChanges      \* bound on changes of what is observed, and on restarts

ASSUME AlertsAssumption ==
    /\ {MaxRetained, Cooldown, GrowthFiles, Window, MaxEvaluations} \subseteq Nat \ {0}
    /\ MaxChanges \in Nat

VARIABLES
    observed,   \* what there is to see: queue files, the store past its mark,
                \* the latest gap and whether it is open, the hook file's trust
    known,      \* the trust the daemon knows
    samples,    \* the queue sizes sampled, oldest first
    ledger,     \* [alerts, notified, trust, gap]
    pending,    \* transitions evaluated and not yet published
    bounds      \* evaluations and changes so far

alertVars == <<observed, known, samples, ledger, pending, bounds>>

Trusts == {"trusted", "managed", "modified"}
Gaps == 1..MaxChanges
\* A gap has a key of its own; the other conditions one each.
SizeKey == -1
GrowthKey == -2
HookKey == -3
Keys == {SizeKey, GrowthKey, HookKey} \cup Gaps
Never == -Cooldown

-----------------------------------------------------------------------------
(* createHealthSnapshot and the conditions of a snapshot                   *)

\* A queue past the scan ceiling has no exact count.
Uncounted == -1

\* The samples of the window and the one taken now.
History == Append(samples, observed.queue)

\* The net change over the counted samples; too few tell nothing.
Growth ==
    LET counted == SelectSeq(History, LAMBDA n : n # Uncounted)
    IN  IF Len(counted) < 2 THEN 0 ELSE counted[Len(counted)] - counted[1]

\* A hook is reported while its file is known to have changed, and once
\* when its trust goes from one approved state to another.
HookCondition(trust) ==
    \/ trust = "modified"
    \/ {trust, ledger.trust} = {"trusted", "managed"}

Conditions(trust) ==
    {k \in Keys :
        \/ k = SizeKey /\ observed.big
        \/ k = GrowthKey /\ Growth >= GrowthFiles
        \/ k = HookKey /\ HookCondition(trust)
        \/ k = observed.gap /\ (observed.open \/ observed.gap # ledger.gap)}

Live(alert) == alert.state # "recovered"
LiveKeys == {ledger.alerts[i].key : i \in {j \in DOMAIN ledger.alerts : Live(ledger.alerts[j])}}

-----------------------------------------------------------------------------
(* evaluateLocalAlerts                                                     *)

\* Mutant: an acknowledged alert is not looked up.
KnownAlreadyMutant == {ledger.alerts[i].key : i \in
                          {j \in DOMAIN ledger.alerts : ledger.alerts[j].state = "active"}}

\* The alerts an evaluation finds active under their key.
KnownAlready == LiveKeys

Raised(trust) == Conditions(trust) \ KnownAlready
Eligible(k) == bounds.evaluations + 1 - ledger.notified[k] >= Cooldown

\* Raised alerts in some order: the code's is that of its list of conditions.
Order(S) == CHOOSE s \in [1..Cardinality(S) -> S] : \A i, j \in DOMAIN s : i # j => s[i] # s[j]
NewAlerts(trust) ==
    LET keys == Order(Raised(trust))
    IN  [i \in DOMAIN keys |-> [key |-> keys[i], state |-> "active"]]

Lapses(alert, trust) == Live(alert) /\ alert.key \in KnownAlready \ Conditions(trust)
Recovered(alert) == [alert EXCEPT !.state = "recovered"]

\* The elements of s at the positions I, in their order.
Picked(s, I) ==
    LET upTo[n \in 0 .. Len(s)] ==
          IF n = 0 THEN <<>> ELSE IF n \in I THEN Append(upTo[n - 1], s[n]) ELSE upTo[n - 1]
    IN  upTo[Len(s)]

FirstOf(s, n) == SubSeq(s, 1, IF Len(s) < n THEN Len(s) ELSE n)

Lapsed(trust) ==
    LET over == Picked(ledger.alerts, {i \in DOMAIN ledger.alerts : Lapses(ledger.alerts[i], trust)})
    IN  [i \in DOMAIN over |-> Recovered(over[i])]

\* The ledger has its latest transitions first and keeps so many of them.
Retained(trust) ==
    LET kept == Picked(ledger.alerts, {i \in DOMAIN ledger.alerts : ~Lapses(ledger.alerts[i], trust)})
    IN  FirstOf(Lapsed(trust) \o NewAlerts(trust) \o kept, MaxRetained)

\* Recoveries are announced always, a raised alert once in a cooldown.
Announced(trust) ==
    SelectSeq(NewAlerts(trust), LAMBDA a : Eligible(a.key)) \o Lapsed(trust)

Notified(trust) ==
    [k \in Keys |-> IF k \in Raised(trust) /\ Eligible(k) THEN bounds.evaluations + 1
                    ELSE IF Eligible(k) THEN Never ELSE ledger.notified[k]]

\* sampleOperations: the sample is retained, the ledger written, and what
\* there is to announce is published after that.
Evaluate(trust) ==
    /\ bounds.evaluations < MaxEvaluations
    /\ samples' = IF Len(History) > Window THEN Tail(History) ELSE History
    /\ ledger' = [alerts   |-> Retained(trust),
                  notified |-> Notified(trust),
                  trust    |-> IF trust = "unknown" THEN ledger.trust ELSE trust,
                  gap      |-> IF observed.gap = 0 THEN ledger.gap ELSE observed.gap]
    /\ pending' = pending \o Announced(trust)
    /\ bounds' = [bounds EXCEPT !.evaluations = @ + 1]

SampleOperations == Evaluate(known) /\ UNCHANGED <<observed, known>>

PublishAlert ==
    /\ pending # <<>>
    /\ pending' = Tail(pending)
    /\ UNCHANGED <<observed, known, samples, ledger, bounds>>

AcknowledgeAlert ==
    \E i \in DOMAIN ledger.alerts :
        /\ ledger.alerts[i].state = "active"
        /\ LET acked == [ledger.alerts[i] EXCEPT !.state = "acknowledged"]
               others == Picked(ledger.alerts, {j \in DOMAIN ledger.alerts : ledger.alerts[j] # ledger.alerts[i]})
           IN  ledger' = [ledger EXCEPT !.alerts = <<acked>> \o others]
        /\ UNCHANGED <<observed, known, samples, pending, bounds>>

-----------------------------------------------------------------------------
(* What is observed, and the daemon that observes it                       *)

\* inspectCodexHookTrust, every five minutes: it may not get an answer, and
\* one that differs is evaluated at once.
RefreshTrust ==
    /\ known' \in {observed.trust, "unknown"} \ {known}
    /\ Evaluate(known')
    /\ UNCHANGED observed

Change ==
    /\ bounds.changes < MaxChanges
    /\ bounds' = [bounds EXCEPT !.changes = @ + 1]
    /\ \/ \E n \in {0, GrowthFiles, Uncounted} : observed' = [observed EXCEPT !.queue = n]
       \/ observed' = [observed EXCEPT !.big = ~@]
       \/ observed' = [observed EXCEPT !.gap = bounds.changes + 1, !.open = TRUE]
       \/ observed.open /\ observed' = [observed EXCEPT !.open = FALSE]
       \/ \E t \in Trusts : observed' = [observed EXCEPT !.trust = t]
    /\ UNCHANGED <<known, samples, ledger, pending>>

RestartDaemon ==
    /\ bounds.changes < MaxChanges
    /\ bounds' = [bounds EXCEPT !.changes = @ + 1]
    /\ known' = "unknown"
    /\ pending' = <<>>
    /\ UNCHANGED <<observed, samples, ledger>>

AlertsInit ==
    /\ observed = [queue |-> 0, big |-> FALSE, gap |-> 0, open |-> FALSE, trust |-> "trusted"]
    /\ known = "unknown"
    /\ samples = <<>>
    /\ ledger = [alerts |-> <<>>, notified |-> [k \in Keys |-> Never], trust |-> "unknown", gap |-> 0]
    /\ pending = <<>>
    /\ bounds = [evaluations |-> 0, changes |-> 0]

AlertsNext ==
    SampleOperations \/ PublishAlert \/ AcknowledgeAlert \/ RefreshTrust \/ Change \/ RestartDaemon

AlertsSpec == AlertsInit /\ [][AlertsNext]_alertVars

-----------------------------------------------------------------------------
AckedKeys == {ledger.alerts[i].key : i \in {j \in DOMAIN ledger.alerts :
                                               ledger.alerts[j].state = "acknowledged"}}

\* "Acknowledgement remains until recovery" (alerts.ts): an acknowledged
\* alert leaves the ledger's active ones only when its condition is gone,
\* and no key is ever active twice.
AcknowledgementHolds ==
    [][\A k \in AckedKeys : k \in AckedKeys' \/ k \notin Conditions(known')]_alertVars

\* "The hook file matches an approved version" is announced only when the
\* daemon knows that it does.  The code does not keep this: a trust that is
\* not known any more counts as one that is not bad.
AllClearIsTrue ==
    [][known' = "unknown" => \A i \in Len(pending) + 1 .. Len(pending') :
            ~(pending'[i] = [key |-> HookKey, state |-> "recovered"])]_alertVars
=============================================================================
