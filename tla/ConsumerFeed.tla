---------------------------- MODULE ConsumerFeed ----------------------------
(***************************************************************************)
(* The change feed and the session list of the consumer contract: what a   *)
(* coordinator announces of its session, and when; what the feed tells of  *)
(* it, once for each value; the cache of the list; and a consumer that     *)
(* reads again what it is told has changed.  The session's own evidence is *)
(* stored at once here (its queue is the subject of SessionLog).           *)
(***************************************************************************)
EXTENDS Naturals, Sequences, FiniteSets

CONSTANTS
    Observed,        \* the sessions
    MaxEvidence,     \* bound on the events of a session
    MaxBuffered,     \* messages a reader may be behind, 1 MiB in the code
    MaxSettings,     \* bound on changes of the explanation setting
    MaxClosings,     \* bound on evictions, Forgets and dropped connections
    CallsOutlive     \* whether an aborted call reports after its coordinator closed

ASSUME FeedAssumption ==
    /\ {MaxEvidence, MaxBuffered, MaxSettings, MaxClosings} \subseteq Nat
    /\ CallsOutlive \in BOOLEAN

VARIABLES
    session,     \* what the store holds of a session
    coordinator, \* of a loaded session
    due,         \* sessions whose coordinator has armed its summary timer
    late,        \* summaries that a closed coordinator has still to announce
    explains,    \* whether explanations are on
    listCache,   \* listCache[s]: the summary an entry was built of, and it
    told,        \* told[s]: what this connection last told of s
    stream,      \* messages sent and not read
    connected,
    view,        \* what the consumer holds of each session
    spent        \* [settings, closings] so far

feedVars == <<session, coordinator, due, late, explains, listCache, told, stream,
              connected, view, spent>>
readerVars == <<listCache, view>>

Nothing == [seq |-> 0]
Unloaded == [loaded |-> FALSE, call |-> "none", status |-> "none", tried |-> 0]
Known(s) == session[s].seq > 0 /\ ~session[s].forgotten
Loaded(s) == coordinator[s].loaded

\* explanationStatusForStore
Explained(s, status) == IF session[s].covers = session[s].seq THEN "generated" ELSE status

\* summaryOf: of the coordinator that is loaded, or the stored row.
SummaryOf(s) ==
    [seq |-> session[s].seq,
     explanation |-> IF Loaded(s) THEN Explained(s, coordinator[s].status) ELSE session[s].row]

-----------------------------------------------------------------------------
(* The feed                                                                *)

Send(messages) ==
    IF ~connected \/ messages = <<>> THEN UNCHANGED <<stream, connected>>
    ELSE IF Len(stream) + Len(messages) > MaxBuffered
    THEN stream' = <<>> /\ connected' = FALSE
    ELSE stream' = stream \o messages /\ UNCHANGED connected

Changed(s) == [type |-> "changed", of |-> s]
Removed(s) == [type |-> "removed", of |-> s]

\* onSummary: a value already told on this connection is not told again.
IsNews(s, summary) == connected /\ told[s] # summary
Announce(s, summary) ==
    /\ Send(IF IsNews(s, summary) THEN <<Changed(s)>> ELSE <<>>)
    /\ told' = [told EXCEPT ![s] = IF connected THEN summary ELSE @]

\* notifyRemoved
AnnounceRemoval(s, summary) ==
    /\ Send((IF IsNews(s, summary) THEN <<Changed(s)>> ELSE <<>>) \o <<Removed(s)>>)
    /\ told' = [told EXCEPT ![s] = Nothing]

FeedUnmoved == UNCHANGED <<told, stream, connected>>

-----------------------------------------------------------------------------
(* The coordinators                                                        *)

\* The first record of a session, or a page that opens it, loads it.
Fresh == [loaded |-> TRUE, call |-> "none", status |-> IF explains THEN "none" ELSE "disabled",
          tried |-> 0]

Speaks(s) == due' = due \cup {s}

Ingest(s) ==
    /\ ~session[s].forgotten /\ session[s].seq < MaxEvidence
    /\ LET c == IF Loaded(s) THEN coordinator[s] ELSE Fresh
       IN  /\ coordinator' = [coordinator EXCEPT ![s] = c]
           /\ session' = [session EXCEPT ![s].seq = @ + 1, ![s].row = c.status]
    /\ Speaks(s)
    /\ FeedUnmoved /\ UNCHANGED <<late, explains, readerVars, spent>>

Open(s) ==
    /\ Known(s) /\ ~Loaded(s)
    /\ coordinator' = [coordinator EXCEPT ![s] = Fresh]
    /\ FeedUnmoved /\ UNCHANGED <<session, due, late, explains, readerVars, spent>>

StartCall(s) ==
    /\ Loaded(s) /\ Known(s) /\ explains
    /\ coordinator[s].call = "none" /\ session[s].seq \notin {session[s].covers, coordinator[s].tried}
    /\ coordinator' = [coordinator EXCEPT ![s] =
         [@ EXCEPT !.call = "running", !.status = "generating"]]
    /\ Speaks(s)
    /\ FeedUnmoved /\ UNCHANGED <<session, late, explains, readerVars, spent>>

\* An explanation is an event of its own; a failure is written to the row.
CallAnswers(s) ==
    /\ coordinator[s].call = "running"
    /\ \/ /\ session[s].seq < MaxEvidence
          /\ session' = [session EXCEPT ![s].seq = @ + 1, ![s].covers = session[s].seq + 1,
                                        ![s].row = "generated"]
       \/ session' = [session EXCEPT ![s].row = "failed"]
    /\ coordinator' = [coordinator EXCEPT ![s] =
         [@ EXCEPT !.call = "none", !.status = session'[s].row, !.tried = session'[s].seq]]
    /\ Speaks(s)
    /\ FeedUnmoved /\ UNCHANGED <<late, explains, readerVars, spent>>

\* The end of a call that was aborted while the session stayed loaded.
CallAborted(s) ==
    /\ coordinator[s].call = "aborted"
    /\ coordinator' = [coordinator EXCEPT ![s].call = "none"]
    /\ Speaks(s)
    /\ FeedUnmoved /\ UNCHANGED <<session, late, explains, readerVars, spent>>

\* setExplainerCadence
SetExplains ==
    /\ spent.settings < MaxSettings /\ spent' = [spent EXCEPT !.settings = @ + 1]
    /\ explains' = ~explains
    /\ coordinator' = [s \in Observed |->
         IF ~Loaded(s) THEN Unloaded
         ELSE [coordinator[s] EXCEPT !.call = IF @ = "running" THEN "aborted" ELSE @,
                                     !.status = IF explains THEN "disabled" ELSE "none"]]
    /\ due' = due \cup {s \in Observed : Loaded(s)}
    /\ FeedUnmoved /\ UNCHANGED <<session, late, readerVars>>

SummaryTimer(s) ==
    /\ s \in due /\ due' = due \ {s}
    /\ Announce(s, SummaryOf(s))
    /\ UNCHANGED <<session, coordinator, late, explains, readerVars, spent>>

\* close: the call is aborted, and what it reports at its end arms the timer of
\* the closed coordinator once more.
Closes(s) ==
    /\ coordinator' = [coordinator EXCEPT ![s] = Unloaded]
    /\ due' = due \ {s}
    /\ late' = IF CallsOutlive /\ coordinator[s].call # "none"
               THEN late \cup {[of |-> s, summary |-> SummaryOf(s)]} ELSE late

LateSummary ==
    /\ \E l \in late :
         /\ late' = late \ {l}
         /\ Announce(l.of, l.summary)
    /\ UNCHANGED <<session, coordinator, due, explains, readerVars, spent>>

Closing == spent.closings < MaxClosings /\ spent' = [spent EXCEPT !.closings = @ + 1]

\* evictIdle
EvictSession(s) ==
    /\ Closing /\ Loaded(s)
    /\ Closes(s)
    /\ Announce(s, SummaryOf(s))
    /\ UNCHANGED <<session, explains, readerVars>>

ForgetSession(s) ==
    /\ Closing /\ Known(s)
    /\ IF Loaded(s) THEN Closes(s) /\ AnnounceRemoval(s, SummaryOf(s))
       ELSE /\ UNCHANGED <<coordinator, due, late>>
            /\ Send(<<Removed(s)>>) /\ told' = [told EXCEPT ![s] = Nothing]
    /\ session' = [session EXCEPT ![s].forgotten = TRUE]
    /\ UNCHANGED <<explains, readerVars>>

-----------------------------------------------------------------------------
(* The consumer                                                            *)

Connect ==
    /\ ~connected /\ connected' = TRUE
    /\ stream' = << [type |-> "resync"] >>
    /\ told' = [s \in Observed |-> Nothing]
    /\ UNCHANGED <<session, coordinator, due, late, explains, readerVars, spent>>

Disconnect ==
    /\ Closing
    /\ connected /\ connected' = FALSE /\ stream' = <<>>
    /\ UNCHANGED <<session, coordinator, due, late, explains, listCache, told, view>>

\* Mutant: the evidence alone says whether an entry is still good.
EntryIsGoodMutant(held, summary) == held.of.seq = summary.seq

EntryIsGood(held, summary) == held.of = summary

\* listEntryOf: an entry is built again when the summary is another one.
ListEntry(s) ==
    IF EntryIsGood(listCache[s], SummaryOf(s)) THEN listCache[s]
    ELSE [of |-> SummaryOf(s), entry |-> SummaryOf(s)]

NoEntry == [of |-> Nothing, entry |-> Nothing]

ReadList ==
    /\ listCache' = [s \in Observed |-> IF Known(s) THEN ListEntry(s) ELSE NoEntry]
    /\ view' = [s \in Observed |-> listCache'[s].entry]

\* A message is handled by reading again what it is about.
ReadMessage ==
    /\ stream # <<>> /\ stream' = Tail(stream)
    /\ CASE Head(stream).type = "resync" -> ReadList
         [] Head(stream).type = "changed" ->
              LET s == Head(stream).of IN
              /\ view' = [view EXCEPT ![s] = IF Known(s) THEN SummaryOf(s) ELSE Nothing]
              /\ UNCHANGED listCache
         [] OTHER -> view' = [view EXCEPT ![Head(stream).of] = Nothing] /\ UNCHANGED listCache
    /\ UNCHANGED <<session, coordinator, due, late, explains, told, connected, spent>>

FeedInit ==
    /\ session = [s \in Observed |-> [seq |-> 0, covers |-> MaxEvidence + 1, row |-> "none", forgotten |-> FALSE]]
    /\ coordinator = [s \in Observed |-> Unloaded]
    /\ due = {} /\ late = {} /\ explains = TRUE
    /\ listCache = [s \in Observed |-> NoEntry]
    /\ told = [s \in Observed |-> Nothing]
    /\ stream = <<>> /\ connected = FALSE
    /\ view = [s \in Observed |-> Nothing]
    /\ spent = [settings |-> 0, closings |-> 0]

FeedNext ==
    \/ \E s \in Observed :
         \/ Ingest(s) \/ Open(s) \/ StartCall(s) \/ CallAnswers(s) \/ CallAborted(s)
         \/ SummaryTimer(s) \/ EvictSession(s) \/ ForgetSession(s)
    \/ SetExplains \/ LateSummary \/ Connect \/ Disconnect \/ ReadMessage

FeedSpec == FeedInit /\ [][FeedNext]_feedVars

-----------------------------------------------------------------------------
\* A consumer that has read what it was told holds what the contract serves:
\* the sessions there are, each with its latest evidence; and a list served now
\* would say of each what its coordinator or its row says.
ConsumerConverges ==
    /\ connected /\ stream = <<>> =>
         \A s \in Observed \ due :
           view[s].seq = IF Known(s) THEN session[s].seq ELSE 0
    /\ \A s \in Observed : Known(s) => ListEntry(s).entry = SummaryOf(s)

\* A session announced as changed is one the contract serves, or its removal
\* follows.
AnnouncedAreServed ==
    \A i \in DOMAIN stream : stream[i].type = "changed" =>
      \/ Known(stream[i].of)
      \/ \E j \in i + 1 .. Len(stream) : stream[j] = Removed(stream[i].of)
=============================================================================
