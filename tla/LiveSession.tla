---------------------------- MODULE LiveSession ----------------------------
(***************************************************************************)
(* How a browser follows one session: a snapshot, then the event stream    *)
(* from its sequence number on, folded frame by frame; and how the daemon  *)
(* opens such a stream.  Events carry their position in the session's log; *)
(* a sequence number of the code is the position less one.                 *)
(***************************************************************************)
EXTENDS Naturals, Sequences, FiniteSets

CONSTANTS
    LiveEvents,   \* what the session ingests, once each
    MaxReplay,    \* MAX_STREAM_REPLAY_EVENTS
    MaxDrops,     \* bound on lost connections and failed requests
    MaxReloads,   \* bound on how often the reader opens the session anew
    FlushFails,   \* whether a flush may fail
    LosesTail     \* whether a crash may lose events already published

ASSUME LiveSessionAssumption ==
    /\ IsFiniteSet(LiveEvents)
    /\ {MaxReplay, MaxDrops, MaxReloads} \subseteq Nat
    /\ {FlushFails, LosesTail} \subseteq BOOLEAN

VARIABLES
    log,          \* the session's events, published as they are ingested
    flushed,      \* how many of them are stored
    follows,      \* whether the stream has its subscriber
    wire,         \* frames sent and not yet read, each with its generation
    mode,         \* what the page does: "load", "connect", "follow", "wait"
    generation,   \* the page's generation
    replies,      \* snapshots on their way to the page
    after,        \* the position the stream is followed from (streamAfter)
    pending,      \* events received and not yet folded
    view,         \* the events folded into the page's state
    short,        \* whether the stream was opened short of the log
    drops, reloads

liveVars == <<log, flushed, follows, wire, mode, generation, replies, after,
              pending, view, short, drops, reloads>>
daemonVars == <<log, flushed>>
pageVars == <<mode, generation, replies, after, pending, view>>
boundVars == <<drops, reloads>>

-----------------------------------------------------------------------------
(* The daemon                                                              *)

Frame(p, e) == [generation |-> generation, at |-> p, event |-> e]

\* An event is published before it is stored; re-read after a crash, events
\* come in any order.
IngestLive(e) ==
    /\ e \notin {log[p] : p \in DOMAIN log}
    /\ log' = Append(log, e)
    /\ wire' = IF follows THEN Append(wire, Frame(Len(log) + 1, e)) ELSE wire
    /\ short' = FALSE
    /\ UNCHANGED <<flushed, follows>>
    /\ UNCHANGED pageVars /\ UNCHANGED boundVars

FlushedTo == {Len(log)} \cup (IF FlushFails THEN {flushed} ELSE {})

FlushLive ==
    /\ flushed' \in FlushedTo
    /\ UNCHANGED <<log, follows, wire, short>>
    /\ UNCHANGED pageVars /\ UNCHANGED boundVars

\* The daemon dies and is started again.
Crash ==
    /\ drops < MaxDrops
    /\ drops' = drops + 1
    /\ LosesTail \/ flushed = Len(log)
    /\ log' = SubSeq(log, 1, flushed)
    /\ follows' = FALSE
    /\ wire' = <<>>
    /\ short' = FALSE
    /\ mode' = IF mode = "follow" THEN "connect" ELSE mode
    /\ UNCHANGED <<flushed, generation, replies, after, pending, view, reloads>>

-----------------------------------------------------------------------------
(* The page: a generation is a snapshot and the stream that continues it   *)

\* loadFresh: the old stream is stopped, its pending frame discarded.
LoadFresh ==
    /\ generation' = generation + 1
    /\ mode' = "load"
    /\ follows' = FALSE
    /\ short' = FALSE
    /\ pending' = <<>>

\* The reader retries, or leaves the session and comes back.
Reload ==
    /\ reloads < MaxReloads
    /\ reloads' = reloads + 1
    /\ LoadFresh
    /\ UNCHANGED <<log, flushed, wire, replies, after, view, drops>>

\* snapshot: the state with every published event, stored or not.
AnswerSnapshot ==
    /\ mode = "load"
    /\ \A r \in replies : r.generation # generation
    /\ flushed' \in FlushedTo
    /\ replies' = replies \cup {[generation |-> generation, log |-> log]}
    /\ UNCHANGED <<log, follows, wire, mode, generation, after, pending, view, short>>
    /\ UNCHANGED boundVars

SameGeneration(g) == g = generation

ReceiveSnapshot(r) ==
    /\ replies' = replies \ {r}
    /\ IF SameGeneration(r.generation)
       THEN /\ view' = r.log
            /\ after' = Len(r.log)
            /\ mode' = "connect"
       ELSE UNCHANGED <<view, after, mode>>
    /\ UNCHANGED <<log, flushed, follows, wire, generation, pending, short>>
    /\ UNCHANGED boundVars

\* The request fails; the reader sees the error until the next attempt.
FailSnapshot ==
    /\ mode = "load" /\ drops < MaxDrops /\ reloads < MaxReloads
    /\ \A r \in replies : r.generation # generation
    /\ mode' = "failed"
    /\ drops' = drops + 1
    /\ UNCHANGED <<log, flushed, follows, wire, generation, replies, after,
                   pending, view, short, reloads>>

-----------------------------------------------------------------------------
(* Opening and following the stream                                        *)

\* streamSession: cursor-ahead, backlog-exceeded, history-gap.
Refused(stored) ==
    \/ after > Len(log)
    \/ stored > after + MaxReplay
    \/ Len(log) > after /\ stored <= after

OpenStream ==
    /\ mode = "connect"
    /\ \E stored \in FlushedTo :
         /\ flushed' = stored
         /\ IF Refused(stored)
            THEN LoadFresh /\ UNCHANGED wire
            ELSE /\ mode' = "follow"
                 /\ follows' = TRUE
                 /\ short' = (stored < Len(log))
                 /\ wire' = wire \o [k \in 1 .. (IF stored > after THEN stored - after ELSE 0)
                                      |-> Frame(after + k, log[after + k])]
                 /\ UNCHANGED <<generation, pending>>
    /\ UNCHANGED <<log, replies, after, view>>
    /\ UNCHANGED boundVars

\* The stream is lost with what it carries, and connected again later.
Drop ==
    /\ mode = "follow" /\ drops < MaxDrops
    /\ drops' = drops + 1
    /\ mode' = "connect"
    /\ follows' = FALSE
    /\ wire' = <<>>
    /\ short' = FALSE
    /\ UNCHANGED daemonVars
    /\ UNCHANGED <<generation, replies, after, pending, view, reloads>>

\* Mutant: all but the next frame is passed over.
DuplicateMutant(frame) == frame.at # after + 1

Duplicate(frame) == frame.at <= after

\* Mutant: no frame is refused.
GapMutant(frame) == FALSE

Gap(frame) == frame.at > after + 1

ReceiveFrame ==
    /\ wire # <<>>
    /\ wire' = Tail(wire)
    /\ LET frame == Head(wire) IN
       IF ~SameGeneration(frame.generation) \/ Duplicate(frame)
       THEN UNCHANGED <<mode, generation, follows, after, pending, short>>
       ELSE IF Gap(frame)
       THEN LoadFresh /\ UNCHANGED after
       ELSE /\ after' = frame.at
            /\ pending' = Append(pending, frame.event)
            /\ UNCHANGED <<mode, generation, follows, short>>
    /\ UNCHANGED daemonVars /\ UNCHANGED boundVars
    /\ UNCHANGED <<replies, view>>

\* applyEvents, once per animation frame.
Fold ==
    /\ pending # <<>>
    /\ view' = view \o pending
    /\ pending' = <<>>
    /\ UNCHANGED daemonVars /\ UNCHANGED boundVars
    /\ UNCHANGED <<follows, wire, mode, generation, replies, after, short>>

-----------------------------------------------------------------------------
LiveInit ==
    /\ log = <<>> /\ flushed = 0
    /\ follows = FALSE /\ wire = <<>>
    /\ mode = "load" /\ generation = 1
    /\ replies = {} /\ after = 0
    /\ pending = <<>> /\ view = <<>> /\ short = FALSE
    /\ drops = 0 /\ reloads = 0

PageStep ==
    \/ AnswerSnapshot
    \/ \E r \in replies : ReceiveSnapshot(r)
    \/ OpenStream
    \/ ReceiveFrame
    \/ Fold

LiveNext ==
    \/ \E e \in LiveEvents : IngestLive(e)
    \/ FlushLive
    \/ Crash
    \/ Reload
    \/ FailSnapshot
    \/ Drop
    \/ PageStep

LiveSpec == LiveInit /\ [][LiveNext]_liveVars

\* Requests are answered, frames arrive and are folded, the stream is
\* connected again, and a reader retries what failed.
LiveFairSpec ==
    /\ LiveSpec
    /\ WF_liveVars(PageStep)
    /\ WF_liveVars(Reload /\ mode = "failed")

-----------------------------------------------------------------------------
(* Properties                                                              *)

\* While a stream is followed, what the page has folded and is about to
\* fold is the start of the session's log: no event is missing, repeated or
\* of another generation (loadFresh, streamSession).
ViewIsPrefix ==
    mode = "follow" =>
        /\ view \o pending = SubSeq(log, 1, after)
        /\ after <= Len(log)

\* When events stop, the page comes to show every one of them; but after a
\* flush failed while the stream was opened, only once the next event comes.
CatchesUp == <>[](view = log \/ short)
=============================================================================
