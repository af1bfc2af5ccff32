---------------------------- MODULE OpencodeMapping ----------------------------
(***************************************************************************)
(* What the OpenCode adapter tells of the rows of a session.  OpenCode     *)
(* adds a row when a step starts and updates it while it streams, so a     *)
(* poll meets rows half written, in pieces of any size, and meets them     *)
(* again after a restart; the log keeps the first event of an id.          *)
(* StoreTailer has the cursor and its failures; here is what the events    *)
(* say, and what of it depends on where a poll began.  OpenCode is         *)
(* external.                                                               *)
(***************************************************************************)
EXTENDS Naturals, Sequences, FiniteSets, FiniteSetsExt

CONSTANTS
    MaxRows,     \* bound on the rows of the session
    MaxText,     \* bound on the pieces of text of a step
    MaxRereads   \* bound on the times the session is read again

ASSUME MappingAssumption == {MaxRows, MaxText, MaxRereads} \subseteq Nat

VARIABLES
    dbRows,       \* the rows of the session, by their number
    position,   \* the cursor: the rows mapped
    reported,       \* the events of the log, the first of an id
    rereads

mappingVars == <<dbRows, position, reported, rereads>>

NoText == <<0, 0>>
NoTurnYet == 0

-----------------------------------------------------------------------------
(* OpenCode                                                                *)

NewRow(type) == [type |-> type, text |-> 0, tool |-> "none", listing |-> FALSE, closed |-> "open"]

RowsOf(type) == {i \in DOMAIN dbRows : dbRows[i].type = type}
InTurn == \E i \in RowsOf("user") : \A j \in RowsOf("idle") : j < i
OpenSteps == {i \in RowsOf("assistant") : dbRows[i].closed = "open" /\ i = Len(dbRows)}

AddRow(row) == Len(dbRows) < MaxRows /\ dbRows' = Append(dbRows, row)

\* A prompt; a step that still runs is abandoned with it.
Prompt == AddRow(NewRow("user"))

StartStep ==
    /\ InTurn /\ OpenSteps = {}
    /\ \/ AddRow(NewRow("assistant"))
       \/ \E listing \in BOOLEAN :
            AddRow([NewRow("assistant") EXCEPT !.tool = "streaming", !.listing = listing])

GoIdle == InTurn /\ OpenSteps = {} /\ AddRow(NewRow("idle"))

Streams(i) ==
    /\ i \in OpenSteps
    /\ \/ dbRows[i].text < MaxText /\ dbRows' = [dbRows EXCEPT ![i].text = @ + 1]
       \/ dbRows[i].tool = "streaming" /\ dbRows' = [dbRows EXCEPT ![i].tool = "running"]
       \/ /\ dbRows[i].tool = "running"
          /\ \E end \in {"completed", "error", "declined"} :
               dbRows' = [dbRows EXCEPT ![i].tool = end]

\* A declined permission aborts the step, and no idle row follows.
CloseStep(i) ==
    /\ i \in OpenSteps
    /\ dbRows' = [dbRows EXCEPT ![i].closed =
                      IF dbRows[i].tool = "declined" THEN "aborted" ELSE "done"]

-----------------------------------------------------------------------------
(* The mapping                                                             *)

IsFinalRow(i) == dbRows[i].type = "assistant" => dbRows[i].closed # "open"

TurnBoundaryAfter(i) == \E j \in RowsOf("user") \cup RowsOf("idle") : j > i

Event(id, turn, says) == [id |-> id, turn |-> turn, says |-> says]

\* What a call is, as its part shows it: that a directory was listed shows
\* only in the result.
CallOf(i) == IF dbRows[i].listing /\ dbRows[i].tool = "completed" THEN "list" ELSE "read"

MapToolPart(i, turn) ==
    CASE dbRows[i].tool \in {"running", "streaming"} -> {Event(<<i, "called">>, turn, CallOf(i))}
      [] dbRows[i].tool = "completed" ->
           {Event(<<i, "called">>, turn, CallOf(i)), Event(<<i, "completed">>, turn, "done")}
      [] dbRows[i].tool \in {"error", "declined"} ->
           {Event(<<i, "called">>, turn, CallOf(i)), Event(<<i, "failed">>, turn, dbRows[i].tool)}
      [] OTHER -> {}

\* Text and usage wait until the row is final.
MapInProgressTools(i, turn) == IF dbRows[i].tool = "streaming" THEN {} ELSE MapToolPart(i, turn)

TextOf(i) == IF dbRows[i].text = 0 THEN NoText ELSE <<i, dbRows[i].text>>

MapAssistant(i, turn, last) ==
    (IF TextOf(i) = NoText THEN {} ELSE {Event(<<i, "message">>, turn, TextOf(i))})
    \cup MapToolPart(i, turn)
    \cup {Event(<<i, "usage">>, turn, dbRows[i].closed)}
    \cup (IF dbRows[i].closed = "aborted" THEN {Event(<<i, "declined">>, turn, last)} ELSE {})

\* mapMessage of the next row that was read; the cursor stays before a row
\* that is still written, unless its turn is over.
MapRow(s, i) ==
    IF s.blocked THEN s
    ELSE IF ~IsFinalRow(i)
    THEN IF TurnBoundaryAfter(i)
         THEN [s EXCEPT !.position = i, !.events = @ \cup {Event(<<i, "abandoned">>, s.turn, NoText)}]
         ELSE [s EXCEPT !.blocked = TRUE, !.events = @ \cup MapInProgressTools(i, s.turn)]
    ELSE CASE dbRows[i].type = "user" ->
                [s EXCEPT !.position = i, !.turn = i, !.last = NoText,
                          !.events = @ \cup {Event(<<i, "started">>, i, NoText)}]
           [] dbRows[i].type = "assistant" ->
                LET last == IF TextOf(i) = NoText THEN s.last ELSE TextOf(i) IN
                [s EXCEPT !.position = i, !.last = last,
                          !.events = @ \cup MapAssistant(i, s.turn, last)]
           [] dbRows[i].type = "idle" ->
                [s EXCEPT !.position = i,
                          !.events = @ \cup {Event(<<i, "ended">>, s.turn, s.last)}]

\* readLatestBefore.
LatestBefore(type, p) ==
    LET before == {i \in RowsOf(type) : i <= p} IN IF before = {} THEN 0 ELSE Max(before)

\* The turn a poll begins in, and what the newest step before it said.
Context(p) ==
    LET step == LatestBefore("assistant", p) IN
    [turn |-> LatestBefore("user", p), last |-> IF step = 0 THEN NoText ELSE TextOf(step)]

\* The rows of a budget, mapped one after the other.
ReadRows(budget) ==
    LET from == [position |-> position, turn |-> Context(position).turn,
                 last |-> Context(position).last, events |-> {}, blocked |-> FALSE]
        read[k \in 0 .. budget] ==
          IF k = 0 THEN from ELSE MapRow(read[k - 1], position + k)
    IN  read[budget]

\* A poll reads some of the rows after the cursor.
PollRows ==
    /\ position < Len(dbRows)
    /\ \E budget \in 1 .. (Len(dbRows) - position) :
         LET end == ReadRows(budget) IN
         /\ position' = end.position
         /\ reported' = reported \cup {e \in end.events : \A d \in reported : d.id # e.id}
    /\ UNCHANGED <<dbRows, rereads>>

\* A job reads the session from its first row.
RereadRows ==
    /\ rereads < MaxRereads /\ position > 0
    /\ position' = 0 /\ rereads' = rereads + 1
    /\ UNCHANGED <<dbRows, reported>>

MappingInit == dbRows = <<>> /\ position = 0 /\ reported = {} /\ rereads = 0

MappingNext ==
    \/ /\ Prompt \/ StartStep \/ GoIdle \/ (\E i \in DOMAIN dbRows : Streams(i) \/ CloseStep(i))
       /\ UNCHANGED <<position, reported, rereads>>
    \/ PollRows
    \/ RereadRows

MappingSpec == MappingInit /\ [][MappingNext]_mappingVars

-----------------------------------------------------------------------------
PromptOf(i) == LatestBefore("user", i)
Says(id, turn, says) == Event(id, turn, says) \in reported

\* Every row behind the cursor is told as OpenCode left it, and of the turn it
\* belongs to, however often and in whatever pieces it was read: the whole
\* text of a step, how its tool ended, and that it was abandoned.
RowsAreToldWhole ==
    \A i \in 1 .. position :
      /\ dbRows[i].type = "user" => Says(<<i, "started">>, i, NoText)
      /\ dbRows[i].type = "assistant" /\ IsFinalRow(i) =>
           /\ Says(<<i, "usage">>, PromptOf(i), dbRows[i].closed)
           /\ dbRows[i].text > 0 => Says(<<i, "message">>, PromptOf(i), TextOf(i))
           /\ dbRows[i].tool = "completed" <=> Says(<<i, "completed">>, PromptOf(i), "done")
           /\ dbRows[i].tool \in {"error", "declined"} =>
                Says(<<i, "failed">>, PromptOf(i), dbRows[i].tool)
           /\ dbRows[i].closed = "aborted" => \E e \in reported : e.id = <<i, "declined">>
      /\ ~IsFinalRow(i) => Says(<<i, "abandoned">>, PromptOf(i), NoText)

\* The last message of a turn was said in that turn.
LastMessageIsOfItsTurn ==
    \A e \in reported : e.id[2] = "ended" /\ e.says # NoText => PromptOf(e.says[1]) = e.turn

\* A listing of a directory is not told as a read of a file.
ListingIsNoRead ==
    \A i \in 1 .. position : dbRows[i].listing /\ dbRows[i].tool = "completed" /\ IsFinalRow(i) =>
        ~Says(<<i, "called">>, PromptOf(i), "read")
=============================================================================
