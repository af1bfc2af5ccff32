--------------------------- MODULE TranscriptParser ---------------------------
(***************************************************************************)
(* What the Claude Code parser makes of a transcript: the turns, the       *)
(* results of tools and the usage of a session and of an agent whose       *)
(* records lie in the same file.  Every record of a response carries the   *)
(* usage of the whole response, so that of a response is told again and    *)
(* again, and the state keeps the last.  A file may be read from its       *)
(* beginning again at any time.  Claude Code is external.                  *)
(***************************************************************************)
EXTENDS Naturals, Sequences, FiniteSetsExt

CONSTANTS
    Lanes,          \* the session and the agents that write into its file
    Responses,      \* ids of responses
    LaneOf,         \* LaneOf[r]: whose response it is
    MaxRecordLines,       \* bound on the records of a transcript
    MaxTokens,      \* bound on the usage of a response
    MaxReadings,     \* bound on the times the file is read again
    NamesPrompts,   \* whether this build writes the ids of prompts
    ResumesMidFile  \* FALSE: a file is read again from its first byte; the
                    \* other value shows why

ASSUME TranscriptAssumption ==
    /\ Responses \subseteq Nat \ {0} /\ IsFiniteSet(Responses)
    /\ LaneOf \in [Responses -> Lanes]
    /\ {MaxRecordLines, MaxTokens, MaxReadings} \subseteq Nat
    /\ {NamesPrompts, ResumesMidFile} \subseteq BOOLEAN

VARIABLES
    transcript,     \* the records of the file
    offset,         \* how many of them are read
    parser,         \* what the parser remembers
    logged,         \* the events of the log, one of an id
    usage,          \* the usage the state adds up
    readings

transcriptVars == <<transcript, offset, parser, logged, usage, readings>>

Main == "main"
NoPrompt == 0
Unspent == [resp |-> NoPrompt, tokens |-> 0]

FreshParser == [turn |-> NoPrompt, calls |-> {}, lastUsage |-> Unspent]

-----------------------------------------------------------------------------
(* Claude Code                                                             *)

Lines(kind) == {i \in DOMAIN transcript : transcript[i].kind = kind}
Prompts == Lines("prompt")

\* The usage of a response so far: what its last record says.
Latest(r) == LET said == {i \in DOMAIN transcript : transcript[i].resp = r}
             IN  IF said = {} THEN 0
                 ELSE transcript[CHOOSE i \in said : \A j \in said : j <= i].tokens

Blank == [kind |-> "", resp |-> NoPrompt, lane |-> Main, tokens |-> 0, call |-> 0, ends |-> "",
          final |-> FALSE]

WrittenPrompt == [Blank EXCEPT !.kind = "prompt"]
WrittenInterrupt == [Blank EXCEPT !.kind = "interrupt"]

\* A block of a response: text, or the use of a tool, whose id is its line.
Block(k, r, t, f) ==
    [Blank EXCEPT !.kind = k, !.resp = r, !.lane = LaneOf[r], !.tokens = t, !.final = f]
Blocks == {Block(k, r, t, f) :
              k \in {"text", "use"}, r \in Responses, t \in 1 .. MaxTokens, f \in BOOLEAN}

\* How a tool ended, as a result tells it: it may also have been refused, or
\* stopped, or be running in the background.
Ends == {"completed", "failed", "otherwise"}
ResultOf(c, e) ==
    [Blank EXCEPT !.kind = "result", !.lane = transcript[c].lane, !.call = c, !.ends = e]
Results == {ResultOf(c, e) : c \in Lines("use"), e \in Ends}

Answered(c) == \E i \in Lines("result") : transcript[i].call = c

\* A response grows, and only an agent's own may come between; the responses
\* of a lane are numbered as they come.
Writable(b) ==
    /\ b.tokens >= Latest(b.resp)
    /\ \A r \in Responses : r < b.resp /\ LaneOf[r] = b.lane => Latest(r) > 0
    /\ b.final => b.kind = "text"
    /\ \A i \in DOMAIN transcript :
         /\ transcript[i].resp = b.resp => ~transcript[i].final
         /\ transcript[i].resp # b.resp /\ transcript[i].resp # NoPrompt
              /\ transcript[i].lane = b.lane
            => \A j \in DOMAIN transcript : transcript[j].resp = b.resp => j > i

WriteRecord ==
    /\ Len(transcript) < MaxRecordLines /\ offset = Len(transcript)
    /\ \E b \in {WrittenPrompt, WrittenInterrupt} \cup {b \in Blocks : Writable(b)}
                  \cup {b \in Results : ~Answered(b.call)} :
         transcript' = Append(transcript, b)
    /\ UNCHANGED <<offset, parser, logged, usage, readings>>

-----------------------------------------------------------------------------
(* The parser                                                              *)

Tells(id, line, about) == [id |-> id, line |-> line, about |-> about]

\* promptId of the record, or the prompt known so far, or one of its line.
TurnAt(line) ==
    IF NamesPrompts THEN Cardinality({i \in Prompts : i <= line}) ELSE
    IF parser.turn = NoPrompt THEN line ELSE parser.turn

\* mapToolResult, parseFailure: only what ended by itself has a result.
EndedAs(ends) ==
    CASE ends = "completed" -> "success" [] ends = "failed" -> "failure" [] OTHER -> "unknown"

\* An unchanged repeat of the usage told last is dropped.
RepeatsUsage(last, b) == last = [resp |-> b.resp, tokens |-> b.tokens]

UsageEvents(line, b) ==
    IF RepeatsUsage(parser.lastUsage, b) THEN {}
    ELSE {Tells(<<"usage", line>>, line, [lane |-> b.lane, resp |-> b.resp, tokens |-> b.tokens])}

UserEvents(line, b) ==
    CASE b.kind = "prompt" -> {Tells(<<"start", TurnAt(line)>>, line, [turn |-> TurnAt(line)])}
      [] b.kind = "interrupt" ->
           IF parser.turn = NoPrompt THEN {}
           ELSE {Tells(<<"end", parser.turn>>, line, [turn |-> parser.turn])}
      [] OTHER ->
           {Tells(<<"result", b.call>>, line,
                  [call |-> b.call, observed |-> EndedAs(b.ends),
                   known |-> \E c \in parser.calls : c.line = b.call,
                   turn |-> IF \E c \in parser.calls : c.line = b.call
                            THEN (CHOOSE c \in parser.calls : c.line = b.call).turn
                            ELSE parser.turn])}

AssistantEvents(line, b) ==
    UsageEvents(line, b)
    \cup (IF b.kind = "use" THEN {Tells(<<"call", line>>, line, [turn |-> parser.turn])}
          ELSE {Tells(<<"message", line>>, line, [turn |-> parser.turn])})
    \cup (IF b.final /\ b.lane = Main /\ parser.turn # NoPrompt
          THEN {Tells(<<"end", parser.turn, line>>, line, [turn |-> parser.turn])} ELSE {})

FromAssistant(b) == b.kind \in {"text", "use"}

Remembered(line, b) ==
    CASE b.kind = "prompt" -> [parser EXCEPT !.turn = TurnAt(line)]
      [] b.kind = "use" ->
           [parser EXCEPT !.calls = @ \cup {[line |-> line, turn |-> parser.turn]},
                          !.lastUsage = [resp |-> b.resp, tokens |-> b.tokens]]
      [] b.kind = "text" -> [parser EXCEPT !.lastUsage = [resp |-> b.resp, tokens |-> b.tokens]]
      [] b.kind = "result" -> [parser EXCEPT !.calls = {c \in @ : c.line # b.call}]
      [] OTHER -> parser

\* onAgentUsage: of a lane, the response told last is replaced; another adds.
AddUsage(u, about) ==
    LET last == u.lastByLane[about.lane] IN
    [total |-> (u.total + about.tokens) - (IF last.resp = about.resp THEN last.tokens ELSE 0),
     messages |-> IF last.resp = about.resp THEN u.messages ELSE u.messages + 1,
     lastByLane |-> [u.lastByLane EXCEPT ![about.lane] =
                       [resp |-> about.resp, tokens |-> about.tokens]]]

\* parseRecord of the next record; the log keeps the events of new ids, and
\* the state takes in those it kept.
ParseRecord ==
    /\ offset < Len(transcript)
    /\ LET line == offset + 1
           b == transcript[line]
           all == IF FromAssistant(b) THEN AssistantEvents(line, b) ELSE UserEvents(line, b)
           new == {e \in all : \A d \in logged : d.id # e.id}
           told == {e \in new : e.id[1] = "usage"}
       IN
       /\ offset' = line
       /\ parser' = Remembered(line, b)
       /\ logged' = logged \cup new
       /\ usage' = IF told = {} THEN usage ELSE AddUsage(usage, (CHOOSE e \in told : TRUE).about)
    /\ UNCHANGED <<transcript, readings>>

\* A restart, a rotation or a job: a new parser, from the first byte.
Reread ==
    /\ readings < MaxReadings
    /\ readings' = readings + 1
    /\ parser' = FreshParser
    /\ offset' = IF ResumesMidFile THEN offset ELSE 0
    /\ UNCHANGED <<transcript, logged, usage>>

TranscriptInit ==
    /\ transcript = <<>> /\ offset = 0 /\ parser = FreshParser /\ logged = {} /\ readings = 0
    /\ usage = [total |-> 0, messages |-> 0, lastByLane |-> [l \in Lanes |-> Unspent]]

TranscriptNext == WriteRecord \/ ParseRecord \/ Reread

TranscriptSpec == TranscriptInit /\ [][TranscriptNext]_transcriptVars

-----------------------------------------------------------------------------
Told(id) == {e \in logged : e.id = id}
TurnOfLine(i) == Cardinality({j \in Prompts : j <= i})

\* Once a transcript is read, every response counts once, with its last
\* figures, and every prompt, call and result is told: of the turn it came
\* in, and of a command only that it passed or failed if it ended by itself.
TranscriptTold ==
    offset = Len(transcript) =>
      /\ usage.total = FoldSet(LAMBDA r, sum : sum + Latest(r), 0, Responses)
      /\ usage.messages = Cardinality({r \in Responses : Latest(r) > 0})
      /\ \A i \in Prompts : \E e \in logged : e.line = i /\ e.about.turn = TurnOfLine(i)
      /\ \A i \in Lines("use") : \E e \in Told(<<"call", i>>) : e.about.turn = TurnOfLine(i)
      /\ \A i \in Lines("result") : \E e \in Told(<<"result", transcript[i].call>>) :
           /\ e.about.known /\ e.about.turn = TurnOfLine(transcript[i].call)
           /\ e.about.observed # "unknown" <=> transcript[i].ends # "otherwise"
=============================================================================
