--------------------------- MODULE RolloutParser ---------------------------
(***************************************************************************)
(* What the Codex parser makes of a rollout: which exit code and which     *)
(* output it gives a command whose call yields, is polled, runs inside a   *)
(* code cell beside others, or is recorded twice.  Codex is external: it   *)
(* appends the records, and the parser reads each as it comes.             *)
(***************************************************************************)
EXTENDS Naturals, Sequences, FiniteSets

CONSTANTS
    Calls,       \* call ids of the model
    Texts,       \* command texts
    Handles,     \* handles of running commands; free again once one is over
    MaxPolls,    \* bound on the polls of running commands
    PrintsAll    \* whether a cell that prints results prints those of all its
                 \* commands

ASSUME RolloutAssumption == MaxPolls \in Nat /\ PrintsAll \in BOOLEAN

VARIABLES
    build,    \* which items this build of Codex writes: none, some that no
              \* version announces, or all
    codex,    \* codex[c]: the call as it happens
    polls,    \* handles being polled, and how many polls there were
    calls,    \* calls[c]: what the parser remembers of an open call
    pending,  \* pending[h]: the command it takes to run under a handle
    chunks,   \* chunks[c]: the output it gathered of a command that yielded
    openCells, callExits,  \* exit codes filed for cells and for calls
    events    \* the completions it told, by id

rolloutVars == <<build, codex, polls, calls, pending, chunks, openCells, callExits, events>>

Exits == {0, 1}
Unknown == 2    \* no exit code
NoCall == "no call"
NoHandle == 0

\* A rollout has finitely many calls; nothing that is no call is one of them.
ASSUME NamesAssumption == IsFiniteSet(Calls) /\ NoCall \notin Calls /\ NoHandle \notin Handles

Names == {<<t>> : t \in Texts} \cup {<<t, u>> : t, u \in Texts}

Unmade == [form |-> "unmade", names |-> <<>>, exits |-> <<>>, handle |-> NoHandle, said |-> 0]
NoCell == [commands |-> <<>>, exits |-> [t \in Texts |-> <<>>]]

ItemBased == build = "all"
WritesItems == build # "none"

-----------------------------------------------------------------------------
(* Codex: calls run their processes in order, and yield while they run     *)

Live(c) == codex[c].form \in {"function", "cell"}
Finished(c) == Len(codex[c].exits) = Len(codex[c].names)
Yielded(c) == codex[c].handle # NoHandle

\* The outputs a call may end with: an exit code of its own, the results its
\* script printed, or nothing that says how it went.
Printed(c) == IF PrintsAll THEN {codex[c].exits}
              ELSE {codex[c].exits} \cup {<<codex[c].exits[i]>> : i \in DOMAIN codex[c].exits}
Endings(c) ==
    {[exit |-> "none", codes |-> <<>>]} \cup
    (IF codex[c].form = "function"
     THEN {[exit |-> "header", codes |-> codex[c].exits]}
     ELSE {[exit |-> "printed", codes |-> p] : p \in Printed(c)})

-----------------------------------------------------------------------------
(* parseExecOutput                                                         *)

\* decodeChunkResults: several results say something only if all are zero.
Decoded(codes) ==
    LET all == DOMAIN codes IN
    IF Cardinality(all) = 1 \/ \A i \in all : codes[i] = 0
    THEN codes[CHOOSE i \in all : TRUE] ELSE Unknown

Observed(ending) == IF ending.codes = <<>> THEN Unknown ELSE Decoded(ending.codes)

-----------------------------------------------------------------------------
(* commandExecution, recordedExit                                          *)

CountOf(s, t) == Cardinality({i \in DOMAIN s : s[i] = t})

\* The open cells that name this command more often than codes are filed.
Candidates(t) ==
    {c \in Calls : CountOf(openCells[c].commands, t) > Len(openCells[c].exits[t])}

IsPending(c) == \E h \in Handles : pending[h] = c

\* Mutant: of several cells that name the command, any one is taken.
OnlyOneMutant(cells) == cells # {}

\* A code goes to the one cell that names the command, if there is just one.
OnlyOne(cells) == Cardinality(cells) = 1

FileUnderCell(t, code) ==
    IF OnlyOne(Candidates(t))
    THEN LET c == CHOOSE d \in Candidates(t) : TRUE
         IN  openCells' = [openCells EXCEPT ![c].exits[t] = Append(@, code)]
    ELSE UNCHANGED openCells

\* The codes filed, by the text they are filed for and their place there.
CodesOf(cell) ==
    [x \in UNION {{<<t, i>> : i \in DOMAIN cell.exits[t]} : t \in Texts} |-> cell.exits[x[1]][x[2]]]

RecordedExit(c) ==
    LET cell == openCells[c]
        complete == \A i \in DOMAIN cell.commands :
                        LET t == cell.commands[i]
                        IN  Len(cell.exits[t]) >= CountOf(cell.commands, t)
        codes == IF cell.commands = <<>> THEN callExits[c]
                 ELSE IF complete THEN CodesOf(cell) ELSE <<>>
    IN  IF DOMAIN codes = {} THEN Unknown ELSE Decoded(codes)

\* The output's own code stands; the items fill in what it left unknown.
ExitOf(c, seen) == IF seen = Unknown THEN RecordedExit(c) ELSE seen

Tell(event) ==
    events' = IF \E e \in events : e.id = event.id THEN events ELSE events \cup {event}

\* commandCompleted, for a command that is not running any more.
CommandCompleted(c, step, seen, body) ==
    /\ Tell([id |-> <<c, step, 0>>, call |-> c, exit |-> ExitOf(c, seen), body |-> body])
    /\ openCells' = [openCells EXCEPT ![c] = NoCell]
    /\ callExits' = [callExits EXCEPT ![c] = <<>>]

-----------------------------------------------------------------------------
(* The records                                                             *)

\* function_call of a shell tool.
FunctionCalled(c) ==
    /\ codex[c] = Unmade
    /\ \E t \in Texts :
         codex' = [codex EXCEPT ![c].form = "function", ![c].names = <<t>>]
    /\ calls' = [calls EXCEPT ![c] = "command"]
    /\ UNCHANGED <<build, polls, pending, chunks, openCells, callExits, events>>

\* custom_tool_call of a code cell: an event of its own only in a build that
\* does not write an item of every command.
CellCalled(c) ==
    /\ codex[c] = Unmade
    /\ \E names \in Names :
         /\ codex' = [codex EXCEPT ![c].form = "cell", ![c].names = names]
         /\ openCells' = [openCells EXCEPT ![c].commands = names]
    /\ calls' = [calls EXCEPT ![c] = IF ItemBased THEN "codeCell" ELSE "command"]
    /\ UNCHANGED <<build, polls, pending, chunks, callExits, events>>

\* commandExecution: the item of a function call has the call's id.
ItemOfCall(c, code) ==
    /\ callExits' = IF calls[c] = "command" \/ IsPending(c)
                    THEN [callExits EXCEPT ![c] = Append(@, code)] ELSE callExits
    /\ UNCHANGED <<openCells, events>>

\* An item of a cell has an id of its own; where there is one of every
\* command, it is what is told of the command.
ItemOfCell(c, code) ==
    LET n == Len(codex[c].exits) + 1 IN
    /\ FileUnderCell(codex[c].names[n], code)
    /\ IF ItemBased
       THEN Tell([id |-> <<c, "item", n>>, call |-> c, exit |-> code, body |-> <<>>])
       ELSE UNCHANGED events
    /\ UNCHANGED callExits

\* A process of a call ends, and with it comes its CommandExecution item.
EndProcess(c) ==
    /\ Live(c) /\ ~Finished(c)
    /\ \E code \in Exits :
         /\ codex' = [codex EXCEPT ![c].exits = Append(@, code)]
         /\ IF ~WritesItems THEN UNCHANGED <<openCells, callExits, events>>
            ELSE IF codex[c].form = "function" THEN ItemOfCall(c, code)
            ELSE ItemOfCell(c, code)
    /\ UNCHANGED <<build, polls, calls, pending, chunks>>

\* The next piece of output of a call.
Piece(c) == <<c, codex[c].said + 1>>

\* trackRunning: the handle leads to the call, and so does its first output.
TrackRunning(c, h) ==
    /\ pending' = [pending EXCEPT ![h] = c]
    /\ chunks' = [chunks EXCEPT ![c] = <<Piece(c)>>]

FreeHandles == {h \in Handles : \A c \in Calls : codex[c].handle # h}

\* The output of a call that yields: a provisional result.
Yield(c) ==
    /\ Live(c) /\ ~Yielded(c) /\ calls[c] # "none"
    /\ \E h \in FreeHandles :
         /\ codex' = [codex EXCEPT ![c].handle = h, ![c].said = 1]
         /\ IF calls[c] = "codeCell"
            THEN UNCHANGED <<pending, chunks, events>>
            ELSE /\ TrackRunning(c, h)
                 /\ Tell([id |-> <<c, "result", 0>>, call |-> c, exit |-> Unknown,
                          body |-> <<Piece(c)>>])
    /\ calls' = [calls EXCEPT ![c] = "none"]
    /\ UNCHANGED <<build, polls, openCells, callExits>>

\* The output of a call whose processes ended, or whose script failed.
Output(c) ==
    /\ Live(c) /\ ~Yielded(c)
    /\ \E ending \in Endings(c) :
         /\ Finished(c) \/ ending.exit = "none"
         /\ codex' = [codex EXCEPT ![c].form = "over", ![c].said = 1]
         /\ IF calls[c] = "codeCell"
            THEN /\ openCells' = [openCells EXCEPT ![c] = NoCell]
                 /\ UNCHANGED <<callExits, events>>
            ELSE CommandCompleted(c, "result", Observed(ending), <<Piece(c)>>)
    /\ calls' = [calls EXCEPT ![c] = "none"]
    /\ UNCHANGED <<build, polls, pending, chunks>>

\* A wait or write_stdin, or a cell that only polls.  Such a cell is a poll
\* when the handle is known; else it is a step of its own.
Poll(h) ==
    /\ polls.made < MaxPolls /\ h \notin polls.open
    /\ \E c \in Calls : codex[c].handle = h
    /\ polls' = [open |-> polls.open \cup {h}, made |-> polls.made + 1]
    /\ UNCHANGED <<build, codex, calls, pending, chunks, openCells, callExits, events>>

\* The whole log the command produced, not just the chunk that closed it.
Whole(d, c) == Append(chunks[d], Piece(c))

PollSaysRunning(h) ==
    /\ h \in polls.open
    /\ polls' = [polls EXCEPT !.open = @ \ {h}]
    /\ \E c \in Calls :
         /\ codex[c].handle = h
         /\ codex' = [codex EXCEPT ![c].said = @ + 1]
         /\ chunks' = IF pending[h] = NoCall THEN chunks
                      ELSE [chunks EXCEPT ![pending[h]] = Append(@, Piece(c))]
    /\ UNCHANGED <<build, calls, pending, openCells, callExits, events>>

\* pollResult: the late result of the command that yielded.
PollEnds(h) ==
    /\ h \in polls.open
    /\ polls' = [polls EXCEPT !.open = @ \ {h}]
    /\ \E c \in Calls : \E ending \in Endings(c) :
         /\ codex[c].handle = h
         /\ Finished(c) \/ ending.exit = "none"
         /\ codex' = [codex EXCEPT ![c].form = "over", ![c].handle = NoHandle, ![c].said = @ + 1]
         /\ LET d == pending[h] IN
            IF d = NoCall
            THEN UNCHANGED <<pending, openCells, callExits, events>>
            ELSE /\ pending' = [k \in Handles |-> IF pending[k] = d THEN NoCall ELSE pending[k]]
                 /\ CommandCompleted(d, "final", Observed(ending), Whole(d, c))
    /\ UNCHANGED <<build, calls, chunks>>

RolloutInit ==
    /\ build \in {"none", "some", "all"}
    /\ codex = [c \in Calls |-> Unmade]
    /\ polls = [open |-> {}, made |-> 0]
    /\ calls = [c \in Calls |-> "none"]
    /\ pending = [h \in Handles |-> NoCall]
    /\ chunks = [c \in Calls |-> <<>>]
    /\ openCells = [c \in Calls |-> NoCell]
    /\ callExits = [c \in Calls |-> <<>>]
    /\ events = {}

RolloutNext ==
    \/ \E c \in Calls : FunctionCalled(c) \/ CellCalled(c) \/ EndProcess(c) \/ Yield(c) \/ Output(c)
    \/ \E h \in Handles : Poll(h) \/ PollSaysRunning(h) \/ PollEnds(h)

RolloutSpec == RolloutInit /\ [][RolloutNext]_rolloutVars

-----------------------------------------------------------------------------
\* What a completion says of a command is true of it: an exit code is that of
\* its own process, or of all those of its cell, and never one of another
\* call; a late result has all the output since the call yielded, in order.
CompletionIsItsOwn ==
    \A e \in events :
      LET c == e.call IN
      /\ e.exit # Unknown =>
           \/ e.id[2] = "item" /\ e.exit = codex[c].exits[e.id[3]]
           \/ /\ e.id[2] # "item" /\ Finished(c)
              /\ e.exit = 0 => \A i \in DOMAIN codex[c].exits : codex[c].exits[i] = 0
              /\ e.exit # 0 => codex[c].exits = <<e.exit>>
      /\ e.id[2] = "final" => e.body = [i \in 1 .. codex[c].said |-> <<c, i>>]
=============================================================================
