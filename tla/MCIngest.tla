------------------------------ MODULE MCIngest ------------------------------
(* Instances of Ingest for TLC: one session with one file, with or without *)
(* a hook channel.                                                         *)
EXTENDS Ingest

CONSTANTS s1, f1, h1

OneFile == {f1}
OneHook == {h1}
NoHooks == {}
OneSession == [c \in Channels |-> s1]
EventIds == (Files \X (1 .. MaxRecords)) \cup (Hooks \X (1 .. MaxFired))

\* Calls from outside and repeated reading each get behaviours of their own.
Called == budget.forgets < MaxForgets \/ \E h \in Hooks : hook[h].fired > 0
ReadAgain ==
    \/ budget.rotations < MaxRotations
    \/ \E f \in JobFiles : job[f] # "queued"

ApartSpec == Init /\ [][Next /\ ~(Called' /\ ReadAgain')]_vars
=============================================================================
