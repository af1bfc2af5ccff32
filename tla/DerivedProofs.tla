-------------------------- MODULE DerivedProofs --------------------------
(***************************************************************************)
(* What is derived from the log, and what providers' files put into it.    *)
(* Codex: a command completes with its own exit code and its own output,   *)
(* and nothing of a turn, an agent or a patch is told of another.  Claude  *)
(* Code and OpenCode: what a transcript and the rows of a database say is  *)
(* told once and whole, across restarts and rereads.  The report: one      *)
(* answer, of the review items and of what is computed when it is drawn.   *)
(***************************************************************************)
EXTENDS MCDerived, FiniteSetTheorems, WellFoundedInduction, TLAPS
-----------------------------------------------------------------------------
(* Numbers, and functions made of steps                                    *)

\* Of a set of numbers that is not empty, one is the least.
LEMMA LeastNumber ==
    ASSUME NEW S \in SUBSET Nat, S # {}
    PROVE  \E j \in S : \A k \in S : ~(k < j)
<1> DEFINE R == {ss \in Nat \X Nat : ss[1] < ss[2]}
<1>1. IsWellFoundedOn(R, Nat)
  BY NatLessThanWellFounded DEF OpToRel
<1>2. \E j \in S : \A k \in S : ~(<<k, j>> \in R)
  BY <1>1, WFMin
<1> QED BY <1>2

\* A set that has 0, and with a number the next, has those up to n.
LEMMA UpToN ==
    ASSUME NEW n \in Nat, NEW P, 0 \in P, \A k \in 1 .. n : k - 1 \in P => k \in P
    PROVE  \A k \in 0 .. n : k \in P
<1> DEFINE missing == {k \in 0 .. n : k \notin P}
<1>1. SUFFICES ASSUME missing # {} PROVE FALSE
  OBVIOUS
<1>2. PICK k \in missing : \A j \in missing : ~(j < k)
  <2>1. missing \in SUBSET Nat
    OBVIOUS
  <2> HIDE DEF missing
  <2> QED BY <1>1, <2>1, LeastNumber
<1>3. k \in 1 .. n /\ k - 1 \in 0 .. n /\ k - 1 < k
  OBVIOUS
<1> QED BY <1>2, <1>3

\* A function that begins with b and goes on by step.
Iterates(n, T, b, step) ==
    \E f \in [0 .. n -> T] : f[0] = b /\ \A k \in 1 .. n : f[k] = step[<<f[k - 1], k>>]

\* A step that stays in T makes a function on 0 .. n from a value of T.
LEMMA StepsMakeFunction ==
    ASSUME NEW n \in Nat, NEW T, NEW b \in T, NEW step \in [T \X (1 .. n) -> T]
    PROVE  Iterates(n, T, b, step)
<1> DEFINE Makes(f, m) == f[0] = b /\ \A k \in 1 .. m : f[k] = step[<<f[k - 1], k>>]
           P == {m \in 0 .. n : \E f \in [0 .. n -> T] : Makes(f, m)}
<1>1. 0 \in P
  <2>1. [k \in 0 .. n |-> b] \in [0 .. n -> T] /\ [k \in 0 .. n |-> b][0] = b
    OBVIOUS
  <2>2. \A k \in 1 .. 0 : FALSE
    OBVIOUS
  <2>3. 0 \in 0 .. n
    OBVIOUS
  <2>4. \E f \in [0 .. n -> T] : Makes(f, 0)
    BY <2>1, <2>2
  <2> QED BY <2>3, <2>4
<1>2. ASSUME NEW m \in 1 .. n, m - 1 \in P
      PROVE  m \in P
  <2>1. m - 1 \in 0 .. n /\ m \in 0 .. n /\ m \in Nat /\ m # 0
    OBVIOUS
  <2>2. PICK f \in [0 .. n -> T] : Makes(f, m - 1)
    BY <1>2
  <2> DEFINE g == [f EXCEPT ![m] = step[<<f[m - 1], m>>]]
  <2>3. f[m - 1] \in T
    BY <2>1
  <2>4. step[<<f[m - 1], m>>] \in T
    <3>1. <<f[m - 1], m>> \in T \X (1 .. n)
      BY <2>3
    <3> QED BY <3>1
  <2>5. g \in [0 .. n -> T]
    BY <2>4
  <2>6. g[0] = f[0]
    BY <2>1
  <2>7. ASSUME NEW k \in 1 .. m
        PROVE  g[k] = step[<<g[k - 1], k>>]
    <3>0. k - 1 \in 0 .. n /\ k - 1 # m /\ k \in 0 .. n
      BY <2>1
    <3>1. g[k - 1] = f[k - 1]
      BY <3>0
    <3>2. CASE k = m
      BY <3>0, <3>1, <3>2
    <3>3. CASE k # m
      <4>1. k \in 1 .. m - 1 /\ g[k] = f[k]
        BY <2>1, <3>0, <3>3
      <4> QED BY <2>2, <3>1, <4>1
    <3> QED BY <3>2, <3>3
  <2>8. Makes(g, m)
    <3> HIDE DEF g
    <3> QED BY <2>2, <2>6, <2>7
  <2> HIDE DEF Makes, g
  <2> QED BY <2>1, <2>5, <2>8
<1>3. n \in P
  <2>1. n \in 0 .. n
    OBVIOUS
  <2> HIDE DEF P
  <2> QED BY <1>1, <1>2, <2>1, UpToN
<1>4. PICK f \in [0 .. n -> T] : Makes(f, n)
  BY <1>3
<1> QED BY <1>4 DEF Iterates
-----------------------------------------------------------------------------
(* Codex: exit codes and outputs of commands                               *)

Forms == {"unmade", "function", "cell", "over"}

CodexCalls == [form : Forms, names : Seq(Texts), exits : Seq(Exits),
               handle : Handles \cup {NoHandle}, said : Nat]
CellsOpen == [commands : Seq(Texts), exits : [Texts -> Seq(Exits)]]

\* Of the codes of a cell, those of a text, of the processes filed.
PickedCodes(cx, filed, t) ==
    LET one == 1 \in filed /\ cx.names[1] = t
        two == 2 \in filed /\ cx.names[2] = t
    IN  IF one /\ two THEN <<cx.exits[1], cx.exits[2]>>
        ELSE IF one THEN <<cx.exits[1]>>
        ELSE IF two THEN <<cx.exits[2]>> ELSE <<>>

FiledOwn(cx, cell) ==
    /\ cell.commands = cx.names
    /\ \E filed \in SUBSET (DOMAIN cx.exits) :
         \A t \in Texts : cell.exits[t] = PickedCodes(cx, filed, t)

\* What the parser keeps of a call, against the call as it happened.
CallRight(bld, cx, ca, cell, ce) ==
    /\ cx \in CodexCalls /\ cell \in CellsOpen /\ ce \in Seq(Exits)
    /\ ca \in {"none", "command", "codeCell"}
    /\ cx.form = "unmade" => cx = Unmade /\ cell = NoCell /\ ce = <<>>
    /\ cx.form # "unmade" => cx.names \in Names /\ Len(cx.exits) <= Len(cx.names)
    /\ cx.form = "over" => cx.handle = NoHandle
    /\ cx.form = "function" =>
         Len(cx.names) = 1 /\ cell.commands = <<>> /\ ce \in {<<>>, cx.exits}
    /\ cx.form = "cell" /\ bld # "all" => FiledOwn(cx, cell)
    /\ cx.form \in {"function", "cell"} /\ cx.handle = NoHandle =>
         /\ cx.said = 0
         /\ ca = IF cx.form = "cell" /\ bld = "all" THEN "codeCell" ELSE "command"

\* An exit code that is true of all that a call ran.
ExitTrue(cx, code) ==
    /\ Len(cx.exits) = Len(cx.names)
    /\ code = 0 => \A i \in DOMAIN cx.exits : cx.exits[i] = 0
    /\ code # 0 => cx.exits = <<code>>

Pieces(c, n) == [i \in 1 .. n |-> <<c, i>>]

EventOwn(e) ==
    LET c == e.call
        cx == codex[c]
    IN  /\ c \in Calls /\ cx.form # "unmade"
        /\ e.exit # Unknown => \/ /\ e.id[2] = "item" /\ e.id[3] \in DOMAIN cx.exits
                                  /\ e.exit = cx.exits[e.id[3]]
                               \/ e.id[2] # "item" /\ ExitTrue(cx, e.exit)
        /\ e.id[2] = "final" => cx.form = "over" /\ e.body = Pieces(c, cx.said)

\* A handle is of one call, and leads to it and to all it said.
HandlesRight ==
    /\ \A c, d \in Calls : codex[c].handle = codex[d].handle /\ codex[c].handle # NoHandle => c = d
    /\ \A h \in Handles : pending[h] # NoCall =>
         /\ pending[h] \in Calls
         /\ codex[pending[h]].handle = h
         /\ codex[pending[h]].form = "cell" => build # "all"
         /\ chunks[pending[h]] = Pieces(pending[h], codex[pending[h]].said)

RolloutTypeOK ==
    /\ build \in {"none", "some", "all"}
    /\ codex \in [Calls -> CodexCalls]
    /\ calls \in [Calls -> {"none", "command", "codeCell"}]
    /\ pending \in [Handles -> Calls \cup {NoCall}]
    /\ chunks \in [Calls -> Seq(Calls \X Nat)]
    /\ openCells \in [Calls -> CellsOpen]
    /\ callExits \in [Calls -> Seq(Exits)]

RolloutInv ==
    /\ RolloutTypeOK
    /\ \A c \in Calls : CallRight(build, codex[c], calls[c], openCells[c], callExits[c])
    /\ HandlesRight
    /\ \A e \in events : EventOwn(e)

-----------------------------------------------------------------------------
(* Codes and counts                                                        *)

LEMMA TwoElements ==
    ASSUME NEW a, NEW b, a # b
    PROVE  Cardinality({a, b}) = 2
<1>1. IsFiniteSet({a}) /\ Cardinality({a}) = 1
  BY FS_Singleton
<1>2. {a, b} = {a} \cup {b} /\ b \notin {a}
  OBVIOUS
<1>3. Cardinality({a} \cup {b}) = Cardinality({a}) + 1
  BY <1>1, <1>2, FS_AddElement
<1> QED BY <1>1, <1>2, <1>3

LEMMA NamesAre ==
    ASSUME NEW s \in Names
    PROVE  /\ s \in Seq(Texts)
           /\ \/ Len(s) = 1 /\ DOMAIN s = {1} /\ s[1] \in Texts
              \/ Len(s) = 2 /\ DOMAIN s = {1, 2} /\ s[1] \in Texts /\ s[2] \in Texts
<1>1. CASE \E t \in Texts : s = <<t>>
  BY <1>1
<1>2. CASE \E t, u \in Texts : s = <<t, u>>
  BY <1>2
<1> QED BY <1>1, <1>2 DEF Names

LEMMA AppendToOne ==
    ASSUME NEW a, NEW b
    PROVE  Append(<<a>>, b) = <<a, b>>
<1>1. <<a>> \in Seq({a, b}) /\ <<a, b>> \in Seq({a, b})
  OBVIOUS
<1>2. /\ Append(<<a>>, b) \in Seq({a, b}) /\ Len(Append(<<a>>, b)) = 2
      /\ Append(<<a>>, b)[1] = a /\ Append(<<a>>, b)[2] = b
  BY <1>1
<1>3. Len(<<a, b>>) = 2 /\ <<a, b>>[1] = a /\ <<a, b>>[2] = b
  OBVIOUS
<1>4. \A s \in Seq({a, b}) : Len(s) = 2 => s = <<s[1], s[2]>>
  OBVIOUS
<1> QED BY <1>2, <1>4

LEMMA ShortSequences ==
    ASSUME NEW T, NEW x \in Seq(T)
    PROVE  /\ Len(x) \in Nat /\ DOMAIN x = 1 .. Len(x)
           /\ 1 \in DOMAIN x /\ Len(x) <= 1 => Len(x) = 1
           /\ 2 \in DOMAIN x /\ Len(x) <= 2 => Len(x) = 2
           /\ Len(x) = 1 => DOMAIN x = {1} /\ x = <<x[1]>>
           /\ Len(x) = 2 => DOMAIN x = {1, 2}
<1>1. Len(x) \in Nat /\ DOMAIN x = 1 .. Len(x)
  OBVIOUS
<1>2. 1 \in DOMAIN x => Len(x) >= 1
  BY <1>1
<1>3. 2 \in DOMAIN x => Len(x) >= 2
  BY <1>1
<1>4. Len(x) = 1 => DOMAIN x = {1} /\ x = <<x[1]>>
  OBVIOUS
<1>5. Len(x) = 2 => DOMAIN x = {1, 2}
  BY <1>1
<1>6. 1 \in DOMAIN x /\ Len(x) <= 1 => Len(x) = 1
  BY <1>1, <1>2
<1>7. 2 \in DOMAIN x /\ Len(x) <= 2 => Len(x) = 2
  BY <1>1, <1>3
<1> QED BY <1>1, <1>4, <1>5, <1>6, <1>7

LEMMA CountsAre ==
    ASSUME NEW s, NEW t
    PROVE  /\ s = <<>> => CountOf(s, t) = 0
           /\ DOMAIN s = {1} => CountOf(s, t) = IF s[1] = t THEN 1 ELSE 0
           /\ DOMAIN s = {1, 2} =>
                CountOf(s, t) = IF s[1] = t THEN (IF s[2] = t THEN 2 ELSE 1)
                                ELSE (IF s[2] = t THEN 1 ELSE 0)
<1> DEFINE S == {i \in DOMAIN s : s[i] = t}
<1>1. /\ Cardinality({}) = 0 /\ Cardinality({1}) = 1 /\ Cardinality({2}) = 1
      /\ Cardinality({1, 2}) = 2
  <2>1. Cardinality({}) = 0
    BY FS_EmptySet
  <2>2. \A k : Cardinality({k}) = 1
    BY FS_Singleton
  <2>3. Cardinality({1, 2}) = 2
    BY TwoElements
  <2> QED BY <2>1, <2>2, <2>3
<1>2. s = <<>> => S = {}
  OBVIOUS
<1>3. DOMAIN s = {1} => S = IF s[1] = t THEN {1} ELSE {}
  OBVIOUS
<1>4. DOMAIN s = {1, 2} => S = IF s[1] = t THEN (IF s[2] = t THEN {1, 2} ELSE {1})
                               ELSE (IF s[2] = t THEN {2} ELSE {})
  OBVIOUS
<1> HIDE DEF S
<1> QED BY <1>1, <1>2, <1>3, <1>4 DEF CountOf, S

LEMMA DecodedOne ==
    ASSUME NEW f, NEW a, DOMAIN f = {a}
    PROVE  Decoded(f) = f[a]
<1>1. Cardinality(DOMAIN f) = 1
  BY FS_Singleton
<1>2. (CHOOSE i \in DOMAIN f : TRUE) = a
  OBVIOUS
<1> QED BY <1>1, <1>2 DEF Decoded

LEMMA DecodedTwo ==
    ASSUME NEW f, NEW a, NEW b, a # b, DOMAIN f = {a, b}, Decoded(f) # Unknown
    PROVE  f[a] = 0 /\ f[b] = 0 /\ Decoded(f) = 0
<1>1. Cardinality(DOMAIN f) = 2
  BY TwoElements
<1>2. \A i \in DOMAIN f : f[i] = 0
  BY <1>1 DEF Decoded
<1>3. (CHOOSE i \in DOMAIN f : TRUE) \in DOMAIN f
  OBVIOUS
<1> QED BY <1>1, <1>2, <1>3 DEF Decoded

\* What the output of a call says of its exit is true of it.
LEMMA ObservedTrue ==
    ASSUME PrintsAll, NEW c \in Calls, codex[c] \in CodexCalls, codex[c].names \in Names,
           NEW ending \in Endings(c), Finished(c) \/ ending.exit = "none",
           Observed(ending) # Unknown
    PROVE  ExitTrue(codex[c], Observed(ending))
<1> DEFINE x == codex[c].exits
<1>1. ending.codes = x /\ Finished(c)
  BY DEF Endings, Printed, Observed
<1>2. x \in Seq(Exits) /\ Len(x) = Len(codex[c].names)
  BY <1>1 DEF CodexCalls, Finished
<1>3. Observed(ending) = Decoded(x)
  BY <1>1 DEF Observed
<1> HIDE DEF x
<1>4. CASE Len(x) = 1
  <2>1. DOMAIN x = {1} /\ x = <<x[1]>>
    BY <1>2, <1>4
  <2>2. Decoded(x) = x[1]
    BY <2>1, DecodedOne
  <2> QED BY <1>2, <1>3, <2>1, <2>2 DEF ExitTrue, x
<1>5. CASE Len(x) = 2
  <2>1. DOMAIN x = {1, 2}
    BY <1>2, <1>5
  <2>2. x[1] = 0 /\ x[2] = 0 /\ Decoded(x) = 0
    BY <1>3, <2>1, DecodedTwo
  <2> QED BY <1>2, <1>3, <2>1, <2>2 DEF ExitTrue, x
<1> QED BY <1>2, <1>4, <1>5, NamesAre

\* What was filed for a call is true of it.
LEMMA RecordedTrue ==
    ASSUME NEW c \in Calls, Live(c),
           CallRight(build, codex[c], calls[c], openCells[c], callExits[c]),
           codex[c].form = "cell" => build # "all",
           RecordedExit(c) # Unknown
    PROVE  ExitTrue(codex[c], RecordedExit(c))
<1> DEFINE cx == codex[c]
           cell == openCells[c]
           x == cx.exits
           s == cx.names
<1>1. /\ x \in Seq(Exits) /\ s \in Names /\ Len(x) <= Len(s) /\ cell \in CellsOpen
      /\ callExits[c] \in Seq(Exits)
  BY DEF CallRight, CodexCalls, Live
<1>2. CASE cx.form = "function"
  <2>1. cell.commands = <<>> /\ callExits[c] \in {<<>>, x} /\ Len(s) = 1
    BY <1>2 DEF CallRight
  <2>2. RecordedExit(c) = IF DOMAIN callExits[c] = {} THEN Unknown ELSE Decoded(callExits[c])
    BY <2>1 DEF RecordedExit
  <2>3. callExits[c] = x /\ DOMAIN x # {}
    BY <2>1, <2>2
  <2>4. Len(x) = 1 /\ DOMAIN x = {1} /\ x = <<x[1]>>
    <3>1. Len(x) = 1
      <4>1. Len(x) <= 1
        BY <1>1, <2>1
      <4>2. x \in Seq(Exits) /\ DOMAIN x # {}
        BY <1>1, <2>3
      <4> HIDE DEF x, s
      <4> QED BY <4>1, <4>2
    <3> QED BY <1>1, <3>1, ShortSequences
  <2>5. RecordedExit(c) = x[1]
    BY <2>2, <2>3, <2>4, DecodedOne
  <2> QED BY <2>1, <2>4, <2>5 DEF ExitTrue
<1>3. CASE cx.form = "cell"
  <2>1. FiledOwn(cx, cell)
    BY <1>3 DEF CallRight
  <2>2. PICK filed \in SUBSET (DOMAIN x) : \A t \in Texts : cell.exits[t] = PickedCodes(cx, filed, t)
    BY <2>1 DEF FiledOwn
  <2>3. cell.commands = s /\ s # <<>>
    BY <1>1, <2>1, NamesAre DEF FiledOwn
  <2> DEFINE complete == \A i \in DOMAIN s : Len(cell.exits[s[i]]) >= CountOf(s, s[i])
             f == CodesOf(cell)
  <2>4. RecordedExit(c) = IF complete /\ DOMAIN f # {} THEN Decoded(f) ELSE Unknown
    <3>1. RecordedExit(c) =
            LET codes == IF complete THEN f ELSE <<>>
            IN  IF DOMAIN codes = {} THEN Unknown ELSE Decoded(codes)
      BY <2>3 DEF RecordedExit
    <3>2. DOMAIN <<>> = {}
      OBVIOUS
    <3> HIDE DEF complete, f
    <3> QED BY <3>1, <3>2
  <2>5. complete /\ Decoded(f) # Unknown /\ RecordedExit(c) = Decoded(f)
    <3> HIDE DEF complete, f
    <3> QED BY <2>4
  <2>6. DOMAIN f = UNION {{<<t, i>> : i \in DOMAIN cell.exits[t]} : t \in Texts}
    BY DEF CodesOf
  <2>7. \A t \in Texts : \A i \in DOMAIN cell.exits[t] : <<t, i>> \in DOMAIN f /\ f[<<t, i>>] = cell.exits[t][i]
    BY DEF CodesOf
  <2>8. \A p \in DOMAIN f : \E t \in Texts : \E i \in DOMAIN cell.exits[t] : p = <<t, i>>
    BY <2>6
  <2> HIDE DEF f
  <2>9. CASE Len(s) = 1
    <3>1. DOMAIN s = {1} /\ s[1] \in Texts
      BY <1>1, <2>9, NamesAre
    <3>2. CountOf(s, s[1]) = 1
      BY <3>1, CountsAre
    <3>3. Len(cell.exits[s[1]]) >= 1 /\ cell.exits[s[1]] = PickedCodes(cx, filed, s[1])
      BY <2>2, <2>5, <3>1, <3>2
    <3>4. 2 \notin filed
      BY <1>1, <2>2, <2>9
    <3>5. 1 \in filed /\ cell.exits[s[1]] = <<x[1]>>
      BY <3>3, <3>4 DEF PickedCodes
    <3>6. \A t \in Texts : t # s[1] => cell.exits[t] = <<>>
      BY <2>2, <3>4 DEF PickedCodes
    <3>7. DOMAIN f = {<<s[1], 1>>}
      <4>1. <<s[1], 1>> \in DOMAIN f
        BY <2>7, <3>1, <3>5
      <4>2. ASSUME NEW p \in DOMAIN f
            PROVE  p = <<s[1], 1>>
        <5>1. PICK t \in Texts : \E i \in DOMAIN cell.exits[t] : p = <<t, i>>
          BY <2>8
        <5>2. DOMAIN <<>> = {} /\ DOMAIN <<x[1]>> = {1}
          OBVIOUS
        <5> HIDE DEF x, s, cell
        <5>3. t = s[1]
          BY <3>6, <5>1, <5>2
        <5> QED BY <3>5, <5>1, <5>2, <5>3
      <4> QED BY <4>1, <4>2
    <3>8. Decoded(f) = x[1]
      <4>1. <<s[1], 1>> \in DOMAIN f /\ f[<<s[1], 1>>] = cell.exits[s[1]][1]
        BY <2>7, <3>1, <3>5
      <4> QED BY <3>5, <3>7, <4>1, DecodedOne
    <3>9. Len(x) = 1 /\ x = <<x[1]>> /\ DOMAIN x = {1}
      <4>1. 1 \in DOMAIN x
        BY <2>2, <3>5
      <4>2. Len(x) = 1
        <5>1. Len(x) <= 1
          BY <1>1, <2>9
        <5>2. x \in Seq(Exits)
          BY <1>1
        <5> QED BY <4>1, <5>1, <5>2, ShortSequences
      <4> QED BY <1>1, <4>2, ShortSequences
    <3> QED BY <2>5, <2>9, <3>8, <3>9 DEF ExitTrue
  <2>10. CASE Len(s) = 2
    <3>1. DOMAIN s = {1, 2} /\ s[1] \in Texts /\ s[2] \in Texts
      BY <1>1, <2>10, NamesAre
    <3>2. /\ cell.exits[s[1]] = PickedCodes(cx, filed, s[1]) /\ cell.exits[s[2]] = PickedCodes(cx, filed, s[2])
          /\ Len(cell.exits[s[1]]) >= CountOf(s, s[1]) /\ Len(cell.exits[s[2]]) >= CountOf(s, s[2])
      BY <2>2, <2>5, <3>1
    <3>3. CASE s[1] = s[2]
      <4>1. CountOf(s, s[1]) = 2
        BY <3>1, <3>3, CountsAre
      <4>2. 1 \in filed /\ 2 \in filed /\ cell.exits[s[1]] = <<x[1], x[2]>>
        BY <3>2, <3>3, <4>1 DEF PickedCodes
      <4>3. \A t \in Texts : t # s[1] => cell.exits[t] = <<>>
        BY <2>2, <3>3 DEF PickedCodes
      <4>4. DOMAIN f = {<<s[1], 1>>, <<s[1], 2>>}
        <5>1. <<s[1], 1>> \in DOMAIN f /\ <<s[1], 2>> \in DOMAIN f
          BY <2>7, <3>1, <4>2
        <5>2. ASSUME NEW p \in DOMAIN f
              PROVE  p \in {<<s[1], 1>>, <<s[1], 2>>}
          <6>1. PICK t \in Texts : \E i \in DOMAIN cell.exits[t] : p = <<t, i>>
            BY <2>8
          <6>2. DOMAIN <<>> = {} /\ DOMAIN <<x[1], x[2]>> = {1, 2}
            OBVIOUS
          <6> HIDE DEF x, s, cell
          <6>3. t = s[1]
            BY <4>3, <6>1, <6>2
          <6> QED BY <4>2, <6>1, <6>2, <6>3
        <5> QED BY <5>1, <5>2
      <4>5. f[<<s[1], 1>>] = x[1] /\ f[<<s[1], 2>>] = x[2] /\ <<s[1], 1>> # <<s[1], 2>>
        BY <2>7, <3>1, <4>2
      <4>6. x[1] = 0 /\ x[2] = 0 /\ Decoded(f) = 0
        BY <2>5, <4>4, <4>5, DecodedTwo
      <4>7. Len(x) = 2 /\ DOMAIN x = {1, 2}
        <5>1. 2 \in DOMAIN x
          BY <2>2, <4>2
        <5>2. Len(x) = 2
          <6>1. Len(x) <= 2
            BY <1>1, <2>10
          <6>2. x \in Seq(Exits)
            BY <1>1
          <6> QED BY <5>1, <6>1, <6>2, ShortSequences
        <5> QED BY <1>1, <5>2, ShortSequences
      <4> QED BY <2>5, <2>10, <4>6, <4>7 DEF ExitTrue
    <3>4. CASE s[1] # s[2]
      <4>1. CountOf(s, s[1]) = 1 /\ CountOf(s, s[2]) = 1
        BY <3>1, <3>4, CountsAre
      <4>2. 1 \in filed /\ cell.exits[s[1]] = <<x[1]>>
        BY <3>2, <3>4, <4>1 DEF PickedCodes
      <4>3. 2 \in filed /\ cell.exits[s[2]] = <<x[2]>>
        BY <3>2, <3>4, <4>1 DEF PickedCodes
      <4>4. \A t \in Texts : t # s[1] /\ t # s[2] => cell.exits[t] = <<>>
        BY <2>2 DEF PickedCodes
      <4>5. DOMAIN f = {<<s[1], 1>>, <<s[2], 1>>}
        <5>1. <<s[1], 1>> \in DOMAIN f /\ <<s[2], 1>> \in DOMAIN f
          BY <2>7, <3>1, <4>2, <4>3
        <5>2. ASSUME NEW p \in DOMAIN f
              PROVE  p \in {<<s[1], 1>>, <<s[2], 1>>}
          <6>1. PICK t \in Texts : \E i \in DOMAIN cell.exits[t] : p = <<t, i>>
            BY <2>8
          <6>2. DOMAIN <<>> = {} /\ DOMAIN <<x[1]>> = {1} /\ DOMAIN <<x[2]>> = {1}
            OBVIOUS
          <6> HIDE DEF x, s, cell
          <6>3. t = s[1] \/ t = s[2]
            BY <4>4, <6>1, <6>2
          <6> QED BY <4>2, <4>3, <6>1, <6>2, <6>3
        <5> QED BY <5>1, <5>2
      <4>6. f[<<s[1], 1>>] = x[1] /\ f[<<s[2], 1>>] = x[2] /\ <<s[1], 1>> # <<s[2], 1>>
        BY <2>7, <3>1, <3>4, <4>2, <4>3
      <4>7. x[1] = 0 /\ x[2] = 0 /\ Decoded(f) = 0
        BY <2>5, <4>5, <4>6, DecodedTwo
      <4>8. Len(x) = 2 /\ DOMAIN x = {1, 2}
        <5>1. 2 \in DOMAIN x
          BY <2>2, <4>2, <4>3
        <5>2. Len(x) = 2
          <6>1. Len(x) <= 2
            BY <1>1, <2>10
          <6>2. x \in Seq(Exits)
            BY <1>1
          <6> QED BY <5>1, <6>1, <6>2, ShortSequences
        <5> QED BY <1>1, <5>2, ShortSequences
      <4> QED BY <2>5, <2>10, <4>7, <4>8 DEF ExitTrue
    <3> QED BY <3>3, <3>4
  <2> QED BY <1>1, <2>9, <2>10, NamesAre
<1> QED BY <1>2, <1>3 DEF Live

-----------------------------------------------------------------------------
\* A cell whose process ends can be given the code, and is right with it and
\* without it.
LEMMA CellFiles ==
    ASSUME NEW cx \in CodexCalls, cx.names \in Names, Len(cx.exits) < Len(cx.names),
           NEW cell \in CellsOpen, FiledOwn(cx, cell), NEW code \in Exits,
           NEW n, n = Len(cx.exits) + 1, NEW t, t = cx.names[n],
           NEW cy, cy.names = cx.names, cy.exits = Append(cx.exits, code)
    PROVE  /\ t \in Texts
           /\ CountOf(cell.commands, t) > Len(cell.exits[t])
           /\ FiledOwn(cy, cell)
           /\ FiledOwn(cy, [cell EXCEPT !.exits[t] = Append(@, code)])
<1> DEFINE x == cx.exits
           y == cy.exits
           s == cx.names
<1>1. /\ x \in Seq(Exits) /\ y \in Seq(Exits) /\ Len(y) = n /\ y[n] = code
      /\ DOMAIN y = 1 .. n /\ DOMAIN x = 1 .. n - 1
      /\ \A i \in DOMAIN x : y[i] = x[i]
  BY DEF CodexCalls
<1>2. (n = 1 \/ n = 2) /\ n \in DOMAIN s /\ s[n] \in Texts
  <2>1. Len(s) = 1 \/ Len(s) = 2
    BY NamesAre
  <2>2. n <= Len(s) /\ n >= 1 /\ n \in Nat
    BY <1>1
  <2> QED BY <2>1, <2>2, NamesAre
<1>3. cell.commands = s
  BY DEF FiledOwn
<1>4. PICK filed \in SUBSET (DOMAIN x) : \A u \in Texts : cell.exits[u] = PickedCodes(cx, filed, u)
  BY DEF FiledOwn
<1>5. \A u : PickedCodes(cy, filed, u) = PickedCodes(cx, filed, u)
  BY <1>1, <1>4 DEF PickedCodes
<1>6. FiledOwn(cy, cell)
  <2>1. filed \in SUBSET (DOMAIN y)
    BY <1>1, <1>2, <1>4
  <2> QED BY <1>3, <1>4, <1>5, <2>1 DEF FiledOwn
<1>7. n = 1 => filed = {}
  BY <1>1, <1>4
<1>8. n = 2 => 2 \notin filed
  BY <1>1, <1>4
<1>9. cell.exits[t] = PickedCodes(cx, filed, t)
  BY <1>2, <1>4
<1>10. CountOf(cell.commands, t) > Len(cell.exits[t])
  <2>1. CASE n = 1
    <3>1. Len(cell.exits[t]) = 0
      BY <1>7, <1>9, <2>1 DEF PickedCodes
    <3>2. CountOf(s, t) \in {1, 2}
      BY <1>2, <2>1, NamesAre, CountsAre
    <3> QED BY <1>3, <3>1, <3>2
  <2>2. CASE n = 2
    <3>1. DOMAIN s = {1, 2} /\ s[2] = t
      BY <1>2, <2>2, NamesAre
    <3>2. CASE s[1] = t
      <4>1. CountOf(s, t) = 2
        BY <3>1, <3>2, CountsAre
      <4>2. Len(cell.exits[t]) \in {0, 1}
        BY <1>8, <1>9, <2>2 DEF PickedCodes
      <4>3. CountOf(cell.commands, t) = 2
        BY <1>3, <4>1
      <4>4. \A k \in {0, 1} : 2 > k
        OBVIOUS
      <4> QED BY <4>2, <4>3, <4>4
    <3>3. CASE s[1] # t
      <4>1. CountOf(s, t) = 1
        BY <3>1, <3>3, CountsAre
      <4>2. Len(cell.exits[t]) = 0
        BY <1>8, <1>9, <2>2, <3>3 DEF PickedCodes
      <4> QED BY <1>3, <4>1, <4>2
    <3> QED BY <3>2, <3>3
  <2> QED BY <1>2, <2>1, <2>2
<1> DEFINE more == filed \cup {n}
           after == [cell EXCEPT !.exits[t] = Append(@, code)]
<1>11. /\ after.commands = s /\ after.exits[t] = Append(cell.exits[t], code)
       /\ \A u \in Texts \ {t} : after.exits[u] = cell.exits[u]
  BY <1>2, <1>3 DEF CellsOpen
<1>12. more \in SUBSET (DOMAIN y)
  BY <1>1, <1>2, <1>4
<1>13. \A u : u # t => PickedCodes(cy, more, u) = PickedCodes(cx, filed, u)
  BY <1>1, <1>2, <1>4, <1>7, <1>8 DEF PickedCodes
<1>14. PickedCodes(cy, more, t) = Append(PickedCodes(cx, filed, t), code)
  <2>1. CASE n = 1
    <3>1. PickedCodes(cx, filed, t) = <<>>
      BY <1>7, <2>1 DEF PickedCodes
    <3>2. PickedCodes(cy, more, t) = <<code>>
      BY <1>1, <1>7, <2>1 DEF PickedCodes
    <3> QED BY <3>1, <3>2
  <2>2. CASE n = 2 /\ 1 \in filed /\ s[1] = t
    <3>1. PickedCodes(cx, filed, t) = <<x[1]>>
      BY <1>8, <2>2 DEF PickedCodes
    <3>2. PickedCodes(cy, more, t) = <<x[1], code>>
      BY <1>1, <1>4, <2>2 DEF PickedCodes
    <3> QED BY <3>1, <3>2, AppendToOne
  <2>3. CASE n = 2 /\ ~(1 \in filed /\ s[1] = t)
    <3>1. PickedCodes(cx, filed, t) = <<>>
      BY <1>8, <2>3 DEF PickedCodes
    <3>2. PickedCodes(cy, more, t) = <<code>>
      BY <1>1, <2>3 DEF PickedCodes
    <3> QED BY <3>1, <3>2
  <2> QED BY <1>2, <2>1, <2>2, <2>3
<1>15. \A u \in Texts : after.exits[u] = PickedCodes(cy, more, u)
  <2> HIDE DEF after, more
  <2> QED BY <1>4, <1>9, <1>11, <1>13, <1>14
<1>16. FiledOwn(cy, after)
  <2> HIDE DEF after, more
  <2> QED BY <1>11, <1>12, <1>15 DEF FiledOwn
<1> QED BY <1>2, <1>6, <1>10, <1>16

-----------------------------------------------------------------------------
(* Steps                                                                   *)

\* How a call goes on: what ran is kept, and what is over stays so.
CallGoesOn(cx, cy) ==
    cx.form # "unmade" =>
      /\ cy.form # "unmade" /\ cy.names = cx.names
      /\ cx.form = "over" => cy = cx
      /\ \/ cy.exits = cx.exits
         \/ Len(cx.exits) # Len(cx.names) /\ \E code : cy.exits = Append(cx.exits, code)

LEMMA EventsStay ==
    ASSUME RolloutInv, \A c \in Calls : CallGoesOn(codex[c], codex'[c]), NEW e, EventOwn(e)
    PROVE  EventOwn(e)'
<1> DEFINE c == e.call
           cx == codex[c]
           cy == codex'[c]
<1>1. /\ c \in Calls /\ cx.form # "unmade" /\ CallGoesOn(cx, cy)
      /\ e.exit # Unknown => \/ /\ e.id[2] = "item" /\ e.id[3] \in DOMAIN cx.exits
                                /\ e.exit = cx.exits[e.id[3]]
                             \/ e.id[2] # "item" /\ ExitTrue(cx, e.exit)
      /\ e.id[2] = "final" => cx.form = "over" /\ e.body = Pieces(c, cx.said)
  BY DEF EventOwn
<1>2. cx.exits \in Seq(Exits)
  BY <1>1 DEF RolloutInv, RolloutTypeOK, CodexCalls
<1> HIDE DEF c, cx, cy
<1>3. ASSUME NEW i \in DOMAIN cx.exits
      PROVE  i \in DOMAIN cy.exits /\ cy.exits[i] = cx.exits[i]
  <2>1. CASE cy.exits = cx.exits
    BY <2>1
  <2>2. CASE \E code : cy.exits = Append(cx.exits, code)
    <3>1. PICK code : cy.exits = Append(cx.exits, code)
      BY <2>2
    <3> QED BY <1>2, <3>1
  <2> QED BY <1>1, <2>1, <2>2 DEF CallGoesOn
<1>4. ASSUME ExitTrue(cx, e.exit)
      PROVE  ExitTrue(cy, e.exit)
  <2>1. cy.exits = cx.exits /\ cy.names = cx.names
    BY <1>1, <1>4 DEF CallGoesOn, ExitTrue
  <2> QED BY <1>4, <2>1 DEF ExitTrue
<1>5. cx.form = "over" => cy = cx
  BY <1>1 DEF CallGoesOn
<1>6. cy.form # "unmade"
  BY <1>1 DEF CallGoesOn
<1> QED BY <1>1, <1>3, <1>4, <1>5, <1>6 DEF EventOwn, c, cx, cy

LEMMA StepOfCall ==
    ASSUME RolloutInv, NEW c \in Calls, NEW cy \in CodexCalls, codex' = [codex EXCEPT ![c] = cy],
           build' = build, CallGoesOn(codex[c], cy), RolloutTypeOK',
           CallRight(build, cy, calls'[c], openCells'[c], callExits'[c]),
           \A d \in Calls \ {c} : CallRight(build, codex[d], calls'[d], openCells'[d], callExits'[d]),
           HandlesRight',
           \A e \in events' : e \in events \/ EventOwn(e)'
    PROVE  RolloutInv'
<1>1. codex'[c] = cy /\ \A d \in Calls \ {c} : codex'[d] = codex[d]
  BY DEF RolloutInv, RolloutTypeOK
<1>2. \A d \in Calls : CallRight(build', codex'[d], calls'[d], openCells'[d], callExits'[d])
  BY <1>1
<1>3. \A d \in Calls : CallGoesOn(codex[d], codex'[d])
  BY <1>1 DEF CallGoesOn
<1>4. \A e \in events' : EventOwn(e)'
  BY <1>3, EventsStay DEF RolloutInv
<1> QED BY <1>2, <1>4 DEF RolloutInv

\* A step that gives and takes no handle.
LEMMA HandlesStay ==
    ASSUME RolloutInv, NEW c \in Calls, NEW cy, codex' = [codex EXCEPT ![c] = cy],
           cy.handle = codex[c].handle, cy.said = codex[c].said \/ cy.handle = NoHandle,
           cy.form = "cell" => codex[c].form = "cell" \/ cy.handle = NoHandle,
           UNCHANGED <<build, pending, chunks>>
    PROVE  HandlesRight'
<1>1. codex'[c] = cy /\ \A d \in Calls \ {c} : codex'[d] = codex[d]
  BY DEF RolloutInv, RolloutTypeOK
<1>2. \A d \in Calls : codex'[d].handle = codex[d].handle
  BY <1>1
<1>3. ASSUME NEW h \in Handles, pending[h] # NoCall
      PROVE  /\ pending[h] \in Calls
             /\ codex'[pending[h]].handle = h
             /\ codex'[pending[h]].form = "cell" => build # "all"
             /\ chunks[pending[h]] = Pieces(pending[h], codex'[pending[h]].said)
  <2>1. /\ pending[h] \in Calls
        /\ codex[pending[h]].handle = h
        /\ codex[pending[h]].form = "cell" => build # "all"
        /\ chunks[pending[h]] = Pieces(pending[h], codex[pending[h]].said)
    BY <1>3 DEF RolloutInv, HandlesRight
  <2>2. h # NoHandle
    BY NamesAssumption
  <2> QED BY <1>1, <2>1, <2>2
<1> QED BY <1>2, <1>3 DEF RolloutInv, HandlesRight

LEMMA UnmadeIs ==
    /\ Unmade \in CodexCalls /\ Unmade.form = "unmade" /\ Unmade.handle = NoHandle
    /\ Unmade.exits = <<>> /\ Unmade.said = 0
    /\ NoCell \in CellsOpen /\ NoCell.commands = <<>> /\ NoCell.exits = [t \in Texts |-> <<>>]
BY DEF Unmade, NoCell, CodexCalls, CellsOpen, Forms

LEMMA NamesNotEmpty ==
    ASSUME NEW s \in Names
    PROVE  s \in Seq(Texts) /\ s # <<>> /\ Len(s) >= 1
BY NamesAre

LEMMA FunctionCalledInv ==
    ASSUME RolloutInv, NEW c \in Calls, FunctionCalled(c)
    PROVE  RolloutInv'
<1>1. PICK t \in Texts :
         /\ codex[c] = Unmade
         /\ codex' = [codex EXCEPT ![c].form = "function", ![c].names = <<t>>]
         /\ calls' = [calls EXCEPT ![c] = "command"]
         /\ UNCHANGED <<build, polls, pending, chunks, openCells, callExits, events>>
  BY DEF FunctionCalled
<1> DEFINE cy == [Unmade EXCEPT !.form = "function", !.names = <<t>>]
<1>2. codex' = [codex EXCEPT ![c] = cy]
  BY <1>1 DEF RolloutInv, RolloutTypeOK
<1>3. /\ cy \in CodexCalls /\ cy.form = "function" /\ cy.names = <<t>> /\ cy.exits = <<>>
      /\ cy.handle = NoHandle /\ cy.said = 0
  <2> DEFINE names == <<t>>
  <2>1. names \in Seq(Texts)
    OBVIOUS
  <2>2. cy = [Unmade EXCEPT !.form = "function", !.names = names]
    OBVIOUS
  <2> HIDE DEF names, cy
  <2>3. /\ cy \in CodexCalls /\ cy.form = "function" /\ cy.names = names /\ cy.exits = <<>>
        /\ cy.handle = NoHandle /\ cy.said = 0
    BY <2>1, <2>2, UnmadeIs DEF CodexCalls, Forms
  <2> QED BY <2>3 DEF names
<1>4. <<t>> \in Names /\ Len(<<t>>) = 1
  BY DEF Names
<1> HIDE DEF cy
<1>5. RolloutTypeOK'
  BY <1>1, <1>2, <1>3 DEF RolloutInv, RolloutTypeOK
<1>6. CallRight(build, codex[c], calls[c], openCells[c], callExits[c])
  BY DEF RolloutInv
<1>7. openCells[c] = NoCell /\ callExits[c] = <<>>
  BY <1>1, <1>6, UnmadeIs DEF CallRight
<1>8. CallRight(build, cy, calls'[c], openCells'[c], callExits'[c])
  <2>1. calls'[c] = "command" /\ openCells'[c] = NoCell /\ callExits'[c] = <<>>
    BY <1>1, <1>7 DEF RolloutInv, RolloutTypeOK
  <2> QED BY <1>3, <1>4, <2>1, UnmadeIs DEF CallRight
<1>9. \A d \in Calls \ {c} : CallRight(build, codex[d], calls'[d], openCells'[d], callExits'[d])
  BY <1>1 DEF RolloutInv, RolloutTypeOK
<1>10. HandlesRight'
  <2>1. /\ cy.handle = codex[c].handle /\ cy.handle = NoHandle
        /\ UNCHANGED <<build, pending, chunks>>
    BY <1>1, <1>3, UnmadeIs
  <2> QED BY <1>2, <2>1, HandlesStay
<1>11. CallGoesOn(codex[c], cy)
  BY <1>1, UnmadeIs DEF CallGoesOn
<1> QED BY <1>1, <1>2, <1>3, <1>5, <1>8, <1>9, <1>10, <1>11, StepOfCall

LEMMA CellCalledInv ==
    ASSUME RolloutInv, NEW c \in Calls, CellCalled(c)
    PROVE  RolloutInv'
<1>1. PICK names \in Names :
         /\ codex[c] = Unmade
         /\ codex' = [codex EXCEPT ![c].form = "cell", ![c].names = names]
         /\ openCells' = [openCells EXCEPT ![c].commands = names]
         /\ calls' = [calls EXCEPT ![c] = IF ItemBased THEN "codeCell" ELSE "command"]
         /\ UNCHANGED <<build, polls, pending, chunks, callExits, events>>
  BY DEF CellCalled
<1> DEFINE cy == [Unmade EXCEPT !.form = "cell", !.names = names]
           cell == [NoCell EXCEPT !.commands = names]
<1>2. CallRight(build, codex[c], calls[c], openCells[c], callExits[c])
  BY DEF RolloutInv
<1>3. openCells[c] = NoCell /\ callExits[c] = <<>>
  BY <1>1, <1>2, UnmadeIs DEF CallRight
<1>4. codex' = [codex EXCEPT ![c] = cy] /\ openCells' = [openCells EXCEPT ![c] = cell]
  BY <1>1, <1>3 DEF RolloutInv, RolloutTypeOK
<1>5. names \in Seq(Texts) /\ Len(names) >= 1
  BY NamesNotEmpty
<1>6. /\ cy \in CodexCalls /\ cy.form = "cell" /\ cy.names = names /\ cy.exits = <<>>
      /\ cy.handle = NoHandle /\ cy.said = 0
      /\ cell \in CellsOpen /\ cell.commands = names /\ cell.exits = [t \in Texts |-> <<>>]
  BY <1>5, UnmadeIs DEF CodexCalls, Forms, CellsOpen
<1> HIDE DEF cy, cell
<1>7. RolloutTypeOK'
  <2>1. calls' \in [Calls -> {"none", "command", "codeCell"}]
    BY <1>1 DEF RolloutInv, RolloutTypeOK
  <2>2. codex' \in [Calls -> CodexCalls] /\ openCells' \in [Calls -> CellsOpen]
    BY <1>4, <1>6 DEF RolloutInv, RolloutTypeOK
  <2> QED BY <1>1, <2>1, <2>2 DEF RolloutInv, RolloutTypeOK
<1>8. FiledOwn(cy, cell)
  <2>1. {} \in SUBSET (DOMAIN cy.exits)
    OBVIOUS
  <2>2. \A t \in Texts : cell.exits[t] = PickedCodes(cy, {}, t)
    BY <1>6 DEF PickedCodes
  <2> QED BY <1>6, <2>1, <2>2 DEF FiledOwn
<1>9. CallRight(build, cy, calls'[c], openCells'[c], callExits'[c])
  <2>1. /\ calls'[c] = IF ItemBased THEN "codeCell" ELSE "command"
        /\ openCells'[c] = cell /\ callExits'[c] = <<>>
    BY <1>1, <1>3, <1>4 DEF RolloutInv, RolloutTypeOK
  <2>2. Len(cy.exits) <= Len(cy.names)
    BY <1>5, <1>6
  <2> QED BY <1>6, <1>8, <2>1, <2>2 DEF CallRight, ItemBased
<1>10. \A d \in Calls \ {c} : CallRight(build, codex[d], calls'[d], openCells'[d], callExits'[d])
  BY <1>1 DEF RolloutInv, RolloutTypeOK
<1>11. HandlesRight'
  <2>1. /\ cy.handle = codex[c].handle /\ cy.handle = NoHandle
        /\ UNCHANGED <<build, pending, chunks>>
    BY <1>1, <1>6, UnmadeIs
  <2> QED BY <1>4, <2>1, HandlesStay
<1>12. CallGoesOn(codex[c], cy)
  BY <1>1, UnmadeIs DEF CallGoesOn
<1> QED BY <1>1, <1>4, <1>6, <1>7, <1>9, <1>10, <1>11, <1>12, StepOfCall

\* A code filed goes to its own cell, or it is of no use.
LEMMA FilesRight ==
    ASSUME RolloutInv, NEW c \in Calls, codex[c].form = "cell", ~Finished(c), NEW code \in Exits,
           NEW n, n = Len(codex[c].exits) + 1, FileUnderCell(codex[c].names[n], code),
           NEW cy \in CodexCalls, cy = [codex[c] EXCEPT !.exits = Append(@, code)]
    PROVE  /\ openCells' \in [Calls -> CellsOpen]
           /\ CallRight(build, cy, calls[c], openCells'[c], callExits[c])
           /\ \A d \in Calls \ {c} : CallRight(build, codex[d], calls[d], openCells'[d], callExits[d])
<1> DEFINE t == codex[c].names[n]
           cands == Candidates(t)
           cx == codex[c]
<1>1. /\ \A d \in Calls : CallRight(build, codex[d], calls[d], openCells[d], callExits[d])
      /\ openCells \in [Calls -> CellsOpen] /\ cx \in CodexCalls
  BY DEF RolloutInv, RolloutTypeOK
<1>2. cx.names \in Names /\ Len(cx.exits) < Len(cx.names) /\ t \in Texts
  <2>1. cx.names \in Names /\ Len(cx.exits) <= Len(cx.names) /\ Len(cx.exits) # Len(cx.names)
    BY <1>1 DEF CallRight, Finished
  <2>2. cx.exits \in Seq(Exits) /\ cx.names \in Seq(Texts)
    BY <1>1 DEF CodexCalls
  <2>3. Len(cx.exits) < Len(cx.names)
    BY <2>1, <2>2
  <2>4. n \in DOMAIN cx.names
    BY <2>2, <2>3
  <2> QED BY <2>1, <2>2, <2>3, <2>4
<1>3. /\ cy.exits = Append(cx.exits, code) /\ cy.names = cx.names /\ cy.form = "cell"
      /\ cy.handle = cx.handle /\ cy.said = cx.said
  BY <1>1 DEF CodexCalls
<1>4. Len(cy.exits) <= Len(cy.names)
  <2>1. cx.exits \in Seq(Exits) /\ cx.names \in Seq(Texts)
    BY <1>1 DEF CodexCalls
  <2> QED BY <1>2, <1>3, <2>1
\* The call is right with any cell that is its own.
<1>5. ASSUME NEW cell \in CellsOpen, build # "all" => FiledOwn(cy, cell)
      PROVE  CallRight(build, cy, calls[c], cell, callExits[c])
  BY <1>1, <1>2, <1>3, <1>4, <1>5 DEF CallRight
<1>6. build # "all" =>
        /\ c \in cands
        /\ FiledOwn(cy, openCells[c])
        /\ FiledOwn(cy, [openCells[c] EXCEPT !.exits[t] = Append(@, code)])
  <2> SUFFICES ASSUME build # "all"
               PROVE  /\ c \in cands
                      /\ FiledOwn(cy, openCells[c])
                      /\ FiledOwn(cy, [openCells[c] EXCEPT !.exits[t] = Append(@, code)])
    OBVIOUS
  <2>1. FiledOwn(cx, openCells[c]) /\ openCells[c] \in CellsOpen
    BY <1>1 DEF CallRight
  <2> HIDE DEF t, cx
  <2>2. t = cx.names[n] /\ n = Len(cx.exits) + 1
    BY DEF t, cx
  <2>3. /\ CountOf(openCells[c].commands, t) > Len(openCells[c].exits[t])
        /\ FiledOwn(cy, openCells[c])
        /\ FiledOwn(cy, [openCells[c] EXCEPT !.exits[t] = Append(@, code)])
    BY <1>1, <1>2, <1>3, <2>1, <2>2, CellFiles
  <2> QED BY <2>3 DEF Candidates
<1>7. CASE ~OnlyOne(cands)
  <2>1. openCells' = openCells
    BY <1>7 DEF FileUnderCell
  <2> QED BY <1>1, <1>5, <1>6, <2>1
<1>8. CASE OnlyOne(cands)
  <2>1. PICK d : cands = {d}
    <3>1. IsFiniteSet(cands)
      <4>1. cands \subseteq Calls
        BY DEF Candidates
      <4> QED BY <4>1, NamesAssumption, FS_Subset
    <3> QED BY <1>8, <3>1, FS_Singleton DEF OnlyOne
  <2>2. (CHOOSE a \in cands : TRUE) = d /\ d \in Calls
    BY <2>1 DEF Candidates
  <2> DEFINE cell == [openCells[d] EXCEPT !.exits[t] = Append(@, code)]
  <2>3. openCells' = [openCells EXCEPT ![d].exits[t] = Append(@, code)]
    BY <1>8, <2>2 DEF FileUnderCell
  <2>4. cell \in CellsOpen /\ cell.commands = openCells[d].commands
    <3>1. openCells[d].exits \in [Texts -> Seq(Exits)] /\ openCells[d].commands \in Seq(Texts)
      BY <1>1, <2>2 DEF CellsOpen
    <3>2. Append(openCells[d].exits[t], code) \in Seq(Exits)
      BY <1>2, <3>1
    <3>3. cell = [commands |-> openCells[d].commands,
                  exits |-> [openCells[d].exits EXCEPT ![t] = Append(openCells[d].exits[t], code)]]
      <4> DEFINE own == openCells[d]
                 put == [own.exits EXCEPT ![t] = Append(own.exits[t], code)]
      <4>1. cell = [own EXCEPT !.exits = put]
        OBVIOUS
      <4>2. own = [commands |-> own.commands, exits |-> own.exits]
        BY <1>1, <2>2 DEF CellsOpen
      <4>3. [own EXCEPT !.exits = put] = [commands |-> own.commands, exits |-> put]
        <5> HIDE DEF own, put
        <5> QED BY <4>2
      <4> QED BY <4>1, <4>3
    <3>4. [openCells[d].exits EXCEPT ![t] = Append(openCells[d].exits[t], code)] \in [Texts -> Seq(Exits)]
      BY <1>2, <3>1, <3>2
    <3> HIDE DEF cell
    <3> QED BY <3>1, <3>3, <3>4 DEF CellsOpen
  <2>5. openCells' = [openCells EXCEPT ![d] = cell]
    BY <1>1, <2>2, <2>3
  <2>6. openCells[d].commands # <<>>
    <3>1. CountOf(openCells[d].commands, t) > Len(openCells[d].exits[t])
      BY <2>1 DEF Candidates
    <3>2. Len(openCells[d].exits[t]) >= 0
      BY <1>1, <1>2, <2>2 DEF CellsOpen
    <3> QED BY <3>1, <3>2, CountsAre
  <2>7. build # "all" => d = c
    BY <1>6, <2>1
  <2>8. build # "all" => cell = [openCells[c] EXCEPT !.exits[t] = Append(@, code)]
    BY <2>7
  <2> HIDE DEF cell, cands, t
  <2>9. openCells' \in [Calls -> CellsOpen] /\ openCells'[d] = cell
        /\ \A a \in Calls \ {d} : openCells'[a] = openCells[a]
    BY <1>1, <2>2, <2>4, <2>5
  <2>10. CallRight(build, cy, calls[c], openCells'[c], callExits[c])
    <3>1. build # "all" => FiledOwn(cy, openCells'[c])
      BY <1>6, <2>7, <2>8, <2>9
    <3>2. openCells'[c] \in CellsOpen
      BY <2>9
    <3> QED BY <1>5, <3>1, <3>2
  <2>11. ASSUME NEW a \in Calls \ {c}
         PROVE  CallRight(build, codex[a], calls[a], openCells'[a], callExits[a])
    <3>1. CASE a # d
      BY <1>1, <2>9, <3>1
    <3>2. CASE a = d
      <4>1. build = "all" /\ openCells'[a] = cell
        BY <2>7, <2>9, <2>11, <3>2
      <4>2. codex[a].form # "unmade" /\ codex[a].form # "function"
        BY <1>1, <2>6, <3>2, UnmadeIs DEF CallRight
      <4> QED BY <1>1, <2>4, <3>2, <4>1, <4>2 DEF CallRight
    <3> QED BY <3>1, <3>2
  <2> QED BY <2>9, <2>10, <2>11
<1> QED BY <1>7, <1>8

\* A call is right when a process of it has ended and nothing is filed.
LEMMA UnfiledRight ==
    ASSUME RolloutInv, NEW c \in Calls, Live(c), ~Finished(c), NEW code \in Exits,
           NEW cy \in CodexCalls, cy = [codex[c] EXCEPT !.exits = Append(@, code)],
           NEW ce \in Seq(Exits),
           codex[c].form = "function" => ce = callExits[c] \/ ce = Append(callExits[c], code)
    PROVE  CallRight(build, cy, calls[c], openCells[c], ce)
<1> DEFINE cx == codex[c]
<1>1. CallRight(build, cx, calls[c], openCells[c], callExits[c]) /\ cx \in CodexCalls
  BY DEF RolloutInv, RolloutTypeOK
<1>2. cx.names \in Names /\ Len(cx.exits) < Len(cx.names) /\ Len(Append(cx.exits, code)) <= Len(cx.names)
  <2>1. cx.names \in Names /\ Len(cx.exits) <= Len(cx.names) /\ Len(cx.exits) # Len(cx.names)
    BY <1>1 DEF CallRight, Finished, Live
  <2>2. cx.exits \in Seq(Exits) /\ cx.names \in Seq(Texts)
    BY <1>1 DEF CodexCalls
  <2> QED BY <2>1, <2>2
<1>3. /\ cy.exits = Append(cx.exits, code) /\ cy.names = cx.names /\ cy.form = cx.form
      /\ cy.handle = cx.handle /\ cy.said = cx.said
  BY <1>1 DEF CodexCalls
<1>4. CASE cx.form = "function"
  <2>1. Len(cx.names) = 1 /\ callExits[c] \in {<<>>, cx.exits} /\ cx.exits \in Seq(Exits)
    BY <1>1, <1>4 DEF CallRight, CodexCalls
  <2>2. cx.exits = <<>>
    BY <1>2, <2>1
  <2>3. ce \in {<<>>, cy.exits}
    BY <1>3, <1>4, <2>1, <2>2
  <2> QED BY <1>1, <1>2, <1>3, <1>4, <2>3 DEF CallRight
<1>5. CASE cx.form = "cell"
  <2>1. build # "all" => FiledOwn(cy, openCells[c])
    <3> SUFFICES ASSUME build # "all" PROVE FiledOwn(cy, openCells[c])
      OBVIOUS
    <3>1. FiledOwn(cx, openCells[c]) /\ openCells[c] \in CellsOpen
      BY <1>1, <1>5 DEF CallRight
    <3> DEFINE n == Len(cx.exits) + 1
               t == cx.names[n]
    <3>2. n = Len(cx.exits) + 1 /\ t = cx.names[n]
      OBVIOUS
    <3> HIDE DEF n, t, cx
    <3> QED BY <1>1, <1>2, <1>3, <3>1, <3>2, CellFiles
  <2> QED BY <1>1, <1>2, <1>3, <1>5, <2>1 DEF CallRight
<1> QED BY <1>4, <1>5 DEF Live

\* What is told is told once.
LEMMA ToldEvents ==
    ASSUME NEW event, Tell(event)
    PROVE  \A e \in events' : e \in events \/ e = event
BY DEF Tell

LEMMA NewEventOwn ==
    ASSUME NEW e, NEW c \in Calls, e.call = c, codex'[c].form # "unmade",
           e.exit # Unknown => \/ /\ e.id[2] = "item" /\ e.id[3] \in DOMAIN codex'[c].exits
                                  /\ e.exit = codex'[c].exits[e.id[3]]
                               \/ e.id[2] # "item" /\ ExitTrue(codex'[c], e.exit),
           e.id[2] = "final" => codex'[c].form = "over" /\ e.body = Pieces(c, codex'[c].said)
    PROVE  EventOwn(e)'
BY DEF EventOwn

LEMMA EndProcessInv ==
    ASSUME RolloutInv, NEW c \in Calls, EndProcess(c)
    PROVE  RolloutInv'
<1>1. PICK code \in Exits :
         /\ codex' = [codex EXCEPT ![c].exits = Append(@, code)]
         /\ IF ~WritesItems THEN UNCHANGED <<openCells, callExits, events>>
            ELSE IF codex[c].form = "function" THEN ItemOfCall(c, code)
            ELSE ItemOfCell(c, code)
  BY DEF EndProcess
<1>2. Live(c) /\ ~Finished(c) /\ UNCHANGED <<build, polls, calls, pending, chunks>>
  BY DEF EndProcess
<1> DEFINE cy == [codex[c] EXCEPT !.exits = Append(@, code)]
           n == Len(codex[c].exits) + 1
<1>3. /\ codex[c] \in CodexCalls /\ codex[c].exits \in Seq(Exits)
      /\ CallRight(build, codex[c], calls[c], openCells[c], callExits[c])
      /\ callExits[c] \in Seq(Exits)
  BY DEF RolloutInv, RolloutTypeOK, CodexCalls
<1>4. /\ cy \in CodexCalls /\ cy.exits = Append(codex[c].exits, code) /\ cy.names = codex[c].names
      /\ cy.form = codex[c].form /\ cy.handle = codex[c].handle /\ cy.said = codex[c].said
      /\ codex' = [codex EXCEPT ![c] = cy]
  <2>1. Append(codex[c].exits, code) \in Seq(Exits)
    BY <1>3
  <2>2. /\ cy \in CodexCalls /\ cy.exits = Append(codex[c].exits, code) /\ cy.names = codex[c].names
        /\ cy.form = codex[c].form /\ cy.handle = codex[c].handle /\ cy.said = codex[c].said
    BY <1>3, <2>1 DEF CodexCalls
  <2>3. codex' = [codex EXCEPT ![c] = cy]
    BY <1>1
  <2> HIDE DEF cy
  <2> QED BY <2>2, <2>3
<1>5. cy = [codex[c] EXCEPT !.exits = Append(@, code)] /\ n = Len(codex[c].exits) + 1
  OBVIOUS
<1>6. cy.exits[n] = code /\ n \in DOMAIN cy.exits
  BY <1>3, <1>4
<1> HIDE DEF cy, n
<1>7. CallGoesOn(codex[c], cy)
  BY <1>2, <1>4 DEF CallGoesOn, Finished, Live
<1>8. HandlesRight'
  <2>1. UNCHANGED <<build, pending, chunks>>
    BY <1>2
  <2> QED BY <1>4, <2>1, HandlesStay
<1>9. codex' \in [Calls -> CodexCalls] /\ codex'[c] = cy /\ cy.form # "unmade"
  BY <1>2, <1>4 DEF RolloutInv, RolloutTypeOK, Live
<1>10. \A d \in Calls : CallRight(build, codex[d], calls[d], openCells[d], callExits[d])
  BY DEF RolloutInv
<1>11. CASE ~WritesItems
  <2>1. UNCHANGED <<openCells, callExits, events>>
    BY <1>1, <1>11
  <2>2. CallRight(build, cy, calls[c], openCells[c], callExits[c])
    BY <1>2, <1>3, <1>4, <1>5, UnfiledRight
  <2>3. RolloutTypeOK'
    BY <1>2, <1>9, <2>1 DEF RolloutInv, RolloutTypeOK
  <2> QED BY <1>2, <1>4, <1>7, <1>8, <1>10, <2>1, <2>2, <2>3, StepOfCall
<1>12. CASE WritesItems /\ codex[c].form = "function"
  <2>1. ItemOfCall(c, code)
    BY <1>1, <1>12
  <2> DEFINE ce == IF calls[c] = "command" \/ IsPending(c) THEN Append(callExits[c], code) ELSE callExits[c]
  <2>2. ce \in Seq(Exits)
    BY <1>3
  <2>3. callExits' = [callExits EXCEPT ![c] = ce] /\ UNCHANGED <<openCells, events>>
    BY <2>1 DEF ItemOfCall, RolloutInv, RolloutTypeOK
  <2>4. ce = callExits[c] \/ ce = Append(callExits[c], code)
    OBVIOUS
  <2> HIDE DEF ce
  <2>5. CallRight(build, cy, calls[c], openCells[c], ce)
    BY <1>2, <1>4, <1>5, <2>2, <2>4, UnfiledRight
  <2>6. /\ callExits' \in [Calls -> Seq(Exits)] /\ callExits'[c] = ce
        /\ \A d \in Calls \ {c} : callExits'[d] = callExits[d]
    BY <2>2, <2>3 DEF RolloutInv, RolloutTypeOK
  <2>7. RolloutTypeOK'
    BY <1>2, <1>9, <2>3, <2>6 DEF RolloutInv, RolloutTypeOK
  <2>8. CallRight(build, cy, calls'[c], openCells'[c], callExits'[c])
    BY <1>2, <2>3, <2>5, <2>6
  <2>9. \A d \in Calls \ {c} : CallRight(build, codex[d], calls'[d], openCells'[d], callExits'[d])
    BY <1>2, <1>10, <2>3, <2>6
  <2> QED BY <1>2, <1>4, <1>7, <1>8, <2>3, <2>7, <2>8, <2>9, StepOfCall
<1>13. CASE WritesItems /\ codex[c].form = "cell"
  <2>1. ItemOfCell(c, code)
    BY <1>1, <1>13
  <2>2. FileUnderCell(codex[c].names[n], code) /\ callExits' = callExits
    BY <1>5, <2>1 DEF ItemOfCell
  <2>3. /\ openCells' \in [Calls -> CellsOpen]
        /\ CallRight(build, cy, calls[c], openCells'[c], callExits[c])
        /\ \A d \in Calls \ {c} : CallRight(build, codex[d], calls[d], openCells'[d], callExits[d])
    BY <1>2, <1>4, <1>5, <1>13, <2>2, FilesRight
  <2>4. RolloutTypeOK'
    BY <1>2, <1>9, <2>2, <2>3 DEF RolloutInv, RolloutTypeOK
  <2> DEFINE event == [id |-> <<c, "item", n>>, call |-> c, exit |-> code, body |-> <<>>]
  <2>5. \A e \in events' : e \in events \/ e = event
    <3>1. CASE ItemBased
      <4>1. Tell(event)
        BY <1>5, <2>1, <3>1 DEF ItemOfCell
      <4> HIDE DEF event
      <4> QED BY <4>1, ToldEvents
    <3>2. CASE ~ItemBased
      BY <2>1, <3>2 DEF ItemOfCell
    <3> QED BY <3>1, <3>2
  <2>6. /\ event.call = c /\ event.id[2] = "item" /\ event.id[3] = n /\ event.exit = code
    OBVIOUS
  <2> HIDE DEF event
  <2>7. ASSUME NEW e \in events'
        PROVE  e \in events \/ EventOwn(e)'
    <3>1. CASE e = event
      BY <1>6, <1>9, <2>6, <3>1, NewEventOwn
    <3> QED BY <2>5, <3>1
  <2> QED BY <1>2, <1>4, <1>7, <1>8, <2>2, <2>3, <2>4, <2>7, StepOfCall
<1> QED BY <1>2, <1>11, <1>12, <1>13 DEF Live

LEMMA PiecesGrow ==
    ASSUME NEW c \in Calls, NEW n \in Nat
    PROVE  /\ Pieces(c, n) \in Seq(Calls \X Nat)
           /\ Append(Pieces(c, n), <<c, n + 1>>) = Pieces(c, n + 1)
           /\ <<<<c, 1>>>> = Pieces(c, 1)
<1>1. \A m \in Nat : Pieces(c, m) \in Seq(Calls \X Nat) /\ Len(Pieces(c, m)) = m
                     /\ \A i \in 1 .. m : Pieces(c, m)[i] = <<c, i>>
  BY DEF Pieces
<1>2. <<c, n + 1>> \in Calls \X Nat /\ <<c, 1>> \in Calls \X Nat
  OBVIOUS
<1>3. \A s, t \in Seq(Calls \X Nat) : Len(s) = Len(t) /\ (\A i \in 1 .. Len(s) : s[i] = t[i]) => s = t
  OBVIOUS
<1>4. Append(Pieces(c, n), <<c, n + 1>>) = Pieces(c, n + 1)
  <2> DEFINE s == Append(Pieces(c, n), <<c, n + 1>>)
             t == Pieces(c, n + 1)
  <2>1. s \in Seq(Calls \X Nat) /\ Len(s) = n + 1 /\ t \in Seq(Calls \X Nat) /\ Len(t) = n + 1
    <3>1. n + 1 \in Nat
      OBVIOUS
    <3>2. Pieces(c, n) \in Seq(Calls \X Nat) /\ Len(Pieces(c, n)) = n
      BY <1>1
    <3>3. t \in Seq(Calls \X Nat) /\ Len(t) = n + 1
      BY <1>1, <3>1
    <3>4. s \in Seq(Calls \X Nat) /\ Len(s) = n + 1
      BY <1>2, <3>2
    <3> QED BY <3>3, <3>4
  <2>2. ASSUME NEW i \in 1 .. n + 1
        PROVE  s[i] = t[i]
    <3>1. t[i] = <<c, i>>
      BY <1>1
    <3>2. CASE i = n + 1
      <4>1. Pieces(c, n) \in Seq(Calls \X Nat) /\ Len(Pieces(c, n)) = n
        BY <1>1
      <4>2. s[n + 1] = <<c, n + 1>>
        BY <1>2, <4>1
      <4> QED BY <3>1, <3>2, <4>2
    <3>3. CASE i # n + 1
      <4>1. i \in 1 .. n
        BY <3>3
      <4>2. s[i] = Pieces(c, n)[i]
        BY <1>1, <1>2, <4>1
      <4> QED BY <1>1, <3>1, <4>1, <4>2
    <3> QED BY <3>2, <3>3
  <2> HIDE DEF s, t
  <2>3. s = t
    BY <1>3, <2>1, <2>2
  <2> QED BY <2>3 DEF s, t
<1>5. <<<<c, 1>>>> = Pieces(c, 1)
  <2> DEFINE s == <<<<c, 1>>>>
             t == Pieces(c, 1)
  <2>1. s \in Seq(Calls \X Nat) /\ Len(s) = 1 /\ s[1] = <<c, 1>>
    BY <1>2
  <2>2. t \in Seq(Calls \X Nat) /\ Len(t) = 1 /\ t[1] = <<c, 1>>
    <3>1. 1 \in Nat /\ 1 \in 1 .. 1
      OBVIOUS
    <3> QED BY <1>1, <3>1
  <2>3. \A i \in 1 .. 1 : i = 1
    OBVIOUS
  <2> HIDE DEF s, t
  <2>4. \A i \in 1 .. Len(s) : s[i] = t[i]
    BY <2>1, <2>2, <2>3
  <2>5. s = t
    BY <1>3, <2>1, <2>2, <2>4
  <2> QED BY <2>5 DEF s, t
<1> QED BY <1>1, <1>4, <1>5

\* The exit code told of a call that ends is true of it.
LEMMA OwnExit ==
    ASSUME RolloutInv, PrintsAll, NEW c \in Calls, Live(c),
           codex[c].form = "cell" => build # "all",
           NEW ending \in Endings(c), Finished(c) \/ ending.exit = "none",
           ExitOf(c, Observed(ending)) # Unknown
    PROVE  ExitTrue(codex[c], ExitOf(c, Observed(ending)))
<1>1. CallRight(build, codex[c], calls[c], openCells[c], callExits[c]) /\ codex[c] \in CodexCalls
  BY DEF RolloutInv, RolloutTypeOK
<1>2. codex[c].names \in Names
  BY <1>1 DEF CallRight, Live
<1>3. CASE Observed(ending) = Unknown
  <2>1. ExitOf(c, Observed(ending)) = RecordedExit(c)
    BY <1>3 DEF ExitOf
  <2> QED BY <1>1, <2>1, RecordedTrue
<1>4. CASE Observed(ending) # Unknown
  <2>1. ExitOf(c, Observed(ending)) = Observed(ending)
    BY <1>4 DEF ExitOf
  <2> QED BY <1>1, <1>2, <1>4, <2>1, ObservedTrue
<1> QED BY <1>3, <1>4

\* A call over is right, whatever was kept of it.
LEMMA OverRight ==
    ASSUME RolloutInv, NEW c \in Calls, Live(c), NEW cy \in CodexCalls,
           cy.form = "over", cy.handle = NoHandle, cy.names = codex[c].names, cy.exits = codex[c].exits,
           NEW cell \in CellsOpen, NEW ce \in Seq(Exits), NEW ca \in {"none", "command", "codeCell"}
    PROVE  CallRight(build, cy, ca, cell, ce) /\ CallGoesOn(codex[c], cy)
<1>1. CallRight(build, codex[c], calls[c], openCells[c], callExits[c])
  BY DEF RolloutInv
<1>2. codex[c].names \in Names /\ Len(codex[c].exits) <= Len(codex[c].names)
  BY <1>1 DEF CallRight, Live
<1>3. CallRight(build, cy, ca, cell, ce)
  BY <1>2 DEF CallRight
<1>4. CallGoesOn(codex[c], cy)
  BY DEF CallGoesOn, Live
<1> QED BY <1>3, <1>4

LEMMA OutputInv ==
    ASSUME RolloutInv, PrintsAll, NEW c \in Calls, Output(c)
    PROVE  RolloutInv'
<1>1. PICK ending \in Endings(c) :
         /\ Finished(c) \/ ending.exit = "none"
         /\ codex' = [codex EXCEPT ![c].form = "over", ![c].said = 1]
         /\ IF calls[c] = "codeCell"
            THEN /\ openCells' = [openCells EXCEPT ![c] = NoCell]
                 /\ UNCHANGED <<callExits, events>>
            ELSE CommandCompleted(c, "result", Observed(ending), <<Piece(c)>>)
  BY DEF Output
<1>2. /\ Live(c) /\ ~Yielded(c) /\ calls' = [calls EXCEPT ![c] = "none"]
      /\ UNCHANGED <<build, polls, pending, chunks>>
  BY DEF Output
<1> DEFINE cy == [codex[c] EXCEPT !.form = "over", !.said = 1]
<1>3. /\ codex[c] \in CodexCalls /\ codex[c].handle = NoHandle
      /\ CallRight(build, codex[c], calls[c], openCells[c], callExits[c])
  BY <1>2 DEF RolloutInv, RolloutTypeOK, Yielded
<1>4. /\ cy \in CodexCalls /\ cy.form = "over" /\ cy.names = codex[c].names /\ cy.exits = codex[c].exits
      /\ cy.handle = codex[c].handle
  BY <1>3 DEF CodexCalls, Forms
<1>5. codex' = [codex EXCEPT ![c] = cy]
  BY <1>1, <1>3
<1> HIDE DEF cy
<1>6. codex' \in [Calls -> CodexCalls] /\ codex'[c] = cy
  BY <1>4, <1>5 DEF RolloutInv, RolloutTypeOK
<1>7. /\ openCells' \in [Calls -> CellsOpen] /\ callExits' \in [Calls -> Seq(Exits)]
      /\ \A d \in Calls \ {c} : openCells'[d] = openCells[d] /\ callExits'[d] = callExits[d]
  <2>1. openCells' = [openCells EXCEPT ![c] = NoCell]
    BY <1>1 DEF CommandCompleted
  <2>2. callExits' = callExits \/ callExits' = [callExits EXCEPT ![c] = <<>>]
    BY <1>1 DEF CommandCompleted
  <2>3. <<>> \in Seq(Exits)
    OBVIOUS
  <2> QED BY <2>1, <2>2, <2>3, UnmadeIs DEF RolloutInv, RolloutTypeOK
<1>8. /\ calls' \in [Calls -> {"none", "command", "codeCell"}]
      /\ \A d \in Calls \ {c} : calls'[d] = calls[d]
  BY <1>2 DEF RolloutInv, RolloutTypeOK
<1>9. RolloutTypeOK'
  BY <1>2, <1>6, <1>7, <1>8 DEF RolloutInv, RolloutTypeOK
<1>10. CallRight(build, cy, calls'[c], openCells'[c], callExits'[c]) /\ CallGoesOn(codex[c], cy)
  <2>1. calls'[c] \in {"none", "command", "codeCell"} /\ openCells'[c] \in CellsOpen /\ callExits'[c] \in Seq(Exits)
    BY <1>7, <1>8
  <2> QED BY <1>2, <1>3, <1>4, <2>1, OverRight
<1>11. \A d \in Calls \ {c} : CallRight(build, codex[d], calls'[d], openCells'[d], callExits'[d])
  BY <1>7, <1>8 DEF RolloutInv
<1>12. HandlesRight'
  <2>1. /\ UNCHANGED <<build, pending, chunks>> /\ cy.handle = codex[c].handle /\ cy.handle = NoHandle
    BY <1>2, <1>3, <1>4
  <2> QED BY <1>5, <2>1, HandlesStay
<1>13. ASSUME NEW e \in events'
       PROVE  e \in events \/ EventOwn(e)'
  <2>1. CASE calls[c] = "codeCell"
    BY <1>1, <2>1
  <2>2. CASE calls[c] # "codeCell"
    <3> DEFINE code == ExitOf(c, Observed(ending))
               event == [id |-> <<c, "result", 0>>, call |-> c, exit |-> code, body |-> <<Piece(c)>>]
    <3>1. Tell(event)
      BY <1>1, <2>2 DEF CommandCompleted
    <3>2. event.call = c /\ event.id[2] = "result" /\ event.exit = code
      OBVIOUS
    <3>3. codex[c].form = "cell" => build # "all"
      BY <1>2, <1>3, <2>2 DEF CallRight, Live
    <3>4. code # Unknown => ExitTrue(codex[c], code)
      BY <1>1, <1>2, <3>3, OwnExit
    <3> HIDE DEF event, code
    <3>5. code # Unknown => ExitTrue(cy, code)
      BY <1>4, <3>4 DEF ExitTrue
    <3>6. CASE e = event
      BY <1>4, <1>6, <3>2, <3>5, <3>6, NewEventOwn
    <3> QED BY <3>1, <3>6, ToldEvents
  <2> QED BY <2>1, <2>2
<1> QED BY <1>2, <1>4, <1>5, <1>9, <1>10, <1>11, <1>12, <1>13, StepOfCall

LEMMA YieldInv ==
    ASSUME RolloutInv, NEW c \in Calls, Yield(c)
    PROVE  RolloutInv'
<1>1. PICK h \in FreeHandles :
         /\ codex' = [codex EXCEPT ![c].handle = h, ![c].said = 1]
         /\ IF calls[c] = "codeCell"
            THEN UNCHANGED <<pending, chunks, events>>
            ELSE /\ TrackRunning(c, h)
                 /\ Tell([id |-> <<c, "result", 0>>, call |-> c, exit |-> Unknown,
                          body |-> <<Piece(c)>>])
  BY DEF Yield
<1>2. /\ Live(c) /\ codex[c].handle = NoHandle /\ calls' = [calls EXCEPT ![c] = "none"]
      /\ UNCHANGED <<build, polls, openCells, callExits>>
  BY DEF Yield, Yielded
<1>3. h \in Handles /\ h # NoHandle /\ \A d \in Calls : codex[d].handle # h
  BY NamesAssumption DEF FreeHandles
<1> DEFINE cy == [codex[c] EXCEPT !.handle = h, !.said = 1]
<1>4. /\ codex[c] \in CodexCalls
      /\ CallRight(build, codex[c], calls[c], openCells[c], callExits[c])
  BY DEF RolloutInv, RolloutTypeOK
<1>5. /\ cy \in CodexCalls /\ cy.form = codex[c].form /\ cy.names = codex[c].names
      /\ cy.exits = codex[c].exits /\ cy.handle = h /\ cy.said = 1
  BY <1>3, <1>4 DEF CodexCalls
<1>6. codex' = [codex EXCEPT ![c] = cy]
  BY <1>1, <1>4
<1> HIDE DEF cy
<1>7. /\ codex' \in [Calls -> CodexCalls] /\ codex'[c] = cy
      /\ \A d \in Calls \ {c} : codex'[d] = codex[d]
  BY <1>5, <1>6 DEF RolloutInv, RolloutTypeOK
<1>8. /\ calls' \in [Calls -> {"none", "command", "codeCell"}] /\ calls'[c] = "none"
      /\ \A d \in Calls \ {c} : calls'[d] = calls[d]
  BY <1>2 DEF RolloutInv, RolloutTypeOK
<1>9. CallRight(build, cy, calls'[c], openCells'[c], callExits'[c])
  <2>1. build # "all" /\ codex[c].form = "cell" => FiledOwn(cy, openCells[c])
    <3> SUFFICES ASSUME build # "all", codex[c].form = "cell" PROVE FiledOwn(cy, openCells[c])
      OBVIOUS
    <3>1. FiledOwn(codex[c], openCells[c])
      BY <1>4 DEF CallRight
    <3> QED BY <1>5, <3>1 DEF FiledOwn, PickedCodes
  <2> QED BY <1>2, <1>3, <1>4, <1>5, <1>8, <2>1 DEF CallRight, Live
<1>10. \A d \in Calls \ {c} : CallRight(build, codex[d], calls'[d], openCells'[d], callExits'[d])
  BY <1>2, <1>8 DEF RolloutInv
<1>11. CallGoesOn(codex[c], cy)
  BY <1>2, <1>5 DEF CallGoesOn, Live
<1>12. codex[c].said = 0
  BY <1>2, <1>4 DEF CallRight, Live
<1>13. CASE calls[c] = "codeCell"
  <2>1. UNCHANGED <<pending, chunks, events>>
    BY <1>1, <1>13
  <2>2. RolloutTypeOK'
    BY <1>2, <1>7, <1>8, <2>1 DEF RolloutInv, RolloutTypeOK
  <2>3. HandlesRight'
    <3>1. \A d, e \in Calls : codex'[d].handle = codex'[e].handle /\ codex'[d].handle # NoHandle => d = e
      BY <1>3, <1>5, <1>7 DEF RolloutInv, HandlesRight
    <3>2. \A k \in Handles : pending[k] # NoCall => pending[k] # c /\ pending[k] \in Calls
      BY <1>2, NamesAssumption DEF RolloutInv, HandlesRight
    <3> QED BY <1>2, <1>7, <2>1, <3>1, <3>2 DEF RolloutInv, HandlesRight
  <2> QED BY <1>2, <1>5, <1>6, <1>9, <1>10, <1>11, <2>1, <2>2, <2>3, StepOfCall
<1>14. CASE calls[c] # "codeCell"
  <2>1. /\ pending' = [pending EXCEPT ![h] = c] /\ chunks' = [chunks EXCEPT ![c] = <<Piece(c)>>]
    BY <1>1, <1>14 DEF TrackRunning
  <2> DEFINE event == [id |-> <<c, "result", 0>>, call |-> c, exit |-> Unknown, body |-> <<Piece(c)>>]
  <2>2. Tell(event)
    BY <1>1, <1>14
  <2>3. Piece(c) \in Calls \X Nat
    BY <1>4 DEF Piece, CodexCalls
  <2>4. /\ pending' \in [Handles -> Calls \cup {NoCall}] /\ chunks' \in [Calls -> Seq(Calls \X Nat)]
        /\ pending'[h] = c /\ (\A k \in Handles \ {h} : pending'[k] = pending[k])
        /\ chunks'[c] = <<Piece(c)>> /\ \A d \in Calls \ {c} : chunks'[d] = chunks[d]
    <3>1. <<Piece(c)>> \in Seq(Calls \X Nat)
      BY <2>3
    <3> QED BY <1>3, <2>1, <3>1 DEF RolloutInv, RolloutTypeOK
  <2>5. RolloutTypeOK'
    BY <1>2, <1>7, <1>8, <2>4 DEF RolloutInv, RolloutTypeOK
  <2>6. chunks'[c] = Pieces(c, cy.said)
    <3>1. Piece(c) = <<c, 1>> /\ 0 \in Nat
      BY <1>12 DEF Piece
    <3>2. <<<<c, 1>>>> = Pieces(c, 1)
      BY <3>1, PiecesGrow
    <3> QED BY <1>5, <2>4, <3>1, <3>2
  <2>7. HandlesRight'
    <3>1. \A d, e \in Calls : codex'[d].handle = codex'[e].handle /\ codex'[d].handle # NoHandle => d = e
      BY <1>3, <1>5, <1>7 DEF RolloutInv, HandlesRight
    <3>2. \A k \in Handles : pending[k] # NoCall => pending[k] # c /\ pending[k] \in Calls
      BY <1>2, NamesAssumption DEF RolloutInv, HandlesRight
    <3>3. codex[c].form = "cell" => build # "all"
      BY <1>2, <1>4, <1>14 DEF CallRight
    <3>4. ASSUME NEW k \in Handles, pending'[k] # NoCall
          PROVE  /\ pending'[k] \in Calls
                 /\ codex'[pending'[k]].handle = k
                 /\ codex'[pending'[k]].form = "cell" => build # "all"
                 /\ chunks'[pending'[k]] = Pieces(pending'[k], codex'[pending'[k]].said)
      <4>1. CASE k = h
        BY <1>5, <1>7, <2>4, <2>6, <3>3, <4>1
      <4>2. CASE k # h
        <5>1. pending'[k] = pending[k] /\ pending[k] # c /\ pending[k] \in Calls
          BY <2>4, <3>2, <3>4, <4>2
        <5>2. codex'[pending[k]] = codex[pending[k]] /\ chunks'[pending[k]] = chunks[pending[k]]
          BY <1>7, <2>4, <5>1
        <5> QED BY <3>4, <5>1, <5>2 DEF RolloutInv, HandlesRight
      <4> QED BY <4>1, <4>2
    <3> QED BY <1>2, <3>1, <3>4 DEF HandlesRight
  <2>8. event.call = c /\ event.id[2] = "result" /\ event.exit = Unknown
    OBVIOUS
  <2> HIDE DEF event
  <2>9. ASSUME NEW e \in events'
        PROVE  e \in events \/ EventOwn(e)'
    <3>1. CASE e = event
      BY <1>2, <1>5, <1>7, <2>8, <3>1, NewEventOwn DEF Live
    <3> QED BY <2>2, <3>1, ToldEvents
  <2> QED BY <1>2, <1>5, <1>6, <1>9, <1>10, <1>11, <2>5, <2>7, <2>9, StepOfCall
<1> QED BY <1>13, <1>14

LEMMA PollInvR ==
    ASSUME RolloutInv, NEW h \in Handles, Poll(h)
    PROVE  RolloutInv'
<1>1. UNCHANGED <<build, codex, calls, pending, chunks, openCells, callExits, events>>
  BY DEF Poll
<1> QED BY <1>1 DEF RolloutInv, RolloutTypeOK, HandlesRight, EventOwn

\* A call that runs under the handle h is right with whatever it said more.
LEMMA PollSaysRunningInv ==
    ASSUME RolloutInv, NEW h \in Handles, PollSaysRunning(h)
    PROVE  RolloutInv'
<1>1. PICK c \in Calls :
         /\ codex[c].handle = h
         /\ codex' = [codex EXCEPT ![c].said = @ + 1]
         /\ chunks' = IF pending[h] = NoCall THEN chunks
                      ELSE [chunks EXCEPT ![pending[h]] = Append(@, Piece(c))]
  BY DEF PollSaysRunning
<1>2. UNCHANGED <<build, calls, pending, openCells, callExits, events>> /\ h # NoHandle
  BY NamesAssumption DEF PollSaysRunning
<1> DEFINE cy == [codex[c] EXCEPT !.said = @ + 1]
<1>3. /\ codex[c] \in CodexCalls /\ codex[c].said \in Nat
      /\ CallRight(build, codex[c], calls[c], openCells[c], callExits[c])
  BY DEF RolloutInv, RolloutTypeOK, CodexCalls
<1>4. /\ cy \in CodexCalls /\ cy.form = codex[c].form /\ cy.names = codex[c].names
      /\ cy.exits = codex[c].exits /\ cy.handle = h /\ cy.said = codex[c].said + 1
  BY <1>1, <1>3 DEF CodexCalls
<1>5. codex' = [codex EXCEPT ![c] = cy]
  BY <1>1
<1> HIDE DEF cy
<1>6. /\ codex' \in [Calls -> CodexCalls] /\ codex'[c] = cy
      /\ \A d \in Calls \ {c} : codex'[d] = codex[d]
  BY <1>4, <1>5 DEF RolloutInv, RolloutTypeOK
<1>7. codex[c].form \in {"function", "cell"}
  BY <1>1, <1>2, <1>3, UnmadeIs DEF CallRight, CodexCalls, Forms
<1>8. CallRight(build, cy, calls'[c], openCells'[c], callExits'[c])
  <2>1. FiledOwn(codex[c], openCells[c]) => FiledOwn(cy, openCells[c])
    BY <1>4 DEF FiledOwn, PickedCodes
  <2> QED BY <1>2, <1>3, <1>4, <1>7, <2>1 DEF CallRight
<1>9. CallGoesOn(codex[c], cy)
  BY <1>4, <1>7 DEF CallGoesOn
<1>10. \A d \in Calls \ {c} : CallRight(build, codex[d], calls'[d], openCells'[d], callExits'[d])
  BY <1>2 DEF RolloutInv
<1>11. pending[h] = NoCall \/ pending[h] = c
  BY <1>1, <1>2 DEF RolloutInv, HandlesRight
<1>12. /\ chunks' \in [Calls -> Seq(Calls \X Nat)]
       /\ \A d \in Calls \ {c} : chunks'[d] = chunks[d]
       /\ pending[h] = c => chunks'[c] = Pieces(c, cy.said)
  <2>1. CASE pending[h] = NoCall
    BY <1>1, <2>1, NamesAssumption DEF RolloutInv, RolloutTypeOK
  <2>2. CASE pending[h] = c
    <3>1. chunks[c] = Pieces(c, codex[c].said) /\ c # NoCall
      BY <2>2, NamesAssumption DEF RolloutInv, HandlesRight
    <3>2. Append(chunks[c], Piece(c)) = Pieces(c, cy.said) /\ Pieces(c, cy.said) \in Seq(Calls \X Nat)
      <4> DEFINE n == codex[c].said
      <4>1. n \in Nat /\ n + 1 \in Nat /\ cy.said = n + 1 /\ Piece(c) = <<c, n + 1>>
        BY <1>3, <1>4 DEF Piece
      <4>2. chunks[c] = Pieces(c, n)
        BY <3>1
      <4> HIDE DEF n
      <4> QED BY <4>1, <4>2, PiecesGrow
    <3>3. chunks' = [chunks EXCEPT ![c] = Append(chunks[c], Piece(c))]
      BY <1>1, <2>2, <3>1
    <3> QED BY <3>2, <3>3 DEF RolloutInv, RolloutTypeOK
  <2> QED BY <1>11, <2>1, <2>2
<1>13. RolloutTypeOK'
  BY <1>2, <1>6, <1>12 DEF RolloutInv, RolloutTypeOK
<1>14. HandlesRight'
  <2>1. \A d, e \in Calls : codex'[d].handle = codex'[e].handle /\ codex'[d].handle # NoHandle => d = e
    BY <1>1, <1>4, <1>6 DEF RolloutInv, HandlesRight
  <2>2. ASSUME NEW k \in Handles, pending[k] # NoCall
        PROVE  /\ pending[k] \in Calls
               /\ codex'[pending[k]].handle = k
               /\ codex'[pending[k]].form = "cell" => build # "all"
               /\ chunks'[pending[k]] = Pieces(pending[k], codex'[pending[k]].said)
    <3>1. /\ pending[k] \in Calls /\ codex[pending[k]].handle = k
          /\ codex[pending[k]].form = "cell" => build # "all"
          /\ chunks[pending[k]] = Pieces(pending[k], codex[pending[k]].said)
      BY <2>2 DEF RolloutInv, HandlesRight
    <3>2. CASE pending[k] = c
      <4>1. k = h
        BY <1>1, <3>1, <3>2
      <4> QED BY <1>4, <1>6, <1>12, <3>1, <3>2, <4>1
    <3>3. CASE pending[k] # c
      BY <1>6, <1>12, <3>1, <3>3
    <3> QED BY <3>2, <3>3
  <2> QED BY <1>2, <2>1, <2>2 DEF HandlesRight
<1> QED BY <1>2, <1>4, <1>5, <1>8, <1>9, <1>10, <1>13, <1>14, StepOfCall

LEMMA PollEndsInv ==
    ASSUME RolloutInv, PrintsAll, NEW h \in Handles, PollEnds(h)
    PROVE  RolloutInv'
<1>0. PICK c \in Calls : \E ending \in Endings(c) :
         /\ codex[c].handle = h
         /\ Finished(c) \/ ending.exit = "none"
         /\ codex' = [codex EXCEPT ![c].form = "over", ![c].handle = NoHandle, ![c].said = @ + 1]
         /\ IF pending[h] = NoCall
            THEN UNCHANGED <<pending, openCells, callExits, events>>
            ELSE /\ pending' = [k \in Handles |-> IF pending[k] = pending[h] THEN NoCall ELSE pending[k]]
                 /\ CommandCompleted(pending[h], "final", Observed(ending), Whole(pending[h], c))
  BY DEF PollEnds
<1>1. PICK ending \in Endings(c) :
         /\ codex[c].handle = h
         /\ Finished(c) \/ ending.exit = "none"
         /\ codex' = [codex EXCEPT ![c].form = "over", ![c].handle = NoHandle, ![c].said = @ + 1]
         /\ IF pending[h] = NoCall
            THEN UNCHANGED <<pending, openCells, callExits, events>>
            ELSE /\ pending' = [k \in Handles |-> IF pending[k] = pending[h] THEN NoCall ELSE pending[k]]
                 /\ CommandCompleted(pending[h], "final", Observed(ending), Whole(pending[h], c))
  BY <1>0
<1>2. UNCHANGED <<build, calls, chunks>> /\ h # NoHandle
  BY NamesAssumption DEF PollEnds
<1> DEFINE cy == [codex[c] EXCEPT !.form = "over", !.handle = NoHandle, !.said = @ + 1]
<1>3. /\ codex[c] \in CodexCalls /\ codex[c].said \in Nat
      /\ CallRight(build, codex[c], calls[c], openCells[c], callExits[c])
  BY DEF RolloutInv, RolloutTypeOK, CodexCalls
<1>4. /\ cy \in CodexCalls /\ cy.form = "over" /\ cy.names = codex[c].names
      /\ cy.exits = codex[c].exits /\ cy.handle = NoHandle /\ cy.said = codex[c].said + 1
  <2> DEFINE said == codex[c].said + 1
  <2>1. said \in Nat /\ cy = [codex[c] EXCEPT !.form = "over", !.handle = NoHandle, !.said = said]
    BY <1>3
  <2> HIDE DEF said, cy
  <2>2. /\ cy \in CodexCalls /\ cy.form = "over" /\ cy.names = codex[c].names
        /\ cy.exits = codex[c].exits /\ cy.handle = NoHandle /\ cy.said = said
    BY <1>3, <2>1 DEF CodexCalls, Forms
  <2> QED BY <2>2 DEF said
<1>5. codex' = [codex EXCEPT ![c] = cy]
  BY <1>1
<1> HIDE DEF cy
<1>6. /\ codex' \in [Calls -> CodexCalls] /\ codex'[c] = cy
      /\ \A d \in Calls \ {c} : codex'[d] = codex[d]
  BY <1>4, <1>5 DEF RolloutInv, RolloutTypeOK
<1>7. Live(c)
  BY <1>1, <1>2, <1>3, UnmadeIs DEF CallRight, CodexCalls, Forms, Live
<1>8. pending[h] = NoCall \/ pending[h] = c
  BY <1>1, <1>2 DEF RolloutInv, HandlesRight
<1>9. /\ openCells' \in [Calls -> CellsOpen] /\ callExits' \in [Calls -> Seq(Exits)]
      /\ \A d \in Calls \ {c} : openCells'[d] = openCells[d] /\ callExits'[d] = callExits[d]
  <2>1. CASE pending[h] = NoCall
    BY <1>1, <2>1 DEF RolloutInv, RolloutTypeOK
  <2>2. CASE pending[h] = c
    <3>1. openCells' = [openCells EXCEPT ![c] = NoCell] /\ callExits' = [callExits EXCEPT ![c] = <<>>]
      BY <1>1, <2>2, NamesAssumption DEF CommandCompleted
    <3>2. <<>> \in Seq(Exits)
      OBVIOUS
    <3> QED BY <3>1, <3>2, UnmadeIs DEF RolloutInv, RolloutTypeOK
  <2> QED BY <1>8, <2>1, <2>2
<1>10. /\ pending' \in [Handles -> Calls \cup {NoCall}]
       /\ \A k \in Handles : pending'[k] # NoCall => pending'[k] = pending[k] /\ pending[k] # c
  <2>1. CASE pending[h] = NoCall
    <3>1. \A k \in Handles : pending[k] # c
      BY <1>1, <2>1, NamesAssumption DEF RolloutInv, HandlesRight
    <3> QED BY <1>1, <2>1, <3>1 DEF RolloutInv, RolloutTypeOK
  <2>2. CASE pending[h] = c
    <3>1. pending' = [k \in Handles |-> IF pending[k] = c THEN NoCall ELSE pending[k]]
      BY <1>1, <2>2, NamesAssumption
    <3> QED BY <3>1 DEF RolloutInv, RolloutTypeOK
  <2> QED BY <1>8, <2>1, <2>2
<1>11. RolloutTypeOK'
  BY <1>2, <1>6, <1>9, <1>10 DEF RolloutInv, RolloutTypeOK
<1>12. CallRight(build, cy, calls'[c], openCells'[c], callExits'[c]) /\ CallGoesOn(codex[c], cy)
  <2>1. calls'[c] \in {"none", "command", "codeCell"} /\ openCells'[c] \in CellsOpen /\ callExits'[c] \in Seq(Exits)
    BY <1>2, <1>9 DEF RolloutInv, RolloutTypeOK
  <2> QED BY <1>4, <1>7, <2>1, OverRight
<1>13. \A d \in Calls \ {c} : CallRight(build, codex[d], calls'[d], openCells'[d], callExits'[d])
  BY <1>2, <1>9 DEF RolloutInv
<1>14. HandlesRight'
  <2>1. \A d, e \in Calls : codex'[d].handle = codex'[e].handle /\ codex'[d].handle # NoHandle => d = e
    BY <1>4, <1>6 DEF RolloutInv, HandlesRight
  <2>2. ASSUME NEW k \in Handles, pending'[k] # NoCall
        PROVE  /\ pending'[k] \in Calls
               /\ codex'[pending'[k]].handle = k
               /\ codex'[pending'[k]].form = "cell" => build # "all"
               /\ chunks[pending'[k]] = Pieces(pending'[k], codex'[pending'[k]].said)
    <3>1. pending'[k] = pending[k] /\ pending[k] # c /\ pending[k] # NoCall
      BY <1>10, <2>2
    <3>2. /\ pending[k] \in Calls /\ codex[pending[k]].handle = k
          /\ codex[pending[k]].form = "cell" => build # "all"
          /\ chunks[pending[k]] = Pieces(pending[k], codex[pending[k]].said)
      BY <3>1 DEF RolloutInv, HandlesRight
    <3> QED BY <1>6, <3>1, <3>2
  <2> QED BY <1>2, <2>1, <2>2 DEF HandlesRight
<1>15. ASSUME NEW e \in events'
       PROVE  e \in events \/ EventOwn(e)'
  <2>1. CASE pending[h] = NoCall
    BY <1>1, <2>1
  <2>2. CASE pending[h] = c
    <3> DEFINE code == ExitOf(c, Observed(ending))
               event == [id |-> <<c, "final", 0>>, call |-> c, exit |-> code, body |-> Whole(c, c)]
    <3>1. Tell(event)
      BY <1>1, <2>2, NamesAssumption DEF CommandCompleted
    <3>2. event.call = c /\ event.id[2] = "final" /\ event.exit = code /\ event.body = Whole(c, c)
      OBVIOUS
    <3>3. /\ codex[c].form = "cell" => build # "all"
          /\ chunks[c] = Pieces(c, codex[c].said)
      BY <2>2, NamesAssumption DEF RolloutInv, HandlesRight
    <3>4. code # Unknown => ExitTrue(codex[c], code)
      BY <1>1, <1>7, <3>3, OwnExit
    <3>5. Whole(c, c) = Pieces(c, cy.said)
      BY <1>3, <1>4, <3>3, PiecesGrow DEF Whole, Piece
    <3> HIDE DEF event, code
    <3>6. code # Unknown => ExitTrue(cy, code)
      BY <1>4, <3>4 DEF ExitTrue
    <3>7. CASE e = event
      BY <1>4, <1>6, <3>2, <3>5, <3>6, <3>7, NewEventOwn
    <3> QED BY <3>1, <3>7, ToldEvents
  <2> QED BY <1>8, <2>1, <2>2
<1> QED BY <1>2, <1>4, <1>5, <1>11, <1>12, <1>13, <1>14, <1>15, StepOfCall

LEMMA RolloutInitInv ==
    ASSUME RolloutInit
    PROVE  RolloutInv
<1>1. /\ <<>> \in Seq(Exits) /\ <<>> \in Seq(Calls \X Nat)
  OBVIOUS
<1>2. RolloutTypeOK
  BY <1>1, UnmadeIs DEF RolloutInit, RolloutTypeOK
<1>3. ASSUME NEW c \in Calls
      PROVE  CallRight(build, codex[c], calls[c], openCells[c], callExits[c])
  BY <1>1, UnmadeIs DEF RolloutInit, CallRight
<1>4. HandlesRight
  BY UnmadeIs DEF RolloutInit, HandlesRight
<1> QED BY <1>2, <1>3, <1>4 DEF RolloutInv, RolloutInit

\* What is told of the commands of a rollout, in every reachable state, where
\* a cell that prints results prints those of all its commands.
THEOREM RolloutInvariant ==
    PrintsAll => (RolloutSpec => []RolloutInv)
<1> SUFFICES ASSUME PrintsAll PROVE RolloutSpec => []RolloutInv
  OBVIOUS
<1>1. RolloutInit => RolloutInv
  BY RolloutInitInv
<1>2. RolloutInv /\ [RolloutNext]_rolloutVars => RolloutInv'
  <2> SUFFICES ASSUME RolloutInv, [RolloutNext]_rolloutVars PROVE RolloutInv'
    OBVIOUS
  <2>1. CASE UNCHANGED rolloutVars
    BY <2>1 DEF rolloutVars, RolloutInv, RolloutTypeOK, HandlesRight, EventOwn
  <2>2. CASE RolloutNext
    BY <2>2, FunctionCalledInv, CellCalledInv, EndProcessInv, YieldInv, OutputInv, PollInvR,
       PollSaysRunningInv, PollEndsInv DEF RolloutNext
  <2> QED BY <2>1, <2>2
<1> QED BY <1>1, <1>2, PTL DEF RolloutSpec

LEMMA RolloutInvOwns ==
    ASSUME RolloutInv
    PROVE  CompletionIsItsOwn
BY DEF RolloutInv, CompletionIsItsOwn, EventOwn, ExitTrue, Pieces, Finished
-----------------------------------------------------------------------------
(* Codex: turns, agents and patches                                        *)

RolloutKinds == {"task", "prompt", "end", "started", "interacted", "interrupted", "answer",
                 "patch", "output", "applied"}
RolloutRecords == [kind : RolloutKinds, who : Agents \cup Patches \cup {NoTurnId}, turn : Nat]

\* What is told, as te, of the record i of the rollout ro.
Filed(i, ro, te, ids) ==
    LET r == ro[i] IN
    /\ r.kind = "prompt" =>
         /\ \E e \in te : e.line = i /\ e.id[1] = "start"
         /\ ids /\ r.turn > 0 => \A e \in te : e.line = i => e.id[2] = r.turn
    /\ r.kind = "applied" => \E c, e \in te :
         c.id = <<"call", "patch", r.who>> /\ e.id = <<"result", "patch", r.who>>
    /\ r.kind = "answer" =>
         /\ \E e \in te : e.id = <<"interrupted", "thread", r.who>>
         /\ \A e \in te : e.line = i => e.id[2] = "thread"

TurnsTypeOK ==
    /\ turnIds \in BOOLEAN
    /\ rollout \in Seq(RolloutRecords)
    /\ currentTurnId \in Nat

\* Nothing is told of a line to come; the first message of a turn is told by
\* its turn, and a later one by its line.
StartsAreOfTurns ==
    \A e \in tells :
      /\ e.line \in 1 .. Len(rollout)
      /\ e.id[1] = "start" => \/ e.id[3] \in 1 .. Len(rollout)
                              \/ e.id[3] = 0 /\ e.id[2] \in startedTurns

\* Where turns have ids the last one begun is the current one.
CurrentIsLast == turnIds /\ Begun > 0 => currentTurnId = Begun

\* A patch that waits was told; an agent that started has its thread.
WaitingAreTold ==
    /\ \A p \in patchCalls : \E e \in tells : e.id = <<"call", "patch", p>>
    /\ \A a : Did("started", a) => a \in agentThreadByPath

TurnsInv ==
    TurnsTypeOK /\ StartsAreOfTurns /\ CurrentIsLast /\ WaitingAreTold /\ NothingIsMisfiled

LEMMA MisfiledFiled ==
    NothingIsMisfiled <=> \A i \in DOMAIN rollout : Filed(i, rollout, tells, turnIds)
BY DEF NothingIsMisfiled, Filed, ToldAt

LEMMA MisfiledFiledNext ==
    NothingIsMisfiled' <=> \A i \in DOMAIN rollout' : Filed(i, rollout', tells', turnIds')
BY DEF NothingIsMisfiled, Filed, ToldAt

-----------------------------------------------------------------------------
LEMMA BegunIsNat ==
    ASSUME TurnsTypeOK
    PROVE  /\ IsFiniteSet({i \in DOMAIN rollout : rollout[i].kind = "task"})
           /\ Begun \in Nat
<1>1. IsFiniteSet(1 .. Len(rollout)) /\ DOMAIN rollout = 1 .. Len(rollout)
  BY FS_Interval DEF TurnsTypeOK
<1> QED BY <1>1, FS_Subset, FS_CardinalityType DEF Begun

\* A record more counts one more task exactly if it begins one.
LEMMA BegunCounts ==
    ASSUME TurnsTypeOK, NEW r \in RolloutRecords, rollout' = Append(rollout, r)
    PROVE  Begun' = IF r.kind = "task" THEN Begun + 1 ELSE Begun
<1> DEFINE n == Len(rollout)
           S == {i \in DOMAIN rollout : rollout[i].kind = "task"}
           T == {i \in DOMAIN rollout' : rollout'[i].kind = "task"}
<1>1. n \in Nat /\ DOMAIN rollout = 1 .. n /\ n + 1 \notin S
  BY DEF TurnsTypeOK
<1>2. DOMAIN rollout' = 1 .. n + 1 /\ rollout'[n + 1] = r /\ \A i \in 1 .. n : rollout'[i] = rollout[i]
  BY DEF TurnsTypeOK
<1>3. IsFiniteSet(S) /\ Cardinality(S) \in Nat
  BY BegunIsNat DEF Begun
<1>4. T = IF r.kind = "task" THEN S \cup {n + 1} ELSE S
  <2>1. 1 .. n + 1 = (1 .. n) \cup {n + 1}
    BY <1>1
  <2> HIDE DEF n
  <2> QED BY <1>1, <1>2, <2>1
<1>5. Begun = Cardinality(S) /\ Begun' = Cardinality(T)
  BY DEF Begun
<1>6. Cardinality(S \cup {n + 1}) = Cardinality(S) + 1
  <2> HIDE DEF S
  <2> QED BY <1>1, <1>3, FS_AddElement
<1> HIDE DEF S, T
<1> QED BY <1>3, <1>4, <1>5, <1>6

\* Telling keeps what was told, and of each id told one is in the log.
LEMMA TellAllKeeps ==
    ASSUME NEW E, TellAll(E)
    PROVE  /\ tells \subseteq tells' /\ tells' \subseteq tells \cup E
           /\ \A e \in E : \E d \in tells' : d.id = e.id
           /\ \A e \in E : (\A d \in tells : d.id # e.id) => e \in tells'
BY DEF TellAll

\* What a record does to what was told before it, by the events it is told as.
LEMMA OldStayFiled ==
    ASSUME TurnsInv, NEW r \in RolloutRecords, rollout' = Append(rollout, r),
           turnIds' = turnIds, NEW E, \A e \in E : e.line = Line,
           tells \subseteq tells', tells' \subseteq tells \cup E
    PROVE  /\ rollout' \in Seq(RolloutRecords) /\ Len(rollout') = Line /\ Line \in Nat \ {0}
           /\ rollout'[Line] = r
           /\ \A i \in DOMAIN rollout : Filed(i, rollout', tells', turnIds')
           /\ DOMAIN rollout' = DOMAIN rollout \cup {Line}
           /\ \A e \in tells' : e.line = Line => e \in E
<1>1. /\ rollout' \in Seq(RolloutRecords) /\ Len(rollout') = Line /\ Line \in Nat \ {0}
      /\ rollout'[Line] = r /\ DOMAIN rollout' = DOMAIN rollout \cup {Line}
      /\ \A i \in DOMAIN rollout : rollout'[i] = rollout[i] /\ i # Line
      /\ DOMAIN rollout = 1 .. Len(rollout) /\ Line \notin 1 .. Len(rollout)
  BY DEF TurnsInv, TurnsTypeOK, Line
<1>2. ASSUME NEW i \in DOMAIN rollout
      PROVE  Filed(i, rollout', tells', turnIds')
  <2>1. Filed(i, rollout, tells, turnIds)
    BY <1>2, MisfiledFiled DEF TurnsInv
  <2>2. /\ tells \subseteq tells'
        /\ \A e \in tells' : e.line = i => e \in tells
    BY <1>1
  <2>3. rollout'[i] = rollout[i]
    BY <1>1
  <2> QED BY <2>1, <2>2, <2>3 DEF Filed
<1>3. \A e \in tells' : e.line = Line => e \in E
  BY <1>1 DEF TurnsInv, StartsAreOfTurns
<1> QED BY <1>1, <1>2, <1>3

\* The same, put together with what is told of the record itself.
LEMMA RecordFiled ==
    ASSUME TurnsInv, NEW r \in RolloutRecords, rollout' = Append(rollout, r),
           turnIds' = turnIds, NEW E, \A e \in E : e.line = Line,
           tells \subseteq tells', tells' \subseteq tells \cup E,
           startedTurns \subseteq startedTurns',
           \A e \in E : e.id[1] # "start",
           Filed(Line, rollout', tells', turnIds')
    PROVE  StartsAreOfTurns' /\ NothingIsMisfiled'
<1>1. /\ Len(rollout') = Line /\ Line \in Nat \ {0}
      /\ \A i \in DOMAIN rollout : Filed(i, rollout', tells', turnIds')
      /\ DOMAIN rollout' = DOMAIN rollout \cup {Line}
  BY OldStayFiled
<1>2. NothingIsMisfiled'
  <2>1. \A i \in DOMAIN rollout' : Filed(i, rollout', tells', turnIds')
    BY <1>1
  <2> QED BY <2>1, MisfiledFiledNext
<1>3. StartsAreOfTurns'
  <2>1. 1 .. Len(rollout) \subseteq 1 .. Line /\ Line \in 1 .. Line
    BY DEF TurnsInv, TurnsTypeOK, Line
  <2> QED BY <1>1, <2>1 DEF TurnsInv, StartsAreOfTurns
<1> QED BY <1>2, <1>3

-----------------------------------------------------------------------------
LEMMA TurnsInitInv ==
    ASSUME TurnsInit
    PROVE  TurnsInv
<1>1. DOMAIN rollout = {}
  BY DEF TurnsInit
<1>2. Begun = 0
  <2>1. {i \in DOMAIN rollout : rollout[i].kind = "task"} = {}
    BY <1>1
  <2> QED BY <2>1, FS_EmptySet DEF Begun
<1> QED BY <1>1, <1>2 DEF TurnsInit, TurnsInv, TurnsTypeOK, StartsAreOfTurns, CurrentIsLast,
           WaitingAreTold, NothingIsMisfiled, NoTurnId, Did

LEMMA TaskStartedInv ==
    ASSUME TurnsInv, TaskStarted
    PROVE  TurnsInv'
<1> DEFINE r == [kind |-> "task", who |-> NoTurnId, turn |-> Begun + 1]
<1>1. r \in RolloutRecords /\ rollout' = Append(rollout, r)
  BY BegunIsNat DEF TurnsInv, RolloutRecords, RolloutKinds, TaskStarted
<1>2. rollout' \in Seq(RolloutRecords) /\ rollout'[Line] = r
  BY <1>1, OldStayFiled DEF TaskStarted
<1>3. Filed(Line, rollout', tells', turnIds')
  BY <1>2 DEF Filed
<1>4. StartsAreOfTurns' /\ NothingIsMisfiled'
  <2> DEFINE E == {}
  <2>1. /\ \A e \in E : e.line = Line
        /\ \A e \in E : e.id[1] # "start"
        /\ tells \subseteq tells' /\ tells' \subseteq tells \cup E
        /\ startedTurns \subseteq startedTurns' /\ turnIds' = turnIds
    BY DEF TaskStarted
  <2> HIDE DEF E, r
  <2> QED BY <1>1, <1>3, <2>1, RecordFiled
<1>5. Begun' = Begun + 1 /\ Begun \in Nat
  BY <1>1, BegunCounts, BegunIsNat DEF TurnsInv
<1>6. TurnsTypeOK' /\ CurrentIsLast'
  BY <1>2, <1>5 DEF TurnsInv, TurnsTypeOK, CurrentIsLast, TaskStarted
<1>7. WaitingAreTold'
  <2>1. \A a : Did("started", a)' => Did("started", a)
    BY <1>1 DEF Did, TurnsInv, TurnsTypeOK
  <2> QED BY <2>1 DEF TurnsInv, WaitingAreTold, TaskStarted
<1> QED BY <1>4, <1>6, <1>7 DEF TurnsInv

\* A line written of a kind that begins no task and starts no agent.
LEMMA LineWritten ==
    ASSUME TurnsInv, NEW kind \in RolloutKinds \ {"task"}, NEW who \in Agents \cup Patches \cup {NoTurnId},
           WriteLine(kind, who)
    PROVE  /\ [kind |-> kind, who |-> who, turn |-> Begun] \in RolloutRecords
           /\ rollout' = Append(rollout, [kind |-> kind, who |-> who, turn |-> Begun])
           /\ rollout' \in Seq(RolloutRecords) /\ Len(rollout') = Line /\ Line \in Nat \ {0}
           /\ rollout'[Line] = [kind |-> kind, who |-> who, turn |-> Begun]
           /\ Begun' = Begun /\ Begun \in Nat
           /\ \A a : Did("started", a)' => Did("started", a) \/ (kind = "started" /\ a = who)
<1>1. /\ [kind |-> kind, who |-> who, turn |-> Begun] \in RolloutRecords
      /\ rollout' = Append(rollout, [kind |-> kind, who |-> who, turn |-> Begun])
      /\ Begun \in Nat
  BY BegunIsNat DEF TurnsInv, RolloutRecords, WriteLine
<1>2. Begun' = Begun
  BY <1>1, BegunCounts DEF TurnsInv
<1>3. /\ rollout' \in Seq(RolloutRecords) /\ Len(rollout') = Line /\ Line \in Nat \ {0}
      /\ rollout'[Line] = [kind |-> kind, who |-> who, turn |-> Begun]
      /\ \A i \in DOMAIN rollout' : i # Line => i \in DOMAIN rollout /\ rollout'[i] = rollout[i]
  BY <1>1 DEF TurnsInv, TurnsTypeOK, Line
<1>4. ASSUME NEW a, Did("started", a)'
      PROVE  Did("started", a) \/ (kind = "started" /\ a = who)
  BY <1>3, <1>4 DEF Did
<1> QED BY <1>1, <1>2, <1>3, <1>4

LEMMA UserMessageInv ==
    ASSUME TurnsInv, UserMessage
    PROVE  TurnsInv'
<1> DEFINE owner == IF currentTurnId = NoTurnId THEN OfLine(Line) ELSE currentTurnId
           e == [id |-> StartOf(owner), line |-> Line]
           r == [kind |-> "prompt", who |-> NoTurnId, turn |-> Begun]
<1>1. /\ WriteLine("prompt", NoTurnId) /\ currentTurnId' = owner
      /\ startedTurns' = startedTurns \cup {owner} /\ TellAll({e})
      /\ UNCHANGED <<turnIds, agentThreadByPath, patchCalls>>
  BY DEF UserMessage
<1>2. /\ r \in RolloutRecords /\ rollout' = Append(rollout, r)
      /\ rollout' \in Seq(RolloutRecords) /\ Len(rollout') = Line /\ Line \in Nat \ {0}
      /\ rollout'[Line] = r /\ Begun' = Begun /\ Begun \in Nat
      /\ \A a : Did("started", a)' => Did("started", a)
  <2> DEFINE kind == "prompt"
             who == NoTurnId
  <2>1. /\ kind \in RolloutKinds \ {"task"} /\ who \in Agents \cup Patches \cup {NoTurnId}
        /\ WriteLine(kind, who) /\ kind # "started"
        /\ r = [kind |-> kind, who |-> who, turn |-> Begun]
    BY <1>1 DEF RolloutKinds
  <2> HIDE DEF kind, who, r
  <2> QED BY <2>1, LineWritten
<1>3. tells \subseteq tells' /\ tells' \subseteq tells \cup {e}
      /\ ((\A d \in tells : d.id # e.id) => e \in tells')
  BY <1>1, TellAllKeeps
<1>4. /\ \A i \in DOMAIN rollout : Filed(i, rollout', tells', turnIds')
      /\ DOMAIN rollout' = DOMAIN rollout \cup {Line}
      /\ \A d \in tells' : d.line = Line => d \in {e}
  <2> DEFINE E == {e}
  <2>1. /\ \A d \in E : d.line = Line
        /\ tells \subseteq tells' /\ tells' \subseteq tells \cup E
    BY <1>3
  <2>2. turnIds' = turnIds
    BY <1>1
  <2>3. \A d : d \in E <=> d = e
    OBVIOUS
  <2> HIDE DEF E, e, r
  <2> QED BY <1>2, <2>1, <2>2, <2>3, OldStayFiled
<1>5. owner \in Nat /\ (turnIds /\ Begun > 0 => owner = Begun)
  BY <1>2, TurnsAssumption DEF TurnsInv, TurnsTypeOK, CurrentIsLast, OfLine, NoTurnId
<1>6. /\ e.line = Line /\ e.id[1] = "start" /\ e.id[2] = owner
      /\ e.id[3] = IF owner \in startedTurns THEN Line ELSE 0
  BY DEF StartOf
<1> HIDE DEF owner, e, r
<1>7. e \in tells'
  <2>1. SUFFICES ASSUME NEW d \in tells, d.id = e.id PROVE FALSE
    BY <1>3
  <2>2. d.id[3] \in 1 .. Len(rollout) \/ (d.id[3] = 0 /\ d.id[2] \in startedTurns)
    BY <1>6, <2>1 DEF TurnsInv, StartsAreOfTurns
  <2>3. Line \notin 1 .. Len(rollout) /\ Line # 0
    BY <1>2 DEF Line, TurnsInv, TurnsTypeOK
  <2> QED BY <1>6, <2>1, <2>2, <2>3
<1>8. Filed(Line, rollout', tells', turnIds')
  <2>1. e \in tells' /\ \A d \in tells' : d.line = Line => d = e
    BY <1>4, <1>6, <1>7
  <2>2. r.kind = "prompt" /\ r.turn = Begun
    BY DEF r
  <2> QED BY <1>1, <1>2, <1>5, <1>6, <2>1, <2>2 DEF Filed
<1>9. NothingIsMisfiled'
  <2>1. \A i \in DOMAIN rollout' : Filed(i, rollout', tells', turnIds')
    BY <1>4, <1>8
  <2> QED BY <2>1, MisfiledFiledNext
<1>10. StartsAreOfTurns'
  <2>1. 1 .. Len(rollout) \subseteq 1 .. Line /\ Line \in 1 .. Line
    BY DEF TurnsInv, TurnsTypeOK, Line
  <2>2. ASSUME NEW d \in tells'
        PROVE  /\ d.line \in 1 .. Line
               /\ d.id[1] = "start" => \/ d.id[3] \in 1 .. Line
                                       \/ d.id[3] = 0 /\ d.id[2] \in startedTurns'
    <3>1. CASE d \in tells
      BY <1>1, <2>1, <3>1 DEF TurnsInv, StartsAreOfTurns
    <3>2. CASE d = e
      BY <1>1, <1>6, <2>1, <3>2
    <3> QED BY <1>3, <3>1, <3>2
  <2> QED BY <1>2, <2>2 DEF StartsAreOfTurns
<1>11. TurnsTypeOK' /\ CurrentIsLast'
  BY <1>1, <1>2, <1>5 DEF TurnsInv, TurnsTypeOK, CurrentIsLast
<1>12. WaitingAreTold'
  BY <1>1, <1>2, <1>3 DEF TurnsInv, WaitingAreTold
<1> QED BY <1>9, <1>10, <1>11, <1>12 DEF TurnsInv

\* The other records: of no turn that begins, told as E.
LEMMA OtherLineInv ==
    ASSUME TurnsInv, NEW kind \in RolloutKinds \ {"task"}, NEW who \in Agents \cup Patches \cup {NoTurnId},
           WriteLine(kind, who), UNCHANGED <<turnIds, currentTurnId, startedTurns>>,
           NEW E, \A e \in E : e.line = Line /\ e.id[1] # "start",
           tells \subseteq tells', tells' \subseteq tells \cup E,
           \A p \in patchCalls' : p \in patchCalls \/ \E e \in tells' : e.id = <<"call", "patch", p>>,
           agentThreadByPath \subseteq agentThreadByPath',
           kind = "started" => who \in agentThreadByPath',
           kind # "prompt",
           kind = "applied" => \E c, e \in tells' :
              c.id = <<"call", "patch", who>> /\ e.id = <<"result", "patch", who>>,
           kind = "answer" =>
              /\ \E e \in tells' : e.id = <<"interrupted", "thread", who>>
              /\ \A e \in E : e.id[2] = "thread"
    PROVE  TurnsInv'
<1> DEFINE r == [kind |-> kind, who |-> who, turn |-> Begun]
<1>1. /\ r \in RolloutRecords /\ rollout' = Append(rollout, r)
      /\ rollout' \in Seq(RolloutRecords) /\ Len(rollout') = Line
      /\ rollout'[Line] = r /\ Begun' = Begun /\ Begun \in Nat
      /\ \A a : Did("started", a)' => Did("started", a) \/ (kind = "started" /\ a = who)
  BY LineWritten
<1>2. \A e \in tells' : e.line = Line => e \in E
  BY <1>1, OldStayFiled
<1>3. r.kind = kind /\ r.who = who
  OBVIOUS
<1> HIDE DEF r
<1>4. Filed(Line, rollout', tells', turnIds')
  BY <1>1, <1>2, <1>3 DEF Filed
<1>5. StartsAreOfTurns' /\ NothingIsMisfiled'
  BY <1>1, <1>4, RecordFiled
<1>6. TurnsTypeOK' /\ CurrentIsLast'
  BY <1>1 DEF TurnsInv, TurnsTypeOK, CurrentIsLast
<1>7. WaitingAreTold'
  BY <1>1 DEF TurnsInv, WaitingAreTold
<1> QED BY <1>5, <1>6, <1>7 DEF TurnsInv

LEMMA TaskEndsInv ==
    ASSUME TurnsInv, TaskEnds
    PROVE  TurnsInv'
<1> DEFINE owner == IF turnIds THEN Begun ELSE currentTurnId
           E == {[id |-> <<"end", owner, 0>>, line |-> Line]}
<1>1. \A e \in E : e.line = Line /\ e.id[1] # "start"
  OBVIOUS
<1>2. tells \subseteq tells' /\ tells' \subseteq tells \cup E
  <2>1. CASE owner = NoTurnId
    BY <2>1 DEF TaskEnds
  <2>2. CASE owner # NoTurnId
    BY <2>2, TellAllKeeps DEF TaskEnds
  <2> QED BY <2>1, <2>2
<1> DEFINE kind == "end"
           who == NoTurnId
<1>3. /\ kind \in RolloutKinds \ {"task"} /\ who \in Agents \cup Patches \cup {NoTurnId}
      /\ WriteLine(kind, who) /\ kind \notin {"started", "prompt", "applied", "answer"}
      /\ UNCHANGED <<turnIds, currentTurnId, startedTurns>>
      /\ patchCalls' = patchCalls /\ agentThreadByPath' = agentThreadByPath
  BY DEF TaskEnds, RolloutKinds
<1> HIDE DEF E, kind, who
<1> QED BY <1>1, <1>2, <1>3, OtherLineInv

LEMMA AgentActivityInv ==
    ASSUME TurnsInv, NEW a \in Agents, NEW activity \in {"started", "interacted", "interrupted"},
           AgentActivity(a, activity)
    PROVE  TurnsInv'
<1> DEFINE E == {[id |-> <<activity, "thread", a>>, line |-> Line]}
<1>1. \A e \in E : e.line = Line /\ e.id[1] # "start"
  OBVIOUS
<1>2. tells \subseteq tells' /\ tells' \subseteq tells \cup E
  BY TellAllKeeps DEF AgentActivity
<1> HIDE DEF E
<1> QED BY <1>1, <1>2, OtherLineInv DEF AgentActivity, RolloutKinds

LEMMA FinalAnswerInv ==
    ASSUME TurnsInv, NEW a \in Agents, FinalAnswer(a)
    PROVE  TurnsInv'
<1> DEFINE E == {[id |-> <<"message", "thread", Line>>, line |-> Line],
                 [id |-> <<"interrupted", "thread", a>>, line |-> Line]}
<1>0. Lane(a) = "thread"
  BY DEF FinalAnswer, Lane, TurnsInv, WaitingAreTold
<1>1. \A e \in E : e.line = Line /\ e.id[1] # "start" /\ e.id[2] = "thread"
  OBVIOUS
<1>2. [id |-> <<"interrupted", "thread", a>>, line |-> Line] \in E /\ TellAll(E)
  BY <1>0 DEF FinalAnswer
<1>3. /\ tells \subseteq tells' /\ tells' \subseteq tells \cup E
      /\ \E e \in tells' : e.id = <<"interrupted", "thread", a>>
  <2> HIDE DEF E
  <2> QED BY <1>2, TellAllKeeps
<1> DEFINE kind == "answer"
<1>4. /\ kind \in RolloutKinds \ {"task"} /\ a \in Agents \cup Patches \cup {NoTurnId}
      /\ WriteLine(kind, a) /\ kind \notin {"started", "prompt", "applied"}
      /\ UNCHANGED <<turnIds, currentTurnId, startedTurns>>
      /\ patchCalls' = patchCalls /\ agentThreadByPath' = agentThreadByPath
  BY DEF FinalAnswer, RolloutKinds
<1> HIDE DEF E, kind
<1> QED BY <1>1, <1>3, <1>4, OtherLineInv

LEMMA PatchCalledInv ==
    ASSUME TurnsInv, NEW p \in Patches, PatchCalled(p)
    PROVE  TurnsInv'
<1> DEFINE E == {[id |-> <<"call", "patch", p>>, line |-> Line]}
<1>1. \A e \in E : e.line = Line /\ e.id[1] # "start"
  OBVIOUS
<1>2. [id |-> <<"call", "patch", p>>, line |-> Line] \in E /\ TellAll(E)
  BY DEF PatchCalled
<1>3. /\ tells \subseteq tells' /\ tells' \subseteq tells \cup E
      /\ \E e \in tells' : e.id = <<"call", "patch", p>>
  <2> HIDE DEF E
  <2> QED BY <1>2, TellAllKeeps
<1>4. \A q \in patchCalls' : q \in patchCalls \/ \E e \in tells' : e.id = <<"call", "patch", q>>
  BY <1>3 DEF PatchCalled
<1> HIDE DEF E
<1> QED BY <1>1, <1>3, <1>4, OtherLineInv DEF PatchCalled, RolloutKinds

LEMMA PatchOutputInv ==
    ASSUME TurnsInv, NEW p \in Patches, PatchOutput(p)
    PROVE  TurnsInv'
<1> DEFINE E == {}
           kind == "output"
<1>1. tells \subseteq tells' /\ tells' \subseteq tells \cup E /\ patchCalls' \subseteq patchCalls
  BY DEF PatchOutput
<1>2. \A e \in E : e.line = Line /\ e.id[1] # "start"
  OBVIOUS
<1>3. /\ kind \in RolloutKinds \ {"task"} /\ p \in Agents \cup Patches \cup {NoTurnId}
      /\ WriteLine(kind, p) /\ kind \notin {"started", "prompt", "applied", "answer"}
      /\ UNCHANGED <<turnIds, currentTurnId, startedTurns>>
      /\ agentThreadByPath' = agentThreadByPath
  BY DEF PatchOutput, RolloutKinds
<1> HIDE DEF E, kind
<1> QED BY <1>1, <1>2, <1>3, OtherLineInv

LEMMA PatchAppliedInv ==
    ASSUME TurnsInv, NEW p \in Patches, PatchApplied(p)
    PROVE  TurnsInv'
<1> DEFINE call == [id |-> <<"call", "patch", p>>, line |-> Line]
           result == [id |-> <<"result", "patch", p>>, line |-> Line]
           E == (IF p \in patchCalls THEN {} ELSE {call}) \cup {result}
<1>1. \A e \in E : e.line = Line /\ e.id[1] # "start"
  OBVIOUS
<1>2. result \in E /\ (p \notin patchCalls => call \in E) /\ TellAll(E)
  BY DEF PatchApplied
<1>3. /\ tells \subseteq tells' /\ tells' \subseteq tells \cup E
      /\ \A e \in E : \E d \in tells' : d.id = e.id
  <2> HIDE DEF E
  <2> QED BY <1>2, TellAllKeeps
<1>4. \E e \in tells' : e.id = <<"result", "patch", p>>
  BY <1>2, <1>3
<1>5. \E c \in tells' : c.id = <<"call", "patch", p>>
  <2>1. CASE p \in patchCalls
    BY <1>3, <2>1 DEF TurnsInv, WaitingAreTold
  <2>2. CASE p \notin patchCalls
    BY <1>2, <1>3, <2>2
  <2> QED BY <2>1, <2>2
<1>6. \A q \in patchCalls' : q \in patchCalls
  BY DEF PatchApplied
<1> HIDE DEF E, call, result
<1> QED BY <1>1, <1>3, <1>4, <1>5, <1>6, OtherLineInv DEF PatchApplied, RolloutKinds

\* What is told of a rollout, its turns, agents and patches, in every
\* reachable state.
THEOREM TurnsInvariant ==
    TurnsSpec => []TurnsInv
<1>1. TurnsInit => TurnsInv
  BY TurnsInitInv
<1>2. TurnsInv /\ [TurnsNext]_turnVars => TurnsInv'
  <2> SUFFICES ASSUME TurnsInv, [TurnsNext]_turnVars PROVE TurnsInv'
    OBVIOUS
  <2>1. CASE UNCHANGED turnVars
    <3>1. /\ turnIds' = turnIds /\ rollout' = rollout /\ currentTurnId' = currentTurnId
          /\ startedTurns' = startedTurns /\ agentThreadByPath' = agentThreadByPath
          /\ patchCalls' = patchCalls /\ tells' = tells
      BY <2>1 DEF turnVars
    <3>2. TurnsTypeOK' /\ StartsAreOfTurns'
      BY <3>1 DEF TurnsInv, TurnsTypeOK, StartsAreOfTurns
    <3>3. CurrentIsLast'
      BY <3>1 DEF TurnsInv, CurrentIsLast, Begun
    <3>4. WaitingAreTold'
      <4>1. \A a : Did("started", a)' => Did("started", a)
        BY <3>1 DEF Did
      <4> QED BY <3>1, <4>1 DEF TurnsInv, WaitingAreTold
    <3>5. NothingIsMisfiled'
      BY <3>1, MisfiledFiled, MisfiledFiledNext DEF TurnsInv
    <3> QED BY <3>2, <3>3, <3>4, <3>5 DEF TurnsInv
  <2>2. CASE TurnsNext
    BY <2>2, TaskStartedInv, UserMessageInv, TaskEndsInv, AgentActivityInv, FinalAnswerInv,
       PatchCalledInv, PatchOutputInv, PatchAppliedInv DEF TurnsNext
  <2> QED BY <2>1, <2>2
<1> QED BY <1>1, <1>2, PTL DEF TurnsSpec
-----------------------------------------------------------------------------
(* Sums over a finite set                                                  *)

\* f sums the weights w up, over the subsets of S, one member after another.
SumsUp(f, w, S) ==
    f = [s \in SUBSET S |-> IF s = {} THEN 0
                            ELSE f[s \ {CHOOSE x \in s : TRUE}] + w[CHOOSE x \in s : TRUE]]

\* The sum of the weights w over S is n.
AddsTo(w, S, n) == \E f : SumsUp(f, w, S) /\ f[S] = n

\* A set that is not empty loses one member with the one that is chosen.
LEMMA ChosenLeaves ==
    ASSUME NEW S, IsFiniteSet(S), NEW s \in SUBSET S, s # {}
    PROVE  /\ (CHOOSE x \in s : TRUE) \in s
           /\ s \ {CHOOSE x \in s : TRUE} \in SUBSET S
           /\ Cardinality(s) \in Nat \ {0}
           /\ Cardinality(s \ {CHOOSE x \in s : TRUE}) = Cardinality(s) - 1
<1>1. (CHOOSE x \in s : TRUE) \in s
  OBVIOUS
<1>2. IsFiniteSet(s) /\ Cardinality(s) \in Nat
  BY FS_Subset, FS_CardinalityType
<1>3. Cardinality(s) # 0
  BY <1>2, FS_EmptySet
<1> DEFINE c == CHOOSE x \in s : TRUE
<1>4. c \in s
  BY <1>1
<1> HIDE DEF c
<1>5. Cardinality(s \ {c}) = Cardinality(s) - 1
  BY <1>2, <1>4, FS_RemoveElement
<1> QED BY <1>1, <1>2, <1>3, <1>5 DEF c

\* What holds of the empty set, and of a set when it holds of it without the
\* member that is chosen, holds of every finite set.
LEMMA ByTheChosen ==
    ASSUME NEW S, IsFiniteSet(S), NEW good, {} \in good,
           \A s \in SUBSET S : s # {} /\ s \ {CHOOSE x \in s : TRUE} \in good => s \in good
    PROVE  \A s \in SUBSET S : s \in good
<1> DEFINE n == Cardinality(S)
           P == {k \in 0 .. n : \A s \in SUBSET S : Cardinality(s) = k => s \in good}
<1>1. n \in Nat
  BY FS_CardinalityType
<1>2. \A s \in SUBSET S : IsFiniteSet(s) /\ Cardinality(s) \in 0 .. n
  <2> SUFFICES ASSUME NEW s \in SUBSET S PROVE IsFiniteSet(s) /\ Cardinality(s) \in 0 .. n
    OBVIOUS
  <2>1. IsFiniteSet(s) /\ Cardinality(s) <= n
    BY FS_Subset
  <2>2. Cardinality(s) \in Nat
    BY <2>1, FS_CardinalityType
  <2> QED BY <1>1, <2>1, <2>2
<1>3. 0 \in P
  BY <1>1, <1>2, FS_EmptySet
<1>4. ASSUME NEW k \in 1 .. n, k - 1 \in P
      PROVE  k \in P
  <2> SUFFICES ASSUME NEW s \in SUBSET S, Cardinality(s) = k PROVE s \in good
    BY <1>1
  <2>1. s # {}
    BY FS_EmptySet
  <2>2. /\ s \ {CHOOSE x \in s : TRUE} \in SUBSET S
        /\ Cardinality(s \ {CHOOSE x \in s : TRUE}) = k - 1
    BY <2>1, ChosenLeaves
  <2>3. s \ {CHOOSE x \in s : TRUE} \in good
    BY <1>4, <2>2
  <2> QED BY <2>1, <2>3
<1> HIDE DEF P
<1>5. \A k \in 0 .. n : k \in P
  BY <1>1, <1>3, <1>4, UpToN
<1> QED BY <1>2, <1>5 DEF P

\* Weights that are numbers have a sum.
LEMMA SumExists ==
    ASSUME NEW S, IsFiniteSet(S), NEW w \in [S -> Nat]
    PROVE  \E f \in [SUBSET S -> Nat] : SumsUp(f, w, S)
<1> DEFINE n == Cardinality(S)
           Right(f, s) == f[s] = IF s = {} THEN 0
                                 ELSE f[s \ {CHOOSE x \in s : TRUE}] + w[CHOOSE x \in s : TRUE]
           P == {k \in 0 .. n : \E f \in [SUBSET S -> Nat] :
                                  \A s \in SUBSET S : Cardinality(s) <= k => Right(f, s)}
<1>1. n \in Nat /\ \A s \in SUBSET S : Cardinality(s) \in 0 .. n
  <2>1. n \in Nat
    BY FS_CardinalityType
  <2> SUFFICES ASSUME NEW s \in SUBSET S PROVE Cardinality(s) \in 0 .. n
    BY <2>1
  <2>2. IsFiniteSet(s) /\ Cardinality(s) <= n
    BY FS_Subset
  <2>3. Cardinality(s) \in Nat
    BY <2>2, FS_CardinalityType
  <2> QED BY <2>1, <2>2, <2>3
<1>2. 0 \in P
  <2> DEFINE f == [s \in SUBSET S |-> 0]
  <2>1. f \in [SUBSET S -> Nat]
    OBVIOUS
  <2>2. \A s \in SUBSET S : Cardinality(s) <= 0 => s = {}
    <3> SUFFICES ASSUME NEW s \in SUBSET S, Cardinality(s) <= 0 PROVE s = {}
      OBVIOUS
    <3>1. Cardinality(s) = 0 /\ IsFiniteSet(s)
      BY <1>1, FS_Subset
    <3> QED BY <3>1, FS_EmptySet
  <2>3. \A s \in SUBSET S : Cardinality(s) <= 0 => Right(f, s)
    <3>1. Right(f, {})
      OBVIOUS
    <3> HIDE DEF Right, f
    <3> QED BY <2>2, <3>1
  <2> HIDE DEF Right, f
  <2>4. \E h \in [SUBSET S -> Nat] : \A s \in SUBSET S : Cardinality(s) <= 0 => Right(h, s)
    BY <2>1, <2>3
  <2> QED BY <1>1, <2>4
<1>3. ASSUME NEW k \in 1 .. n, k - 1 \in P
      PROVE  k \in P
  <2>1. PICK f \in [SUBSET S -> Nat] : \A s \in SUBSET S : Cardinality(s) <= k - 1 => Right(f, s)
    BY <1>3
  <2> DEFINE g == [s \in SUBSET S |->
                     IF Cardinality(s) = k
                     THEN f[s \ {CHOOSE x \in s : TRUE}] + w[CHOOSE x \in s : TRUE] ELSE f[s]]
  <2>2. ASSUME NEW s \in SUBSET S, Cardinality(s) = k
        PROVE  /\ s # {} /\ s \ {CHOOSE x \in s : TRUE} \in SUBSET S /\ (CHOOSE x \in s : TRUE) \in S
               /\ Cardinality(s \ {CHOOSE x \in s : TRUE}) = k - 1
    <3>1. s # {}
      <4>1. Cardinality({}) = 0 /\ k # 0
        BY <1>1, FS_EmptySet
      <4> QED BY <2>2, <4>1
    <3> QED BY <2>2, <3>1, ChosenLeaves
  <2>3. g \in [SUBSET S -> Nat]
    <3>1. ASSUME NEW s \in SUBSET S, Cardinality(s) = k
          PROVE  f[s \ {CHOOSE x \in s : TRUE}] + w[CHOOSE x \in s : TRUE] \in Nat
      <4>1. f[s \ {CHOOSE x \in s : TRUE}] \in Nat /\ w[CHOOSE x \in s : TRUE] \in Nat
        BY <2>2, <3>1
      <4> QED BY <4>1
    <3> QED BY <3>1
  <2>4. ASSUME NEW s \in SUBSET S, Cardinality(s) <= k
        PROVE  Right(g, s)
    <3>1. CASE Cardinality(s) = k
      <4>1. s # {} /\ s \ {CHOOSE x \in s : TRUE} \in SUBSET S
            /\ Cardinality(s \ {CHOOSE x \in s : TRUE}) # k
        BY <2>2, <3>1
      <4>2. g[s \ {CHOOSE x \in s : TRUE}] = f[s \ {CHOOSE x \in s : TRUE}]
        BY <4>1
      <4> QED BY <3>1, <4>1, <4>2
    <3>2. CASE Cardinality(s) # k /\ s = {}
      <4>1. Cardinality(s) <= k - 1
        BY <1>1, <2>4, <3>2
      <4>2. Right(f, s)
        BY <2>1, <4>1
      <4> QED BY <3>2, <4>2
    <3>3. CASE Cardinality(s) # k /\ s # {}
      <4>1. Cardinality(s) <= k - 1
        BY <1>1, <2>4, <3>3
      <4>2. Right(f, s)
        BY <2>1, <4>1
      <4>3. s \ {CHOOSE x \in s : TRUE} \in SUBSET S
            /\ Cardinality(s \ {CHOOSE x \in s : TRUE}) = Cardinality(s) - 1
            /\ Cardinality(s) \in Nat
        BY <3>3, ChosenLeaves
      <4>4. Cardinality(s \ {CHOOSE x \in s : TRUE}) # k
        BY <4>1, <4>3
      <4>5. g[s \ {CHOOSE x \in s : TRUE}] = f[s \ {CHOOSE x \in s : TRUE}] /\ g[s] = f[s]
        BY <3>3, <4>3, <4>4
      <4> QED BY <3>3, <4>2, <4>5
    <3> QED BY <3>1, <3>2, <3>3
  <2> HIDE DEF g, Right
  <2>5. \E h \in [SUBSET S -> Nat] : \A s \in SUBSET S : Cardinality(s) <= k => Right(h, s)
    BY <2>3, <2>4
  <2> QED BY <1>1, <2>5
<1> HIDE DEF P
<1>4. n \in P
  <2>1. \A k \in 0 .. n : k \in P
    BY <1>1, <1>2, <1>3, UpToN
  <2> QED BY <1>1, <2>1
<1>5. PICK f \in [SUBSET S -> Nat] : \A s \in SUBSET S : Cardinality(s) <= n => Right(f, s)
  BY <1>4 DEF P
<1>6. \A s \in SUBSET S : Right(f, s)
  <2> HIDE DEF Right
  <2> QED BY <1>1, <1>5
<1>7. SumsUp(f, w, S)
  BY <1>6 DEF SumsUp
<1> QED BY <1>7

\* u is the weights w, but that of r is v.
Reweighed(u, w, r, v) == u = [w EXCEPT ![r] = v]

\* When one weight is another, the sum changes by what it changes by.
LEMMA SumChanges ==
    ASSUME NEW S, IsFiniteSet(S), NEW w \in [S -> Nat], NEW r \in S, NEW v \in Nat,
           NEW f, SumsUp(f, w, S),
           NEW u, Reweighed(u, w, r, v), NEW g, SumsUp(g, u, S)
    PROVE  f[S] \in Nat /\ g[S] \in Nat /\ g[S] = (f[S] + v) - w[r]
<1> DEFINE good == {s \in SUBSET S : /\ f[s] \in Nat /\ g[s] \in Nat
                                  /\ IF r \in s THEN g[s] + w[r] = f[s] + v ELSE g[s] = f[s]}
<1>0. u \in [S -> Nat] /\ u[r] = v /\ \A x \in S : x # r => u[x] = w[x]
  BY DEF Reweighed
<1>1. \A s \in SUBSET S : s # {} =>
        /\ f[s] = f[s \ {CHOOSE x \in s : TRUE}] + w[CHOOSE x \in s : TRUE]
        /\ g[s] = g[s \ {CHOOSE x \in s : TRUE}] + u[CHOOSE x \in s : TRUE]
  <2>1. \A s \in SUBSET S : s # {} =>
          f[s] = f[s \ {CHOOSE x \in s : TRUE}] + w[CHOOSE x \in s : TRUE]
    BY DEF SumsUp
  <2>2. \A s \in SUBSET S : s # {} =>
          g[s] = g[s \ {CHOOSE x \in s : TRUE}] + u[CHOOSE x \in s : TRUE]
    BY DEF SumsUp
  <2> QED BY <2>1, <2>2
<1>2. {} \in good
  <2>1. f[{}] = 0 /\ g[{}] = 0
    BY DEF SumsUp
  <2> QED BY <2>1
<1>3. ASSUME NEW s \in SUBSET S, s # {}, s \ {CHOOSE x \in s : TRUE} \in good
      PROVE  s \in good
  <2> DEFINE c == CHOOSE x \in s : TRUE
  <2>1. c \in s /\ c \in S
    BY <1>3
  <2>2. f[s] = f[s \ {c}] + w[c] /\ g[s] = g[s \ {c}] + u[c]
    BY <1>1, <1>3
  <2>3. s \ {c} \in good
    BY <1>3
  <2> HIDE DEF c
  <2>4. w[c] \in Nat /\ u[c] \in Nat /\ w[r] \in Nat
    BY <1>0, <2>1
  <2>5. CASE c = r
    BY <1>0, <2>1, <2>2, <2>3, <2>4, <2>5
  <2>6. CASE c # r
    <3>1. u[c] = w[c]
      BY <1>0, <2>1, <2>6
    <3>2. r \in s <=> r \in s \ {c}
      BY <2>6
    <3> QED BY <2>2, <2>3, <2>4, <3>1, <3>2
  <2> QED BY <2>5, <2>6
<1> HIDE DEF good
<1>4. S \in good
  BY <1>2, <1>3, ByTheChosen
<1>5. w[r] \in Nat
  OBVIOUS
<1> QED BY <1>4, <1>5 DEF good

\* No weight but 0 sums to 0.
LEMMA NothingSums ==
    ASSUME NEW S, IsFiniteSet(S), NEW w \in [S -> Nat], \A x \in S : w[x] = 0,
           NEW f, SumsUp(f, w, S)
    PROVE  f[S] = 0
<1> DEFINE good == {s \in SUBSET S : f[s] = 0}
<1>2. {} \in good
  BY DEF SumsUp
<1>3. ASSUME NEW s \in SUBSET S, s # {}, s \ {CHOOSE x \in s : TRUE} \in good
      PROVE  s \in good
  <2>1. f[s] = f[s \ {CHOOSE x \in s : TRUE}] + w[CHOOSE x \in s : TRUE]
    BY <1>3 DEF SumsUp
  <2>2. (CHOOSE x \in s : TRUE) \in S
    BY <1>3
  <2> QED BY <1>3, <2>1, <2>2
<1> HIDE DEF good
<1>4. S \in good
  BY <1>2, <1>3, ByTheChosen
<1> QED BY <1>4 DEF good
-----------------------------------------------------------------------------
(* Claude Code: what is told of a transcript                               *)

RecordKinds == {"prompt", "interrupt", "text", "use", "result"}
TranscriptRecords ==
    [kind : RecordKinds, resp : Responses \cup {NoPrompt}, lane : Lanes \cup {Main},
     tokens : Nat, call : Nat, ends : Ends \cup {""}, final : BOOLEAN]

\* The records up to n of a response, and of those the ones of a lane.
Spoken(n) == {i \in 1 .. n : FromAssistant(transcript[i])}
SpokenIn(l, n) == {i \in Spoken(n) : transcript[i].lane = l}
SpokenOf(r, n) == {i \in Spoken(n) : transcript[i].resp = r}

UsageOf(i) == [resp |-> transcript[i].resp, tokens |-> transcript[i].tokens]

\* last is what the last of the records S says of its response.
IsLastOf(S, last) ==
    \/ S = {} /\ last = Unspent
    \/ \E i \in S : (\A j \in S : j <= i) /\ last = UsageOf(i)

\* A record of a response says whose it is and what is spent; a result is of a
\* use before it, and the only one; in a lane the records of a response have
\* none of another between them.
WellWritten ==
    /\ transcript \in Seq(TranscriptRecords)
    /\ \A i \in DOMAIN transcript :
         IF FromAssistant(transcript[i])
         THEN /\ transcript[i].resp \in Responses
              /\ transcript[i].lane = LaneOf[transcript[i].resp]
              /\ transcript[i].tokens > 0
         ELSE transcript[i].resp = NoPrompt
    /\ \A i \in Lines("result") :
         /\ transcript[i].call \in Lines("use") /\ transcript[i].call < i
         /\ transcript[i].ends \in Ends
         /\ \A j \in Lines("result") : transcript[j].call = transcript[i].call => j = i
    /\ \A k \in DOMAIN transcript : \A i, j \in Spoken(k) :
         /\ FromAssistant(transcript[k])
         /\ i < j /\ transcript[i].resp = transcript[k].resp
         /\ transcript[j].lane = transcript[k].lane
         => transcript[j].resp = transcript[k].resp

\* The uses up to n without a result up to n, with their turns.
Unanswered(n) == {c \in Lines("use") : c <= n /\ \A i \in Lines("result") :
                                                  transcript[i].call = c => i > n}
OpenCalls(n) == {[line |-> c, turn |-> TurnOfLine(c)] : c \in Unanswered(n)}

\* What a parser remembers when it has read up to n.
Remembers(p, n) ==
    /\ p = [turn |-> TurnOfLine(n), calls |-> OpenCalls(n), lastUsage |-> p.lastUsage]
    /\ IsLastOf(Spoken(n), p.lastUsage)

\* An event of a prompt, a call, a result or usage has its line in its id.
EventRight(e) ==
    /\ e.id[1] = "usage" => e.id = <<"usage", e.line>>
    /\ e.id[1] = "call" => e.id = <<"call", e.line>>
    /\ e.id[1] = "start" => e.line \in Prompts /\ e.id = <<"start", TurnOfLine(e.line)>>
    /\ e.id[1] = "result" =>
         e.line \in Lines("result") /\ e.id = <<"result", transcript[e.line].call>>

ResultRight(e, i) ==
    /\ e.about.known /\ e.about.turn = TurnOfLine(transcript[i].call)
    /\ e.about.observed # "unknown" <=> transcript[i].ends # "otherwise"

\* What the log tells of the line i.
LineTold(log, i) ==
    /\ i \in Prompts => \E e \in log : e.line = i /\ e.about.turn = TurnOfLine(i)
    /\ i \in Lines("use") => \E e \in log : e.id = <<"call", i>> /\ e.about.turn = TurnOfLine(i)
    /\ i \in Lines("result") =>
         \E e \in log : e.id = <<"result", transcript[i].call>> /\ ResultRight(e, i)
    /\ i \in Spoken(i) => \/ IsLastOf(Spoken(i - 1), UsageOf(i))
                          \/ \E e \in log : e.id = <<"usage", i>>

LogTells(log, h) ==
    /\ \A e \in log : e.line \in 1 .. h /\ EventRight(e)
    /\ \A i \in 1 .. h : LineTold(log, i)

Figures == [resp : Responses \cup {NoPrompt}, tokens : Nat]

\* What the state adds up is, of the lines up to h, what w says of each response.
Accounts(u, w, h) ==
    /\ u = [total |-> u.total, messages |-> u.messages, lastByLane |-> u.lastByLane]
    /\ u.lastByLane \in [Lanes -> Figures]
    /\ AddsTo(w, Responses, u.total)
    /\ u.messages = Cardinality({r \in Responses : w[r] > 0})
    /\ \A l \in Lanes : IsLastOf(SpokenIn(l, h), u.lastByLane[l])
    /\ \A r \in Responses :
         \/ SpokenOf(r, h) = {} /\ w[r] = 0
         \/ \E i \in SpokenOf(r, h) : (\A j \in SpokenOf(r, h) : j <= i) /\ w[r] = transcript[i].tokens

Accounted(u, h) == \E w \in [Responses -> Nat] : Accounts(u, w, h)

\* The log and the state are of the lines up to the last ever read.
TranscriptInv ==
    /\ WellWritten
    /\ offset \in 0 .. Len(transcript)
    /\ Remembers(parser, offset)
    /\ \E h \in offset .. Len(transcript) : LogTells(logged, h) /\ Accounted(usage, h)

-----------------------------------------------------------------------------
LEMMA LastIsOne ==
    ASSUME NEW S \in SUBSET Nat, NEW a, NEW b, IsLastOf(S, a), IsLastOf(S, b)
    PROVE  a = b
<1>1. CASE S = {}
  BY <1>1 DEF IsLastOf
<1>2. CASE S # {}
  <2>1. PICK i \in S : (\A j \in S : j <= i) /\ a = UsageOf(i)
    BY <1>2 DEF IsLastOf
  <2>2. PICK k \in S : (\A j \in S : j <= k) /\ b = UsageOf(k)
    BY <1>2 DEF IsLastOf
  <2>3. i = k
    BY <2>1, <2>2
  <2> QED BY <2>1, <2>2, <2>3
<1> QED BY <1>1, <1>2

\* The last of a set with a greater number is of that number.
LEMMA LastOfMore ==
    ASSUME NEW S \in SUBSET Nat, NEW n \in Nat, \A j \in S : j < n
    PROVE  IsLastOf(S \cup {n}, UsageOf(n))
BY DEF IsLastOf

\* A prompt begins the next turn, and no other record does.
LEMMA TurnsOfLines ==
    ASSUME WellWritten
    PROVE  /\ \A i \in Nat : TurnOfLine(i) \in Nat
           /\ TurnOfLine(0) = 0
           /\ \A i \in DOMAIN transcript :
                TurnOfLine(i) = IF i \in Prompts THEN TurnOfLine(i - 1) + 1 ELSE TurnOfLine(i - 1)
           /\ \A i, j \in Nat : i <= j => TurnOfLine(i) <= TurnOfLine(j)
<1> DEFINE To(i) == {j \in Prompts : j <= i}
<1>0. Prompts \subseteq Nat \ {0} /\ DOMAIN transcript \subseteq Nat \ {0}
  BY DEF Prompts, Lines, WellWritten
<1>1. \A i \in Nat : IsFiniteSet(To(i)) /\ Cardinality(To(i)) \in Nat
  <2> SUFFICES ASSUME NEW i \in Nat PROVE IsFiniteSet(To(i)) /\ Cardinality(To(i)) \in Nat
    OBVIOUS
  <2>1. To(i) \in SUBSET Nat /\ \A j \in To(i) : j <= i
    BY <1>0
  <2> HIDE DEF To
  <2> QED BY <2>1, FS_BoundedSetOfNaturals, FS_CardinalityType
<1>2. To(0) = {}
  <2>1. \A j \in Nat \ {0} : ~(j <= 0)
    OBVIOUS
  <2> QED BY <1>0, <2>1
<1>3. ASSUME NEW i \in DOMAIN transcript
      PROVE  /\ i \in Prompts => To(i) = To(i - 1) \cup {i} /\ i \notin To(i - 1)
             /\ i \notin Prompts => To(i) = To(i - 1)
  <2>1. i \in Nat /\ (\A j \in Nat : j <= i <=> (j <= i - 1 \/ j = i)) /\ ~(i <= i - 1) /\ i <= i
    BY <1>0
  <2>2. \A j \in Prompts : j <= i <=> (j <= i - 1 \/ j = i)
    BY <1>0, <2>1
  <2> QED BY <2>1, <2>2
<1>4. ASSUME NEW i \in Nat, NEW j \in Nat, i <= j
      PROVE  To(i) \subseteq To(j)
  <2>1. \A x \in Nat : x <= i => x <= j
    BY <1>4
  <2>2. \A x \in Prompts : x <= i => x <= j
    BY <1>0, <2>1
  <2> QED BY <2>2
<1>5. \A i : TurnOfLine(i) = Cardinality(To(i))
  BY DEF TurnOfLine
<1> HIDE DEF To
<1>6. TurnOfLine(0) = 0
  BY <1>2, <1>5, FS_EmptySet
<1>7. ASSUME NEW i \in DOMAIN transcript
      PROVE  TurnOfLine(i) = IF i \in Prompts THEN TurnOfLine(i - 1) + 1 ELSE TurnOfLine(i - 1)
  <2>1. i - 1 \in Nat
    BY <1>0
  <2>2. IsFiniteSet(To(i - 1))
    BY <1>1, <2>1
  <2>3. CASE i \in Prompts
    <3>1. Cardinality(To(i - 1) \cup {i}) = Cardinality(To(i - 1)) + 1
      BY <1>3, <2>2, <2>3, FS_AddElement
    <3> QED BY <1>3, <1>5, <2>3, <3>1
  <2>4. CASE i \notin Prompts
    BY <1>3, <1>5, <2>4
  <2> QED BY <2>3, <2>4
<1>8. ASSUME NEW i \in Nat, NEW j \in Nat, i <= j
      PROVE  TurnOfLine(i) <= TurnOfLine(j)
  <2>1. IsFiniteSet(To(j)) /\ To(i) \in SUBSET To(j)
    BY <1>1, <1>4, <1>8
  <2>2. Cardinality(To(i)) <= Cardinality(To(j))
    BY <2>1, FS_Subset
  <2> QED BY <1>5, <2>2
<1> QED BY <1>1, <1>5, <1>6, <1>7, <1>8

LEMMA NextSpoken ==
    ASSUME WellWritten, NEW n \in Nat, n + 1 \in DOMAIN transcript
    PROVE  /\ Spoken(n) \in SUBSET Nat /\ \A j \in Spoken(n) : j <= n
           /\ FromAssistant(transcript[n + 1]) =>
                /\ Spoken(n + 1) = Spoken(n) \cup {n + 1}
                /\ \A l : SpokenIn(l, n + 1) = IF transcript[n + 1].lane = l
                                               THEN SpokenIn(l, n) \cup {n + 1} ELSE SpokenIn(l, n)
                /\ \A r : SpokenOf(r, n + 1) = IF transcript[n + 1].resp = r
                                               THEN SpokenOf(r, n) \cup {n + 1} ELSE SpokenOf(r, n)
           /\ ~FromAssistant(transcript[n + 1]) =>
                /\ Spoken(n + 1) = Spoken(n)
                /\ \A l : SpokenIn(l, n + 1) = SpokenIn(l, n)
                /\ \A r : SpokenOf(r, n + 1) = SpokenOf(r, n)
<1>1. Spoken(n) \in SUBSET Nat /\ \A j \in Spoken(n) : j <= n
  BY DEF Spoken
<1>2. CASE FromAssistant(transcript[n + 1])
  <2>1. Spoken(n + 1) = Spoken(n) \cup {n + 1}
    BY <1>2 DEF Spoken
  <2> QED BY <1>1, <1>2, <2>1 DEF SpokenIn, SpokenOf
<1>3. CASE ~FromAssistant(transcript[n + 1])
  <2>1. Spoken(n + 1) = Spoken(n)
    BY <1>3 DEF Spoken
  <2> QED BY <1>1, <1>3, <2>1 DEF SpokenIn, SpokenOf
<1> QED BY <1>1, <1>2, <1>3

-----------------------------------------------------------------------------
\* The uses that wait are the ones before, without the one of a result, and
\* with a use.
LEMMA NextOpen ==
    ASSUME WellWritten, NEW n \in Nat, n + 1 \in DOMAIN transcript
    PROVE  /\ n + 1 \in Lines("use") =>
                OpenCalls(n + 1) = OpenCalls(n) \cup {[line |-> n + 1, turn |-> TurnOfLine(n + 1)]}
           /\ n + 1 \in Lines("result") =>
                /\ OpenCalls(n + 1) = {c \in OpenCalls(n) : c.line # transcript[n + 1].call}
                /\ transcript[n + 1].call \in Unanswered(n)
           /\ n + 1 \notin Lines("use") /\ n + 1 \notin Lines("result") => OpenCalls(n + 1) = OpenCalls(n)
<1> DEFINE k == n + 1
           b == transcript[k]
<1>0. /\ Lines("use") \subseteq Nat /\ Lines("result") \subseteq Nat
      /\ k \in Lines("use") => k \notin Lines("result")
  BY DEF Lines, WellWritten
<1>1. \A c \in Unanswered(k) : c \in Unanswered(n) \/ c = k
  BY <1>0 DEF Unanswered
<1>2. ASSUME k \in Lines("use")
      PROVE  Unanswered(k) = Unanswered(n) \cup {k}
  <2>1. k \in Unanswered(k)
    <3>1. \A i \in Lines("result") : transcript[i].call = k => i > k
      BY DEF WellWritten
    <3> QED BY <1>0, <1>2, <3>1 DEF Unanswered
  <2>2. \A c \in Unanswered(n) : c \in Unanswered(k)
    BY <1>0, <1>2 DEF Unanswered
  <2> HIDE DEF k
  <2> QED BY <1>1, <2>1, <2>2
<1>3. ASSUME k \in Lines("result")
      PROVE  /\ Unanswered(k) = {c \in Unanswered(n) : c # b.call}
             /\ b.call \in Unanswered(n)
  <2>1. b.call \in Lines("use") /\ b.call < k /\ b.call <= n
    BY <1>0, <1>3 DEF WellWritten
  <2>2. \A j \in Lines("result") : transcript[j].call = b.call => j = k
    BY <1>3 DEF WellWritten
  <2>3. b.call \in Unanswered(n)
    BY <2>1, <2>2 DEF Unanswered
  <2>4. k \notin Unanswered(k) /\ b.call \notin Unanswered(k)
    BY <1>0, <1>3 DEF Unanswered
  <2>5. \A c \in Unanswered(n) : c # b.call => c \in Unanswered(k)
    BY <1>0, <1>3 DEF Unanswered
  <2> HIDE DEF k, b
  <2> QED BY <1>1, <2>3, <2>4, <2>5
<1>4. ASSUME k \notin Lines("use"), k \notin Lines("result")
      PROVE  Unanswered(k) = Unanswered(n)
  <2>1. k \notin Unanswered(k)
    BY <1>4 DEF Unanswered
  <2>2. \A c \in Unanswered(n) : c \in Unanswered(k)
    BY <1>0, <1>4 DEF Unanswered
  <2> HIDE DEF k
  <2> QED BY <1>1, <2>1, <2>2
<1> HIDE DEF b
<1>5. ASSUME k \in Lines("use")
      PROVE  OpenCalls(k) = OpenCalls(n) \cup {[line |-> k, turn |-> TurnOfLine(k)]}
  <2> HIDE DEF k
  <2> QED BY <1>2, <1>5 DEF OpenCalls
<1>6. ASSUME k \in Lines("result")
      PROVE  OpenCalls(k) = {c \in OpenCalls(n) : c.line # b.call}
  <2> HIDE DEF k
  <2> QED BY <1>3, <1>6 DEF OpenCalls
<1>7. ASSUME k \notin Lines("use"), k \notin Lines("result")
      PROVE  OpenCalls(k) = OpenCalls(n)
  BY <1>4, <1>7 DEF OpenCalls
<1> QED BY <1>3, <1>5, <1>6, <1>7 DEF b
-----------------------------------------------------------------------------
EventsOf(line) ==
    LET b == transcript[line] IN
    IF FromAssistant(b) THEN AssistantEvents(line, b) ELSE UserEvents(line, b)

\* A parser that has read up to a line remembers what is to remember of the next.
LEMMA NextRemembered ==
    ASSUME WellWritten, NamesPrompts, NEW n \in Nat, n + 1 \in DOMAIN transcript, Remembers(parser, n)
    PROVE  Remembers(Remembered(n + 1, transcript[n + 1]), n + 1)
<1> DEFINE k == n + 1
           b == transcript[k]
           p == Remembered(k, b)
<1>0. b \in TranscriptRecords /\ k \in Nat /\ n + 1 = k /\ k - 1 = n
  BY DEF WellWritten
<1>1. /\ (b.kind = "prompt" <=> k \in Prompts) /\ (b.kind = "use" <=> k \in Lines("use"))
      /\ (b.kind = "result" <=> k \in Lines("result"))
      /\ (FromAssistant(b) <=> b.kind \in {"text", "use"})
  BY DEF Prompts, Lines, FromAssistant
<1>2. parser = [turn |-> TurnOfLine(n), calls |-> OpenCalls(n), lastUsage |-> parser.lastUsage]
      /\ IsLastOf(Spoken(n), parser.lastUsage)
  BY DEF Remembers
<1>3. TurnOfLine(k) = IF b.kind = "prompt" THEN TurnOfLine(n) + 1 ELSE TurnOfLine(n)
  BY <1>0, <1>1, TurnsOfLines
<1>4. IF FromAssistant(b) THEN Spoken(k) = Spoken(n) \cup {k} ELSE Spoken(k) = Spoken(n)
  BY NextSpoken
<1>5. FromAssistant(b) => IsLastOf(Spoken(k), UsageOf(k))
  <2>1. Spoken(n) \in SUBSET Nat /\ \A j \in Spoken(n) : j < k
    BY DEF Spoken
  <2> QED BY <1>0, <1>4, <2>1, LastOfMore
<1>6. UsageOf(k) = [resp |-> b.resp, tokens |-> b.tokens]
  BY DEF UsageOf
<1>7. CASE b.kind = "prompt"
  <2>1. TurnAt(k) = TurnOfLine(k)
    BY DEF TurnAt, TurnOfLine
  <2>2. p = [parser EXCEPT !.turn = TurnOfLine(k)]
    BY <1>7, <2>1 DEF Remembered
  <2>3. OpenCalls(k) = OpenCalls(n)
    BY <1>1, <1>7, NextOpen
  <2>4. p = [turn |-> TurnOfLine(k), calls |-> OpenCalls(k), lastUsage |-> parser.lastUsage]
    BY <1>2, <2>2, <2>3
  <2>5. IsLastOf(Spoken(k), p.lastUsage)
    BY <1>1, <1>2, <1>4, <1>7, <2>4
  <2> HIDE DEF p, k, b
  <2> QED BY <2>4, <2>5 DEF Remembers, p, k, b
<1>8. CASE b.kind = "use"
  <2>1. p = [parser EXCEPT !.calls = @ \cup {[line |-> k, turn |-> parser.turn]},
                           !.lastUsage = [resp |-> b.resp, tokens |-> b.tokens]]
    BY <1>8 DEF Remembered
  <2>2. OpenCalls(k) = OpenCalls(n) \cup {[line |-> k, turn |-> TurnOfLine(k)]}
    BY <1>1, <1>8, NextOpen
  <2>3. p = [turn |-> TurnOfLine(k), calls |-> OpenCalls(k), lastUsage |-> UsageOf(k)]
    <3>1. parser.turn = TurnOfLine(k) /\ parser.calls = OpenCalls(n)
      BY <1>2, <1>3, <1>8
    <3>2. p = [turn |-> parser.turn, calls |-> parser.calls \cup {[line |-> k, turn |-> parser.turn]},
               lastUsage |-> [resp |-> b.resp, tokens |-> b.tokens]]
      BY <1>2, <2>1
    <3> HIDE DEF p, k, b
    <3> QED BY <1>6, <2>2, <3>1, <3>2
  <2> HIDE DEF p, k, b
  <2> QED BY <1>1, <1>5, <1>8, <2>3 DEF Remembers, p, k, b
<1>9. CASE b.kind = "text"
  <2>1. p = [parser EXCEPT !.lastUsage = [resp |-> b.resp, tokens |-> b.tokens]]
    BY <1>9 DEF Remembered
  <2>2. OpenCalls(k) = OpenCalls(n)
    BY <1>1, <1>9, NextOpen
  <2>3. p = [turn |-> TurnOfLine(k), calls |-> OpenCalls(k), lastUsage |-> UsageOf(k)]
    BY <1>2, <1>3, <1>6, <1>9, <2>1, <2>2
  <2> HIDE DEF p, k, b
  <2> QED BY <1>1, <1>5, <1>9, <2>3 DEF Remembers, p, k, b
<1>10. CASE b.kind = "result"
  <2>1. p = [parser EXCEPT !.calls = {c \in @ : c.line # b.call}]
    BY <1>10 DEF Remembered
  <2>2. OpenCalls(k) = {c \in OpenCalls(n) : c.line # b.call}
    BY <1>1, <1>10, NextOpen
  <2>3. p = [turn |-> TurnOfLine(k), calls |-> OpenCalls(k), lastUsage |-> parser.lastUsage]
    <3>1. parser.turn = TurnOfLine(k) /\ parser.calls = OpenCalls(n)
      BY <1>2, <1>3, <1>10
    <3>2. p = [turn |-> parser.turn, calls |-> {c \in parser.calls : c.line # b.call},
               lastUsage |-> parser.lastUsage]
      BY <1>2, <2>1
    <3> HIDE DEF p, k, b
    <3> QED BY <2>2, <3>1, <3>2
  <2>5. IsLastOf(Spoken(k), p.lastUsage)
    BY <1>1, <1>2, <1>4, <1>10, <2>3
  <2> HIDE DEF p, k, b
  <2> QED BY <2>3, <2>5 DEF Remembers, p, k, b
<1>11. CASE b.kind = "interrupt"
  <2>1. p = parser
    BY <1>11 DEF Remembered
  <2>2. OpenCalls(k) = OpenCalls(n) /\ Spoken(k) = Spoken(n) /\ TurnOfLine(k) = TurnOfLine(n)
    BY <1>1, <1>3, <1>4, <1>11, NextOpen
  <2> HIDE DEF p, k, b
  <2> QED BY <1>2, <2>1, <2>2 DEF Remembers, p, k, b
<1> QED BY <1>0, <1>7, <1>8, <1>9, <1>10, <1>11 DEF TranscriptRecords, RecordKinds

\* What a line is told as.
LEMMA LineEvents ==
    ASSUME WellWritten, NamesPrompts, NEW n \in Nat, n + 1 \in DOMAIN transcript, Remembers(parser, n)
    PROVE  LET k == n + 1
               all == EventsOf(k)
           IN  /\ \A e \in all : e.line = k /\ EventRight(e)
               /\ k \in Prompts => \E e \in all : e.id = <<"start", TurnOfLine(k)>>
                                                  /\ e.about.turn = TurnOfLine(k)
               /\ k \in Lines("use") => \E e \in all : e.id = <<"call", k>>
                                                       /\ e.about.turn = TurnOfLine(k)
               /\ k \in Lines("result") =>
                    \E e \in all : e.id = <<"result", transcript[k].call>> /\ ResultRight(e, k)
               /\ k \in Spoken(k) =>
                    IF parser.lastUsage = UsageOf(k) THEN \A e \in all : e.id[1] # "usage"
                    ELSE \E d \in all : /\ d.id = <<"usage", k>>
                                        /\ d.about = [lane |-> transcript[k].lane,
                                                      resp |-> transcript[k].resp,
                                                      tokens |-> transcript[k].tokens]
                                        /\ \A e \in all : e.id[1] = "usage" => e = d
               /\ k \notin Spoken(k) => \A e \in all : e.id[1] # "usage"
<1> DEFINE k == n + 1
           b == transcript[k]
           all == EventsOf(k)
<1>0. b \in TranscriptRecords /\ k \in Nat /\ n + 1 = k /\ k - 1 = n /\ k \in 1 .. k
      /\ k \in DOMAIN transcript
  BY DEF WellWritten
<1>1. /\ (b.kind = "prompt" <=> k \in Prompts) /\ (b.kind = "use" <=> k \in Lines("use"))
      /\ (b.kind = "result" <=> k \in Lines("result"))
      /\ (FromAssistant(b) <=> b.kind \in {"text", "use"})
      /\ (FromAssistant(b) <=> k \in Spoken(k))
  BY <1>0 DEF Prompts, Lines, FromAssistant, Spoken
<1>2. parser.turn = TurnOfLine(n) /\ parser.calls = OpenCalls(n)
  BY DEF Remembers
<1>3. TurnOfLine(k) = IF b.kind = "prompt" THEN TurnOfLine(n) + 1 ELSE TurnOfLine(n)
  BY <1>0, <1>1, TurnsOfLines
<1>6. UsageOf(k) = [resp |-> b.resp, tokens |-> b.tokens]
  BY DEF UsageOf
<1>7. CASE b.kind = "prompt"
  <2>1. TurnAt(k) = TurnOfLine(k)
    BY DEF TurnAt, TurnOfLine
  <2> DEFINE e == Tells(<<"start", TurnOfLine(k)>>, k, [turn |-> TurnOfLine(k)])
  <2>2. all = {e}
    BY <1>1, <1>7, <2>1 DEF EventsOf, UserEvents
  <2>3. e.line = k /\ e.id = <<"start", TurnOfLine(k)>> /\ e.about.turn = TurnOfLine(k)
    BY DEF Tells
  <2> HIDE DEF e, all, k, b
  <2>4. EventRight(e) /\ e.id[1] # "usage"
    BY <1>1, <1>7, <2>3 DEF EventRight
  <2> QED BY <1>1, <1>7, <2>2, <2>3, <2>4 DEF all, k, b
<1>8. CASE b.kind = "interrupt"
  <2>1. all = {} \/ all = {Tells(<<"end", parser.turn>>, k, [turn |-> parser.turn])}
    BY <1>1, <1>8 DEF EventsOf, UserEvents
  <2>2. \A e \in all : e.line = k /\ e.id = <<"end", parser.turn>>
    BY <2>1 DEF Tells
  <2> HIDE DEF all, k, b
  <2>4. \A e \in all : EventRight(e) /\ e.id[1] # "usage"
    BY <2>2 DEF EventRight
  <2> QED BY <1>1, <1>8, <2>2, <2>4 DEF all, k, b
<1>9. CASE b.kind = "result"
  <2> DEFINE c == CHOOSE c \in parser.calls : c.line = b.call
             e == Tells(<<"result", b.call>>, k,
                        [call |-> b.call, observed |-> EndedAs(b.ends),
                         known |-> \E x \in parser.calls : x.line = b.call,
                         turn |-> IF \E x \in parser.calls : x.line = b.call
                                  THEN c.turn ELSE parser.turn])
  <2>2. all = {e}
    BY <1>1, <1>9 DEF EventsOf, UserEvents
  <2>3. [line |-> b.call, turn |-> TurnOfLine(b.call)] \in OpenCalls(n)
        /\ \A x \in OpenCalls(n) : x.line = b.call => x.turn = TurnOfLine(b.call)
    <3>1. b.call \in Unanswered(n)
      BY <1>1, <1>9, NextOpen
    <3> QED BY <3>1 DEF OpenCalls
  <2>4. c \in parser.calls /\ c.line = b.call /\ \E x \in parser.calls : x.line = b.call
    <3>1. \E x \in parser.calls : x.line = b.call
      BY <1>2, <2>3
    <3> QED BY <3>1
  <2>5. c.turn = TurnOfLine(b.call)
    BY <1>2, <2>3, <2>4
  <2>6. e.line = k /\ e.id = <<"result", b.call>> /\ e.about.turn = TurnOfLine(b.call)
        /\ e.about.known /\ e.about.observed = EndedAs(b.ends)
    BY <2>4, <2>5 DEF Tells
  <2>7. b.ends \in Ends /\ (EndedAs(b.ends) # "unknown" <=> b.ends # "otherwise")
    BY <1>1, <1>9 DEF WellWritten, EndedAs, Ends
  <2> HIDE DEF e, all, k, b, c
  <2>8. EventRight(e) /\ e.id[1] # "usage" /\ ResultRight(e, k)
    BY <1>1, <1>9, <2>6, <2>7 DEF EventRight, ResultRight, b, k
  <2> QED BY <1>1, <1>9, <2>2, <2>6, <2>8 DEF all, k, b
<1>10. CASE FromAssistant(b)
  <2> DEFINE u == Tells(<<"usage", k>>, k, [lane |-> b.lane, resp |-> b.resp, tokens |-> b.tokens])
             m == IF b.kind = "use" THEN Tells(<<"call", k>>, k, [turn |-> parser.turn])
                  ELSE Tells(<<"message", k>>, k, [turn |-> parser.turn])
             t == Tells(<<"end", parser.turn, k>>, k, [turn |-> parser.turn])
             us == UsageEvents(k, b)
             ends == IF b.final /\ b.lane = Main /\ parser.turn # NoPrompt THEN {t} ELSE {}
  <2>1. all = us \cup {m} \cup ends
    BY <1>10 DEF EventsOf, AssistantEvents
  <2>2. IF parser.lastUsage = UsageOf(k) THEN us = {} ELSE us = {u}
    BY <1>6 DEF UsageEvents, RepeatsUsage
  <2>3. /\ u.line = k /\ u.id = <<"usage", k>>
        /\ u.about = [lane |-> b.lane, resp |-> b.resp, tokens |-> b.tokens]
    BY DEF Tells
  <2>4. /\ m.line = k /\ m.about.turn = TurnOfLine(n)
        /\ m.id = IF b.kind = "use" THEN <<"call", k>> ELSE <<"message", k>>
    BY <1>2 DEF Tells
  <2>5. t.line = k /\ t.id = <<"end", parser.turn, k>> /\ ends \subseteq {t}
    BY DEF Tells
  <2> HIDE DEF all, k, b, u, m, t, us, ends
  <2>6. /\ EventRight(u) /\ u.id[1] = "usage" /\ EventRight(m) /\ m.id[1] # "usage"
        /\ EventRight(t) /\ t.id[1] # "usage"
    BY <2>3, <2>4, <2>5 DEF EventRight
  <2>7. \A e \in all : e.line = k /\ EventRight(e) /\ (e.id[1] = "usage" => e = u /\ us = {u})
    BY <2>1, <2>2, <2>3, <2>4, <2>5, <2>6
  <2>8. k \in Lines("use") => \E e \in all : e.id = <<"call", k>> /\ e.about.turn = TurnOfLine(k)
    BY <1>1, <1>3, <2>1, <2>4
  <2>9. IF parser.lastUsage = UsageOf(k) THEN \A e \in all : e.id[1] # "usage"
        ELSE \E d \in all : /\ d.id = <<"usage", k>>
                            /\ d.about = [lane |-> b.lane, resp |-> b.resp, tokens |-> b.tokens]
                            /\ \A e \in all : e.id[1] = "usage" => e = d
    BY <2>1, <2>2, <2>3, <2>7
  <2>10. k \in Spoken(k) /\ k \notin Prompts /\ k \notin Lines("result")
    BY <1>1, <1>10
  <2> QED BY <2>7, <2>8, <2>9, <2>10 DEF all, k, b
<1> QED BY <1>0, <1>1, <1>7, <1>8, <1>9, <1>10 DEF TranscriptRecords, RecordKinds
-----------------------------------------------------------------------------
NewOf(line, log) == {e \in EventsOf(line) : \A d \in log : d.id # e.id}

\* What a log tells of a line, a greater log tells.
LEMMA ToldByMore ==
    ASSUME NEW log, NEW more, log \subseteq more, NEW i, LineTold(log, i)
    PROVE  LineTold(more, i)
BY DEF LineTold

\* A line read again adds nothing to what is told; the line after the last
\* read adds what it is told as.
LEMMA LogGrows ==
    ASSUME WellWritten, NamesPrompts, NEW n \in Nat, n + 1 \in DOMAIN transcript,
           Remembers(parser, n), NEW log, NEW h \in Nat, LogTells(log, h)
    PROVE  /\ n + 1 \in 1 .. h =>
                /\ LogTells(log \cup NewOf(n + 1, log), h)
                /\ \A e \in NewOf(n + 1, log) : e.id[1] # "usage"
           /\ n = h =>
                /\ LogTells(log \cup NewOf(n + 1, log), h + 1)
                /\ \A e \in EventsOf(n + 1) : e.id[1] = "usage" => e \in NewOf(n + 1, log)
<1> DEFINE k == n + 1
           all == EventsOf(k)
           new == NewOf(k, log)
<1>0. /\ k \in Nat /\ k - 1 = n /\ k \in DOMAIN transcript
      /\ new \subseteq all /\ \A e \in all : e \in new \/ \E d \in log : d.id = e.id
  BY DEF NewOf
<1>1. \A e \in all : e.line = k /\ EventRight(e)
  BY LineEvents
<1>2. \A e \in log : e.line \in 1 .. h /\ EventRight(e)
  BY DEF LogTells
<1>3. ASSUME k \in 1 .. h
      PROVE  LogTells(log \cup new, h) /\ \A e \in new : e.id[1] # "usage"
  <2>1. \A e \in log \cup new : e.line \in 1 .. h /\ EventRight(e)
    BY <1>0, <1>1, <1>2, <1>3
  <2>2. \A i \in 1 .. h : LineTold(log \cup new, i)
    BY ToldByMore DEF LogTells
  <2>3. ASSUME NEW e \in new, e.id[1] = "usage"
        PROVE  FALSE
    <3>1. e \in all /\ e.id = <<"usage", k>> /\ \A d \in log : d.id # e.id
      <4>1. e \in all /\ \A d \in log : d.id # e.id
        BY <2>3 DEF NewOf
      <4> QED BY <1>1, <2>3, <4>1 DEF EventRight
    <3>2. k \in Spoken(k) /\ parser.lastUsage # UsageOf(k)
      BY <2>3, <3>1, LineEvents
    <3>3. LineTold(log, k)
      BY <1>3 DEF LogTells
    <3>4. IsLastOf(Spoken(k - 1), UsageOf(k))
      BY <3>1, <3>2, <3>3 DEF LineTold
    <3>5. IsLastOf(Spoken(n), parser.lastUsage) /\ Spoken(n) \in SUBSET Nat
      BY DEF Remembers, Spoken
    <3> QED BY <1>0, <3>2, <3>4, <3>5, LastIsOne
  <2> QED BY <2>1, <2>2, <2>3 DEF LogTells
<1>4. ASSUME n = h
      PROVE  LogTells(log \cup new, h + 1) /\ \A e \in all : e.id[1] = "usage" => e \in new
  <2>0. \A d \in log : d.line \in Nat /\ d.line # k /\ d.line <= n
    BY <1>2, <1>4
  <2>1. ASSUME NEW e \in all, e.id[1] \in {"usage", "call"}
        PROVE  e \in new
    <3>1. e.id[2] = k
      BY <1>1, <2>1 DEF EventRight
    <3>2. \A d \in log : d.id # e.id
      BY <1>2, <2>0, <2>1, <3>1 DEF EventRight
    <3> QED BY <1>0, <3>2
  <2>2. ASSUME NEW e \in all, e.id = <<"start", TurnOfLine(k)>>, k \in Prompts
        PROVE  e \in new
    <3>1. ASSUME NEW d \in log, d.id = e.id
          PROVE  FALSE
      <4>1. d.id = <<"start", TurnOfLine(d.line)>>
        BY <1>2, <2>2, <3>1 DEF EventRight
      <4>2. TurnOfLine(d.line) = TurnOfLine(k)
        BY <2>2, <3>1, <4>1
      <4>3. TurnOfLine(k) = TurnOfLine(n) + 1 /\ TurnOfLine(d.line) <= TurnOfLine(n)
            /\ TurnOfLine(n) \in Nat
        BY <1>0, <2>0, <2>2, TurnsOfLines
      <4> QED BY <4>2, <4>3
    <3> QED BY <1>0, <3>1
  <2>3. ASSUME NEW e \in all, k \in Lines("result"), e.id = <<"result", transcript[k].call>>
        PROVE  e \in new
    <3>1. ASSUME NEW d \in log, d.id = e.id
          PROVE  FALSE
      <4>1. d.line \in Lines("result") /\ d.id = <<"result", transcript[d.line].call>>
        BY <1>2, <2>3, <3>1 DEF EventRight
      <4>2. transcript[d.line].call = transcript[k].call
        BY <2>3, <3>1, <4>1
      <4>3. d.line = k
        BY <2>3, <4>1, <4>2 DEF WellWritten
      <4> QED BY <2>0, <4>3
    <3> QED BY <1>0, <3>1
  <2>4. LineTold(new, k)
    <3>1. k \in Prompts => \E e \in new : e.line = k /\ e.about.turn = TurnOfLine(k)
      BY <1>1, <2>2, LineEvents
    <3>2. k \in Lines("use") => \E e \in new : e.id = <<"call", k>> /\ e.about.turn = TurnOfLine(k)
      <4> SUFFICES ASSUME k \in Lines("use")
                   PROVE  \E e \in new : e.id = <<"call", k>> /\ e.about.turn = TurnOfLine(k)
        OBVIOUS
      <4>1. PICK e \in all : e.id = <<"call", k>> /\ e.about.turn = TurnOfLine(k)
        BY LineEvents
      <4>2. e \in new
        BY <2>1, <4>1
      <4> QED BY <4>1, <4>2
    <3>3. k \in Lines("result") =>
            \E e \in new : e.id = <<"result", transcript[k].call>> /\ ResultRight(e, k)
      <4> SUFFICES ASSUME k \in Lines("result")
                   PROVE  \E e \in new : e.id = <<"result", transcript[k].call>> /\ ResultRight(e, k)
        OBVIOUS
      <4>1. PICK e \in all : e.id = <<"result", transcript[k].call>> /\ ResultRight(e, k)
        BY LineEvents
      <4> QED BY <2>3, <4>1
    <3>4. k \in Spoken(k) => \/ IsLastOf(Spoken(k - 1), UsageOf(k))
                             \/ \E e \in new : e.id = <<"usage", k>>
      <4> SUFFICES ASSUME k \in Spoken(k), ~IsLastOf(Spoken(k - 1), UsageOf(k))
                   PROVE  \E e \in new : e.id = <<"usage", k>>
        OBVIOUS
      <4>1. parser.lastUsage # UsageOf(k)
        BY <1>0 DEF Remembers
      <4>2. PICK e \in all : e.id = <<"usage", k>>
        BY <4>1, LineEvents
      <4> QED BY <2>1, <4>2
    <3> QED BY <3>1, <3>2, <3>3, <3>4 DEF LineTold
  <2>5. \A e \in log \cup new : e.line \in 1 .. (h + 1) /\ EventRight(e)
    BY <1>0, <1>1, <1>2, <1>4
  <2>6. \A i \in 1 .. (h + 1) : LineTold(log \cup new, i)
    <3> SUFFICES ASSUME NEW i \in 1 .. (h + 1) PROVE LineTold(log \cup new, i)
      OBVIOUS
    <3>1. CASE i = k
      BY <2>4, <3>1, ToldByMore
    <3>2. CASE i # k
      <4>1. i \in 1 .. h
        BY <1>4, <3>2
      <4> QED BY <4>1, ToldByMore DEF LogTells
    <3> QED BY <3>1, <3>2
  <2> QED BY <2>1, <2>5, <2>6 DEF LogTells
<1> QED BY <1>3, <1>4
-----------------------------------------------------------------------------
\* A weight that is the same changes nothing: weights have one sum.
LEMMA SumIsOne ==
    ASSUME NEW S, IsFiniteSet(S), NEW w \in [S -> Nat],
           NEW f, SumsUp(f, w, S), NEW g, SumsUp(g, w, S)
    PROVE  f[S] = g[S] /\ f[S] \in Nat
<1>1. CASE S = {}
  <2>1. f[{}] = 0 /\ g[{}] = 0
    BY DEF SumsUp
  <2> QED BY <1>1, <2>1
<1>2. CASE S # {}
  <2>1. PICK r \in S : TRUE
    BY <1>2
  <2>2. [w EXCEPT ![r] = w[r]] = w /\ w[r] \in Nat
    BY <2>1
  <2>3. f[S] \in Nat /\ g[S] \in Nat /\ g[S] = (f[S] + w[r]) - w[r]
    <3>1. Reweighed(w, w, r, w[r])
      BY <2>2 DEF Reweighed
    <3> QED BY <2>1, <2>2, <3>1, SumChanges
  <2> QED BY <2>2, <2>3
<1> QED BY <1>1, <1>2

LEMMA AddsToChanges ==
    ASSUME NEW S, IsFiniteSet(S), NEW w \in [S -> Nat], NEW r \in S, NEW v \in Nat,
           NEW n, AddsTo(w, S, n)
    PROVE  AddsTo([w EXCEPT ![r] = v], S, (n + v) - w[r])
<1>1. PICK f : SumsUp(f, w, S) /\ f[S] = n
  BY DEF AddsTo
<1> DEFINE u == [w EXCEPT ![r] = v]
<1>2. u \in [S -> Nat] /\ u = [w EXCEPT ![r] = v]
  OBVIOUS
<1> HIDE DEF u
<1>3. PICK g \in [SUBSET S -> Nat] : SumsUp(g, u, S)
  BY <1>2, SumExists
<1>4. g[S] = (f[S] + v) - w[r]
  <2>1. Reweighed(u, w, r, v)
    BY <1>2 DEF Reweighed
  <2>2. f[S] \in Nat /\ g[S] \in Nat /\ g[S] = (f[S] + v) - w[r]
    BY <1>1, <1>3, <2>1, SumChanges
  <2> QED BY <2>2
<1> QED BY <1>1, <1>2, <1>3, <1>4 DEF AddsTo

\* What an account says of one more line, of a response that it knows of, or
\* of one that it takes in.
LEMMA AccountGoesOn ==
    ASSUME TranscriptAssumption, WellWritten, NEW h \in Nat, h + 1 \in DOMAIN transcript,
           NEW u, Accounted(u, h)
    PROVE  LET k == h + 1
               b == transcript[k]
           IN  /\ k \notin Spoken(k) => Accounted(u, k)
               /\ k \in Spoken(k) /\ IsLastOf(Spoken(h), UsageOf(k)) => Accounted(u, k)
               /\ k \in Spoken(k) =>
                    Accounted(AddUsage(u, [lane |-> b.lane, resp |-> b.resp, tokens |-> b.tokens]), k)
<1> DEFINE k == h + 1
           b == transcript[k]
           r == b.resp
           l == b.lane
<1>0. /\ b \in TranscriptRecords /\ k \in Nat /\ h + 1 = k /\ h < k /\ k \in 1 .. k
      /\ k \in DOMAIN transcript
      /\ IsFiniteSet(Responses) /\ Responses \subseteq Nat \ {0}
      /\ LaneOf \in [Responses -> Lanes]
  BY DEF WellWritten, TranscriptAssumption
<1>1. PICK w \in [Responses -> Nat] : Accounts(u, w, h)
  BY DEF Accounted
<1>2. FromAssistant(b) <=> k \in Spoken(k)
  BY <1>0 DEF Spoken
<1>3. /\ Spoken(h) \in SUBSET Nat /\ (\A j \in Spoken(h) : j <= h /\ j < k)
      /\ \A x : SpokenOf(x, h) \subseteq Spoken(h) /\ SpokenIn(x, h) \subseteq Spoken(h)
  BY DEF Spoken, SpokenOf, SpokenIn
<1>4. ASSUME k \notin Spoken(k)
      PROVE  Accounted(u, k)
  <2>1. /\ \A x : SpokenIn(x, k) = SpokenIn(x, h)
        /\ \A x : SpokenOf(x, k) = SpokenOf(x, h)
    BY <1>2, <1>4, NextSpoken
  <2>2. Accounts(u, w, k)
    BY <1>1, <2>1 DEF Accounts
  <2> QED BY <2>2 DEF Accounted
<1>5. ASSUME k \in Spoken(k)
      PROVE  /\ r \in Responses /\ l = LaneOf[r] /\ l \in Lanes /\ b.tokens \in Nat /\ b.tokens > 0
             /\ r \in Nat /\ r # NoPrompt
             /\ \A x : SpokenIn(x, k) = IF l = x THEN SpokenIn(x, h) \cup {k} ELSE SpokenIn(x, h)
             /\ \A x : SpokenOf(x, k) = IF r = x THEN SpokenOf(x, h) \cup {k} ELSE SpokenOf(x, h)
  <2>1. r \in Responses /\ l = LaneOf[r] /\ b.tokens > 0
    BY <1>0, <1>2, <1>5 DEF WellWritten
  <2>2. b.tokens \in Nat /\ l \in Lanes /\ r # NoPrompt /\ r \in Nat
    BY <1>0, <2>1 DEF TranscriptRecords, NoPrompt
  <2>3. /\ \A x : SpokenIn(x, k) = IF l = x THEN SpokenIn(x, h) \cup {k} ELSE SpokenIn(x, h)
        /\ \A x : SpokenOf(x, k) = IF r = x THEN SpokenOf(x, h) \cup {k} ELSE SpokenOf(x, h)
    BY <1>2, <1>5, NextSpoken
  <2> QED BY <2>1, <2>2, <2>3
<1>6. UsageOf(k) = [resp |-> r, tokens |-> b.tokens]
  BY DEF UsageOf
\* The record of the next line is the last of its lane, and of its response.
<1>7. ASSUME k \in Spoken(k)
      PROVE  /\ IsLastOf(SpokenIn(l, k), UsageOf(k))
             /\ k \in SpokenOf(r, k) /\ \A j \in SpokenOf(r, k) : j <= k
  <2>1. IsLastOf(SpokenIn(l, h) \cup {k}, UsageOf(k))
    BY <1>0, <1>3, LastOfMore
  <2>2. \A j \in SpokenOf(r, h) \cup {k} : j <= k
    BY <1>0, <1>3
  <2> QED BY <1>5, <1>7, <2>1, <2>2
\* In a lane the records of a response follow one another.
<1>8. ASSUME NEW i \in Spoken(h)
      PROVE  /\ transcript[i].resp \in Responses /\ transcript[i].lane = LaneOf[transcript[i].resp]
             /\ transcript[i].tokens \in Nat /\ transcript[i].tokens > 0
             /\ k \in Spoken(k) /\ transcript[i].lane = l /\ transcript[i].resp # r =>
                  \A j \in SpokenOf(r, h) : i < j
  <2>1. i \in DOMAIN transcript /\ FromAssistant(transcript[i]) /\ i \in Spoken(k) /\ i \in Nat
    BY <1>0 DEF Spoken, WellWritten
  <2>2. /\ transcript[i].resp \in Responses /\ transcript[i].lane = LaneOf[transcript[i].resp]
        /\ transcript[i].tokens > 0 /\ transcript[i] \in TranscriptRecords
    BY <2>1 DEF WellWritten
  <2>3. ASSUME k \in Spoken(k), transcript[i].lane = l, transcript[i].resp # r,
               NEW j \in SpokenOf(r, h)
        PROVE  i < j
    <3>1. j \in Spoken(k) /\ transcript[j].resp = r /\ j \in Nat
      BY <1>0, <1>3 DEF SpokenOf, Spoken
    <3>2. ~(j < i)
      <4>1. \A x, y \in Spoken(k) :
              FromAssistant(b) /\ x < y /\ transcript[x].resp = r /\ transcript[y].lane = l
                => transcript[y].resp = r
        BY <1>0 DEF WellWritten
      <4> HIDE DEF k, b, r, l
      <4> QED BY <1>2, <2>1, <2>3, <3>1, <4>1
    <3>3. i # j
      BY <2>3, <3>1
    <3> QED BY <2>1, <3>1, <3>2, <3>3
  <2> QED BY <2>2, <2>3 DEF TranscriptRecords
<1>9. ASSUME k \in Spoken(k)
      PROVE  LET last == u.lastByLane[l]
             IN  /\ last \in Figures
                 /\ w[r] = IF last.resp = r THEN last.tokens ELSE 0
                 /\ last.resp = r => w[r] > 0
  <2> DEFINE last == u.lastByLane[l]
  <2>1. last \in Figures /\ IsLastOf(SpokenIn(l, h), last)
    BY <1>1, <1>5, <1>9 DEF Accounts
  <2>2. \/ SpokenOf(r, h) = {} /\ w[r] = 0
        \/ \E i \in SpokenOf(r, h) : (\A j \in SpokenOf(r, h) : j <= i) /\ w[r] = transcript[i].tokens
    BY <1>1, <1>5, <1>9 DEF Accounts
  <2>3. SpokenOf(r, h) \subseteq SpokenIn(l, h)
    BY <1>3, <1>5, <1>8, <1>9 DEF SpokenOf, SpokenIn
  <2>4. CASE SpokenIn(l, h) = {}
    <3>1. last = Unspent /\ SpokenOf(r, h) = {}
      BY <2>1, <2>3, <2>4 DEF IsLastOf
    <3>2. last.resp # r /\ w[r] = 0
      BY <1>5, <1>9, <2>2, <3>1 DEF Unspent
    <3> QED BY <2>1, <3>2
  <2>5. CASE SpokenIn(l, h) # {}
    <3>1. PICK i \in SpokenIn(l, h) : (\A j \in SpokenIn(l, h) : j <= i) /\ last = UsageOf(i)
      BY <2>1, <2>5 DEF IsLastOf
    <3>2. i \in Spoken(h) /\ transcript[i].lane = l /\ i \in Nat
      BY <1>3 DEF SpokenIn
    <3>3. last.resp = transcript[i].resp /\ last.tokens = transcript[i].tokens
      BY <3>1 DEF UsageOf
    <3>4. CASE transcript[i].resp = r
      <4>1. i \in SpokenOf(r, h) /\ \A j \in SpokenOf(r, h) : j <= i
        BY <2>3, <3>1, <3>2, <3>4 DEF SpokenOf
      <4>2. PICK m \in SpokenOf(r, h) : (\A j \in SpokenOf(r, h) : j <= m) /\ w[r] = transcript[m].tokens
        BY <2>2, <4>1
      <4>3. m = i
        BY <1>3, <3>2, <4>1, <4>2
      <4> QED BY <1>8, <2>1, <3>2, <3>3, <3>4, <4>2, <4>3
    <3>5. CASE transcript[i].resp # r
      <4>1. SpokenOf(r, h) = {}
        <5>1. ASSUME NEW j \in SpokenOf(r, h) PROVE FALSE
          <6>1. i < j /\ j <= i /\ j \in Nat
            BY <1>3, <1>8, <1>9, <2>3, <3>1, <3>2, <3>5
          <6> QED BY <3>2, <6>1
        <5> QED BY <5>1
      <4>2. w[r] = 0
        BY <2>2, <4>1
      <4> QED BY <2>1, <3>3, <3>5, <4>2
    <3> QED BY <3>4, <3>5
  <2> QED BY <2>4, <2>5
<1>10. ASSUME k \in Spoken(k), IsLastOf(Spoken(h), UsageOf(k))
       PROVE  Accounted(u, k)
  <2>1. UsageOf(k) # Unspent
    BY <1>5, <1>6, <1>10 DEF Unspent
  <2>2. PICK i \in Spoken(h) : (\A j \in Spoken(h) : j <= i) /\ UsageOf(k) = UsageOf(i)
    BY <1>10, <2>1 DEF IsLastOf
  <2>3. transcript[i].resp = r /\ transcript[i].tokens = b.tokens
    BY <2>2 DEF UsageOf
  <2>4. i \in SpokenOf(r, h) /\ i \in SpokenIn(l, h) /\ i \in Nat
    BY <1>3, <1>5, <1>8, <1>10, <2>2, <2>3 DEF SpokenOf, SpokenIn
  <2>5. u.lastByLane[l] = UsageOf(k)
    <3>1. IsLastOf(SpokenIn(l, h), u.lastByLane[l])
      BY <1>1, <1>5, <1>10 DEF Accounts
    <3>2. IsLastOf(SpokenIn(l, h), UsageOf(k)) /\ SpokenIn(l, h) \in SUBSET Nat
      BY <1>3, <2>2, <2>4 DEF IsLastOf
    <3> QED BY <3>1, <3>2, LastIsOne
  <2>6. w[r] = b.tokens
    <3>1. PICK m \in SpokenOf(r, h) : (\A j \in SpokenOf(r, h) : j <= m) /\ w[r] = transcript[m].tokens
      BY <1>1, <1>5, <1>10, <2>4 DEF Accounts
    <3>2. m = i
      BY <1>3, <2>2, <2>4, <3>1
    <3> QED BY <2>3, <3>1, <3>2
  <2>7. \A x \in Lanes : IsLastOf(SpokenIn(x, k), u.lastByLane[x])
    BY <1>1, <1>5, <1>7, <1>10, <2>5 DEF Accounts
  <2>8. \A x \in Responses :
         \/ SpokenOf(x, k) = {} /\ w[x] = 0
         \/ \E j \in SpokenOf(x, k) : (\A m \in SpokenOf(x, k) : m <= j) /\ w[x] = transcript[j].tokens
    <3> SUFFICES ASSUME NEW x \in Responses
                 PROVE \/ SpokenOf(x, k) = {} /\ w[x] = 0
                       \/ \E j \in SpokenOf(x, k) : (\A m \in SpokenOf(x, k) : m <= j)
                                                    /\ w[x] = transcript[j].tokens
      OBVIOUS
    <3>1. CASE x = r
      BY <1>7, <1>10, <2>6, <3>1
    <3>2. CASE x # r
      BY <1>1, <1>5, <1>10, <3>2 DEF Accounts
    <3> QED BY <3>1, <3>2
  <2>9. Accounts(u, w, k)
    <3> HIDE DEF k
    <3> QED BY <1>1, <2>7, <2>8 DEF Accounts
  <2> QED BY <2>9 DEF Accounted
<1>11. ASSUME k \in Spoken(k)
       PROVE  Accounted(AddUsage(u, [lane |-> l, resp |-> r, tokens |-> b.tokens]), k)
  <2> DEFINE last == u.lastByLane[l]
             v == AddUsage(u, [lane |-> l, resp |-> r, tokens |-> b.tokens])
             w2 == [w EXCEPT ![r] = b.tokens]
  <2>1. /\ last \in Figures /\ w[r] = (IF last.resp = r THEN last.tokens ELSE 0)
        /\ last.resp = r => w[r] > 0
    BY <1>9, <1>11
  <2>2. v = [total |-> (u.total + b.tokens) - (IF last.resp = r THEN last.tokens ELSE 0),
             messages |-> IF last.resp = r THEN u.messages ELSE u.messages + 1,
             lastByLane |-> [u.lastByLane EXCEPT ![l] = [resp |-> r, tokens |-> b.tokens]]]
    BY DEF AddUsage
  <2>3. /\ v.total = (u.total + b.tokens) - w[r]
        /\ v.messages = IF last.resp = r THEN u.messages ELSE u.messages + 1
        /\ v.lastByLane = [u.lastByLane EXCEPT ![l] = UsageOf(k)]
        /\ v = [total |-> v.total, messages |-> v.messages, lastByLane |-> v.lastByLane]
    BY <1>6, <2>1, <2>2
  <2> HIDE DEF v
  <2>4. w2 \in [Responses -> Nat] /\ w2[r] = b.tokens /\ \A x \in Responses : x # r => w2[x] = w[x]
    BY <1>5, <1>11
  <2>5. AddsTo(w2, Responses, v.total)
    <3>1. AddsTo(w, Responses, u.total)
      BY <1>1 DEF Accounts
    <3>2. AddsTo([w EXCEPT ![r] = b.tokens], Responses, (u.total + b.tokens) - w[r])
      <4>1. r \in Responses /\ b.tokens \in Nat
        BY <1>5, <1>11
      <4> HIDE DEF r, b
      <4> QED BY <1>0, <3>1, <4>1, AddsToChanges
    <3> QED BY <2>3, <3>2
  <2> HIDE DEF w2
  <2>6. v.messages = Cardinality({x \in Responses : w2[x] > 0})
    <3> DEFINE heard == {x \in Responses : w[x] > 0}
    <3>1. IsFiniteSet(heard) /\ u.messages = Cardinality(heard)
      BY <1>0, <1>1, FS_Subset DEF Accounts
    <3>2. {x \in Responses : w2[x] > 0} = heard \cup {r}
      BY <1>5, <1>11, <2>4
    <3>3. r \in heard <=> last.resp = r
      <4>1. ~(0 > 0)
        OBVIOUS
      <4> QED BY <1>5, <1>11, <2>1, <4>1
    <3> HIDE DEF heard
    <3>4. Cardinality(heard \cup {r}) = IF r \in heard THEN Cardinality(heard) ELSE Cardinality(heard) + 1
      BY <3>1, FS_AddElement
    <3> HIDE DEF last
    <3> QED BY <2>3, <3>1, <3>2, <3>3, <3>4
  <2>7. /\ v.lastByLane \in [Lanes -> Figures] /\ v.lastByLane[l] = UsageOf(k)
        /\ \A x \in Lanes : x # l => v.lastByLane[x] = u.lastByLane[x]
    <3>1. u.lastByLane \in [Lanes -> Figures]
      BY <1>1 DEF Accounts
    <3>2. UsageOf(k) \in Figures
      BY <1>5, <1>6, <1>11 DEF Figures
    <3> HIDE DEF l, k
    <3> QED BY <1>5, <1>11, <2>3, <3>1, <3>2
  <2>8. \A x \in Lanes : IsLastOf(SpokenIn(x, k), v.lastByLane[x])
    BY <1>1, <1>5, <1>7, <1>11, <2>7 DEF Accounts
  <2>9. \A x \in Responses :
         \/ SpokenOf(x, k) = {} /\ w2[x] = 0
         \/ \E j \in SpokenOf(x, k) : (\A m \in SpokenOf(x, k) : m <= j) /\ w2[x] = transcript[j].tokens
    <3> SUFFICES ASSUME NEW x \in Responses
                 PROVE \/ SpokenOf(x, k) = {} /\ w2[x] = 0
                       \/ \E j \in SpokenOf(x, k) : (\A m \in SpokenOf(x, k) : m <= j)
                                                    /\ w2[x] = transcript[j].tokens
      OBVIOUS
    <3>1. CASE x = r
      BY <1>7, <1>11, <2>4, <3>1
    <3>2. CASE x # r
      <4>1. SpokenOf(x, k) = SpokenOf(x, h) /\ w2[x] = w[x]
        BY <1>5, <1>11, <2>4, <3>2
      <4>2. \/ SpokenOf(x, h) = {} /\ w[x] = 0
            \/ \E j \in SpokenOf(x, h) : (\A m \in SpokenOf(x, h) : m <= j) /\ w[x] = transcript[j].tokens
        BY <1>1 DEF Accounts
      <4> HIDE DEF k
      <4> QED BY <4>1, <4>2
    <3> QED BY <3>1, <3>2
  <2>10. Accounts(v, w2, k)
    <3> HIDE DEF k
    <3> QED BY <2>3, <2>5, <2>6, <2>7, <2>8, <2>9 DEF Accounts
  <2>11. Accounted(v, k)
    BY <2>4, <2>10 DEF Accounted
  <2> QED BY <2>11 DEF v
<1> QED BY <1>4, <1>10, <1>11
-----------------------------------------------------------------------------
\* What is said of lines that are written stays as it is when one is written.
LEMMA WrittenStays ==
    ASSUME WellWritten, NEW b, transcript' = Append(transcript, b)
    PROVE  LET n == Len(transcript) IN
           /\ DOMAIN transcript' = DOMAIN transcript \cup {n + 1} /\ n \in Nat
           /\ DOMAIN transcript = 1 .. n /\ transcript'[n + 1] = b
           /\ \A i \in 1 .. n : transcript'[i] = transcript[i]
           /\ \A kind : Lines(kind)' = Lines(kind) \cup (IF b.kind = kind THEN {n + 1} ELSE {})
           /\ \A kind : n + 1 \notin Lines(kind)
<1>1. transcript \in Seq(TranscriptRecords) /\ Len(transcript) \in Nat
  BY DEF WellWritten
<1>2. /\ Len(transcript') = Len(transcript) + 1 /\ transcript'[Len(transcript) + 1] = b
      /\ \A i \in 1 .. Len(transcript) : transcript'[i] = transcript[i]
      /\ DOMAIN transcript' = 1 .. (Len(transcript) + 1) /\ DOMAIN transcript = 1 .. Len(transcript)
  BY <1>1
<1>3. DOMAIN transcript' = DOMAIN transcript \cup {Len(transcript) + 1}
  BY <1>1, <1>2
<1> QED BY <1>1, <1>2, <1>3 DEF Lines
\* What Claude Code may write: a prompt or an interrupt, a block of a response
\* that goes on or begins, or the result of a use that has none.
LEMMA RecordsWritten ==
    ASSUME TranscriptAssumption, WellWritten,
           NEW b \in {WrittenPrompt, WrittenInterrupt} \cup {b \in Blocks : Writable(b)}
                       \cup {b \in Results : ~Answered(b.call)}
    PROVE  /\ b \in TranscriptRecords
           /\ \/ b.kind \in {"prompt", "interrupt"} /\ b.resp = NoPrompt
              \/ /\ b.kind \in {"text", "use"} /\ b.resp \in Responses /\ b.tokens > 0
                 /\ b.lane = LaneOf[b.resp] /\ b.resp # NoPrompt
                 /\ Writable(b)
              \/ /\ b.kind = "result" /\ b.resp = NoPrompt /\ b.call \in Lines("use")
                 /\ b.ends \in Ends /\ ~Answered(b.call)
<1>1. CASE b \in {WrittenPrompt, WrittenInterrupt}
  <2>1. PICK k \in {"prompt", "interrupt"} : b = [Blank EXCEPT !.kind = k]
    BY <1>1 DEF WrittenPrompt, WrittenInterrupt
  <2>2. b = [kind |-> k, resp |-> NoPrompt, lane |-> Main, tokens |-> 0, call |-> 0, ends |-> "",
             final |-> FALSE]
    BY <2>1 DEF Blank
  <2> QED BY <2>2 DEF TranscriptRecords, RecordKinds
<1>2. CASE b \in Blocks /\ Writable(b)
  <2>1. PICK k \in {"text", "use"}, r \in Responses, t \in 1 .. MaxTokens, f \in BOOLEAN :
          b = Block(k, r, t, f)
    BY <1>2 DEF Blocks
  <2>2. b = [kind |-> k, resp |-> r, lane |-> LaneOf[r], tokens |-> t, call |-> 0, ends |-> "",
             final |-> f]
    BY <2>1 DEF Block, Blank
  <2>3. r # 0 /\ t \in Nat /\ t > 0 /\ LaneOf[r] \in Lanes
    BY DEF TranscriptAssumption
  <2> QED BY <1>2, <2>2, <2>3 DEF TranscriptRecords, RecordKinds, NoPrompt
<1>3. CASE b \in Results /\ ~Answered(b.call)
  <2>1. PICK c \in Lines("use"), e \in Ends : b = ResultOf(c, e)
    BY <1>3 DEF Results
  <2>2. b = [kind |-> "result", resp |-> NoPrompt, lane |-> transcript[c].lane, tokens |-> 0,
             call |-> c, ends |-> e, final |-> FALSE]
    BY <2>1 DEF ResultOf, Blank
  <2>3. transcript[c] \in TranscriptRecords /\ c \in Nat
    BY DEF WellWritten, Lines
  <2>4. transcript[c].lane \in Lanes \cup {Main}
    BY <2>3 DEF TranscriptRecords
  <2> QED BY <1>3, <2>2, <2>3, <2>4 DEF TranscriptRecords, RecordKinds, NoPrompt
<1> QED BY <1>1, <1>2, <1>3

LEMMA WrittenWell ==
    ASSUME TranscriptAssumption, WellWritten, WriteRecord
    PROVE  WellWritten'
<1> DEFINE n == Len(transcript)
<1>1. PICK b \in {WrittenPrompt, WrittenInterrupt} \cup {b \in Blocks : Writable(b)}
                   \cup {b \in Results : ~Answered(b.call)} : transcript' = Append(transcript, b)
  BY DEF WriteRecord
<1>2. /\ b \in TranscriptRecords
      /\ \/ b.kind \in {"prompt", "interrupt"} /\ b.resp = NoPrompt
         \/ /\ b.kind \in {"text", "use"} /\ b.resp \in Responses /\ b.tokens > 0
            /\ b.lane = LaneOf[b.resp] /\ b.resp # NoPrompt
            /\ Writable(b)
         \/ /\ b.kind = "result" /\ b.resp = NoPrompt /\ b.call \in Lines("use")
            /\ b.ends \in Ends /\ ~Answered(b.call)
  BY RecordsWritten
<1>3. /\ DOMAIN transcript' = DOMAIN transcript \cup {n + 1} /\ n \in Nat
      /\ DOMAIN transcript = 1 .. n /\ transcript'[n + 1] = b
      /\ \A i \in 1 .. n : transcript'[i] = transcript[i]
      /\ \A kind : Lines(kind)' = Lines(kind) \cup (IF b.kind = kind THEN {n + 1} ELSE {})
      /\ \A kind : n + 1 \notin Lines(kind)
  BY <1>1, WrittenStays
<1>4. \A kind : Lines(kind) \subseteq 1 .. n
  BY <1>3 DEF Lines
<1>5. transcript' \in Seq(TranscriptRecords)
  BY <1>1, <1>2 DEF WellWritten
<1> HIDE DEF n
<1>6. \A i \in DOMAIN transcript' :
         IF FromAssistant(transcript'[i])
         THEN /\ transcript'[i].resp \in Responses
              /\ transcript'[i].lane = LaneOf[transcript'[i].resp]
              /\ transcript'[i].tokens > 0
         ELSE transcript'[i].resp = NoPrompt
  BY <1>2, <1>3 DEF WellWritten, FromAssistant
<1>7. ASSUME NEW i \in Lines("result")'
      PROVE  /\ transcript'[i].call \in Lines("use")' /\ transcript'[i].call < i
             /\ transcript'[i].ends \in Ends
             /\ \A j \in Lines("result")' : transcript'[j].call = transcript'[i].call => j = i
  <2>1. CASE i = n + 1
    <3>1. b.kind = "result" /\ b.call \in Lines("use") /\ b.ends \in Ends /\ ~Answered(b.call)
      BY <1>2, <1>3, <1>4, <1>7, <2>1
    <3>2. b.call < n + 1
      BY <1>3, <1>4, <3>1
    <3>3. ASSUME NEW j \in Lines("result"), transcript'[j].call = b.call
          PROVE  FALSE
      BY <1>3, <1>4, <3>1, <3>3 DEF Answered
    <3>4. \A j \in Lines("result")' : j = n + 1 \/ j \in Lines("result")
      BY <1>3
    <3> QED BY <1>3, <2>1, <3>1, <3>2, <3>3, <3>4
  <2>2. CASE i \in Lines("result")
    <3>1. /\ transcript[i].call \in Lines("use") /\ transcript[i].call < i
          /\ transcript[i].ends \in Ends /\ transcript'[i] = transcript[i]
          /\ \A j \in Lines("result") : transcript[j].call = transcript[i].call => j = i
      BY <1>3, <1>4, <2>2 DEF WellWritten
    <3>2. ASSUME NEW j \in Lines("result")', transcript'[j].call = transcript'[i].call
          PROVE  j = i
      <4>1. CASE j = n + 1
        <5>1. b.kind = "result" /\ ~Answered(b.call)
          BY <1>2, <1>3, <1>4, <3>2, <4>1
        <5>2. b.call = transcript[i].call
          BY <1>3, <3>1, <3>2, <4>1
        <5> QED BY <2>2, <5>1, <5>2 DEF Answered
      <4>2. CASE j \in Lines("result")
        BY <1>3, <1>4, <3>1, <3>2, <4>2
      <4> QED BY <1>3, <3>2, <4>1, <4>2
    <3> QED BY <1>3, <3>1, <3>2
  <2> QED BY <1>3, <1>7, <2>1, <2>2
<1>8. ASSUME NEW k \in DOMAIN transcript', NEW i \in Spoken(k)', NEW j \in Spoken(k)',
             FromAssistant(transcript'[k]), i < j, transcript'[i].resp = transcript'[k].resp,
             transcript'[j].lane = transcript'[k].lane
      PROVE  transcript'[j].resp = transcript'[k].resp
  <2>1. /\ i \in 1 .. k /\ j \in 1 .. k /\ k \in Nat
        /\ FromAssistant(transcript'[i]) /\ FromAssistant(transcript'[j])
    BY <1>3, <1>8 DEF Spoken
  <2>2. CASE k # n + 1
    <3>1. k \in 1 .. n /\ i \in 1 .. n /\ j \in 1 .. n
      BY <1>3, <2>1, <2>2
    <3>2. i \in Spoken(k) /\ j \in Spoken(k)
      BY <1>3, <2>1, <3>1 DEF Spoken
    <3>3. FromAssistant(transcript[k]) /\ transcript[i].resp = transcript[k].resp
          /\ transcript[j].lane = transcript[k].lane
      BY <1>3, <1>8, <3>1
    <3>4. \A x, y \in Spoken(k) :
            FromAssistant(transcript[k]) /\ x < y /\ transcript[x].resp = transcript[k].resp
              /\ transcript[y].lane = transcript[k].lane
            => transcript[y].resp = transcript[k].resp
      BY <1>3, <3>1 DEF WellWritten
    <3>5. transcript[j].resp = transcript[k].resp
      BY <1>8, <3>2, <3>3, <3>4
    <3> QED BY <1>3, <3>1, <3>5
  <2>3. CASE k = n + 1 /\ j = n + 1
    BY <2>3
  <2>4. CASE k = n + 1 /\ j # n + 1
    <3>1. i \in 1 .. n /\ j \in 1 .. n /\ i \in DOMAIN transcript /\ j \in DOMAIN transcript
      BY <1>3, <1>8, <2>1, <2>4
    <3>2. transcript[i].resp = b.resp /\ transcript[j].lane = b.lane /\ FromAssistant(transcript[j])
          /\ FromAssistant(b)
      BY <1>3, <1>8, <2>1, <2>4, <3>1
    <3>3. transcript[j].resp \in Responses /\ transcript[j].resp # NoPrompt
      <4>1. transcript[j].resp \in Responses
        BY <3>1, <3>2 DEF WellWritten
      <4> QED BY <4>1 DEF TranscriptAssumption, NoPrompt
    <3>4. Writable(b)
      BY <1>2, <3>2 DEF FromAssistant
    <3>5. transcript[j].resp # b.resp => i > j
      BY <3>1, <3>2, <3>3, <3>4 DEF Writable
    <3>6. transcript[j].resp = b.resp
      BY <1>8, <2>1, <3>5
    <3> QED BY <1>3, <2>4, <3>1, <3>6
  <2> QED BY <2>2, <2>3, <2>4
<1> QED BY <1>5, <1>6, <1>7, <1>8 DEF WellWritten
-----------------------------------------------------------------------------
LEMMA InitKeepsTranscript ==
    ASSUME TranscriptAssumption, TranscriptInit
    PROVE  TranscriptInv
<1>1. /\ transcript = <<>> /\ offset = 0 /\ parser = FreshParser /\ logged = {}
      /\ usage = [total |-> 0, messages |-> 0, lastByLane |-> [l \in Lanes |-> Unspent]]
  BY DEF TranscriptInit
<1>2. Len(transcript) = 0 /\ DOMAIN transcript = {} /\ transcript \in Seq(TranscriptRecords)
  BY <1>1
<1>3. WellWritten /\ (\A kind : Lines(kind) = {})
  BY <1>2 DEF WellWritten, Lines
<1>4. Spoken(0) = {} /\ Unanswered(0) = {}
  BY <1>3 DEF Spoken, Unanswered
<1>5. Remembers(parser, 0)
  <2>1. TurnOfLine(0) = 0
    BY <1>3, TurnsOfLines
  <2>2. OpenCalls(0) = {}
    BY <1>4 DEF OpenCalls
  <2> QED BY <1>1, <1>4, <2>1, <2>2 DEF Remembers, FreshParser, NoPrompt, IsLastOf
<1>6. LogTells(logged, 0)
  BY <1>1 DEF LogTells
<1>7. Accounted(usage, 0)
  <2>0. IsFiniteSet(Responses)
    BY DEF TranscriptAssumption
  <2> DEFINE w == [r \in Responses |-> 0]
  <2>1. w \in [Responses -> Nat] /\ \A r \in Responses : w[r] = 0
    OBVIOUS
  <2> HIDE DEF w
  <2>2. AddsTo(w, Responses, 0)
    <3>1. PICK f \in [SUBSET Responses -> Nat] : SumsUp(f, w, Responses)
      BY <2>0, <2>1, SumExists
    <3>2. f[Responses] = 0
      BY <2>0, <2>1, <3>1, NothingSums
    <3> QED BY <3>1, <3>2 DEF AddsTo
  <2>3. Cardinality({r \in Responses : w[r] > 0}) = 0
    <3>1. {r \in Responses : w[r] > 0} = {}
      <4>1. ~(0 > 0)
        OBVIOUS
      <4> QED BY <2>1, <4>1
    <3> QED BY <3>1, FS_EmptySet
  <2>4. \A l, r : SpokenIn(l, 0) = {} /\ SpokenOf(r, 0) = {}
    BY <1>4 DEF SpokenIn, SpokenOf
  <2>5. Unspent \in Figures
    BY DEF Unspent, Figures
  <2>6. Accounts(usage, w, 0)
    <3>1. \A l \in Lanes : IsLastOf(SpokenIn(l, 0), usage.lastByLane[l])
      BY <1>1, <2>4 DEF IsLastOf
    <3>2. usage.lastByLane \in [Lanes -> Figures]
      BY <1>1, <2>5
    <3> QED BY <1>1, <2>1, <2>2, <2>3, <2>4, <3>1, <3>2 DEF Accounts
  <2> QED BY <2>1, <2>6 DEF Accounted
<1> QED BY <1>1, <1>2, <1>3, <1>5, <1>6, <1>7 DEF TranscriptInv

LEMMA WriteKeepsTranscript ==
    ASSUME TranscriptAssumption, TranscriptInv, WriteRecord
    PROVE  TranscriptInv'
<1>00. PICK n \in Nat : n = Len(transcript)
  BY DEF TranscriptInv, WellWritten
<1>0. WellWritten /\ offset = n /\ n \in Nat
  BY <1>00 DEF TranscriptInv, WriteRecord
<1>1. PICK h \in offset .. n : LogTells(logged, h) /\ Accounted(usage, h)
  BY <1>00 DEF TranscriptInv
<1>2. h = n
  BY <1>0, <1>1
<1>3. PICK b : transcript' = Append(transcript, b)
  BY DEF WriteRecord
<1>4. /\ DOMAIN transcript' = DOMAIN transcript \cup {n + 1}
      /\ DOMAIN transcript = 1 .. n /\ transcript'[n + 1] = b
      /\ \A i \in 1 .. n : transcript'[i] = transcript[i]
      /\ \A kind : Lines(kind)' = Lines(kind) \cup (IF b.kind = kind THEN {n + 1} ELSE {})
      /\ \A kind : n + 1 \notin Lines(kind)
      /\ Len(transcript') = n + 1
  <2>1. Len(transcript') = n + 1
    BY <1>0, <1>3, <1>00 DEF WellWritten
  <2> QED BY <1>0, <1>3, <1>00, <2>1, WrittenStays
<1>5. offset' = offset /\ parser' = parser /\ logged' = logged /\ usage' = usage
  BY DEF WriteRecord
<1>6. WellWritten'
  BY <1>0, WrittenWell
<1>7. \A kind : Lines(kind) \subseteq 1 .. n
  BY <1>4 DEF Lines
<1>8. ASSUME NEW m \in 0 .. n
      PROVE  /\ Spoken(m)' = Spoken(m) /\ TurnOfLine(m)' = TurnOfLine(m)
             /\ Spoken(m) \subseteq 1 .. n
  <2>1. \A i \in 1 .. m : transcript'[i] = transcript[i]
    BY <1>0, <1>4
  <2>2. Spoken(m)' = Spoken(m)
    BY <2>1 DEF Spoken
  <2>3. {j \in Prompts' : j <= m} = {j \in Prompts : j <= m}
    BY <1>0, <1>4 DEF Prompts
  <2> QED BY <1>0, <2>2, <2>3 DEF TurnOfLine, Spoken
<1>9. \A i \in 1 .. n : UsageOf(i)' = UsageOf(i)
  BY <1>4 DEF UsageOf
<1>10. \A l, r : SpokenIn(l, n)' = SpokenIn(l, n) /\ SpokenOf(r, n)' = SpokenOf(r, n)
  <2>1. Spoken(n)' = Spoken(n) /\ Spoken(n) \subseteq 1 .. n
    BY <1>0, <1>8
  <2> QED BY <1>4, <2>1 DEF SpokenIn, SpokenOf
<1>11. OpenCalls(n)' = OpenCalls(n)
  <2>1. Unanswered(n)' = Unanswered(n)
    <3>1. \A c \in Lines("use")' : c <= n <=> c \in Lines("use")
      BY <1>0, <1>4, <1>7
    <3>2. ASSUME NEW c
          PROVE  (\A i \in Lines("result")' : transcript'[i].call = c => i > n)
                 <=> (\A i \in Lines("result") : transcript[i].call = c => i > n)
      <4>1. \A i \in Lines("result")' : i = n + 1 \/ i \in Lines("result")
        BY <1>4
      <4>2. n + 1 > n
        BY <1>0
      <4> QED BY <1>4, <1>7, <4>1, <4>2
    <3> QED BY <1>0, <1>4, <1>7, <3>1, <3>2 DEF Unanswered
  <2>2. \A c \in Unanswered(n) : TurnOfLine(c)' = TurnOfLine(c)
    BY <1>7, <1>8 DEF Unanswered
  <2> QED BY <2>1, <2>2 DEF OpenCalls
<1>12. Remembers(parser, n)'
  <2>1. Remembers(parser, n)
    BY <1>0 DEF TranscriptInv
  <2>2. TurnOfLine(n)' = TurnOfLine(n) /\ Spoken(n)' = Spoken(n) /\ Spoken(n) \subseteq 1 .. n
    BY <1>0, <1>8
  <2>3. parser = [turn |-> TurnOfLine(n), calls |-> OpenCalls(n), lastUsage |-> parser.lastUsage]
        /\ IsLastOf(Spoken(n), parser.lastUsage)
    BY <2>1 DEF Remembers
  <2>4. IsLastOf(Spoken(n), parser.lastUsage)'
    BY <1>5, <1>9, <2>2, <2>3 DEF IsLastOf
  <2> QED BY <1>5, <1>11, <2>2, <2>3, <2>4 DEF Remembers
<1>13. LogTells(logged, n)'
  <2>1. (\A e \in logged : e.line \in 1 .. n /\ EventRight(e)) /\ \A i \in 1 .. n : LineTold(logged, i)
    BY <1>1, <1>2 DEF LogTells
  <2>2. ASSUME NEW e \in logged
        PROVE  EventRight(e)'
    <3>1. EventRight(e) /\ e.line \in 1 .. n /\ e.line \in 0 .. n
      BY <1>0, <2>1
    <3>2. TurnOfLine(e.line)' = TurnOfLine(e.line) /\ transcript'[e.line] = transcript[e.line]
      BY <1>4, <1>8, <3>1
    <3> QED BY <1>4, <3>1, <3>2 DEF EventRight, Prompts
  <2>3. ASSUME NEW i \in 1 .. n
        PROVE  LineTold(logged, i)'
    <3>1. LineTold(logged, i) /\ i \in 0 .. n /\ i - 1 \in 0 .. n /\ i # n + 1
      BY <1>0, <2>1
    <3>2. /\ TurnOfLine(i)' = TurnOfLine(i) /\ Spoken(i)' = Spoken(i)
          /\ Spoken(i - 1)' = Spoken(i - 1) /\ Spoken(i - 1) \subseteq 1 .. n
          /\ transcript'[i] = transcript[i] /\ UsageOf(i)' = UsageOf(i)
      BY <1>4, <1>8, <1>9, <3>1
    <3>3. \A kind : i \in Lines(kind)' <=> i \in Lines(kind)
      BY <1>4, <3>1
    <3>4. IsLastOf(Spoken(i - 1), UsageOf(i)) => IsLastOf(Spoken(i - 1), UsageOf(i))'
      BY <1>9, <3>2 DEF IsLastOf
    <3>5. ASSUME NEW e, i \in Lines("result"), ResultRight(e, i)
          PROVE  ResultRight(e, i)'
      <4>1. transcript[i].call \in 0 .. n
        BY <1>0, <1>7, <3>5 DEF WellWritten
      <4>2. TurnOfLine(transcript[i].call)' = TurnOfLine(transcript[i].call)
        <5> DEFINE c == transcript[i].call
        <5>1. c \in 0 .. n /\ transcript'[i].call = c
          BY <3>2, <4>1
        <5>2. \A m \in 0 .. n : TurnOfLine(m)' = TurnOfLine(m)
          BY <1>8
        <5> QED BY <5>1, <5>2
      <4> QED BY <3>2, <3>5, <4>2 DEF ResultRight
    <3> QED BY <1>5, <3>1, <3>2, <3>3, <3>4, <3>5 DEF LineTold, Prompts
  <2> QED BY <1>5, <2>1, <2>2, <2>3 DEF LogTells
<1>14. Accounted(usage, n)'
  <2>1. PICK w \in [Responses -> Nat] : Accounts(usage, w, n)
    BY <1>1, <1>2 DEF Accounted
  <2>2. \A l, r : SpokenIn(l, n) \subseteq 1 .. n /\ SpokenOf(r, n) \subseteq 1 .. n
    BY DEF SpokenIn, SpokenOf, Spoken
  <2>3. \A l \in Lanes : IsLastOf(SpokenIn(l, n), usage.lastByLane[l])'
    <3> SUFFICES ASSUME NEW l \in Lanes PROVE IsLastOf(SpokenIn(l, n), usage.lastByLane[l])'
      OBVIOUS
    <3>1. IsLastOf(SpokenIn(l, n), usage.lastByLane[l])
      BY <2>1 DEF Accounts
    <3> QED BY <1>5, <1>9, <1>10, <2>2, <3>1 DEF IsLastOf
  <2>4. \A r \in Responses :
         \/ SpokenOf(r, n)' = {} /\ w[r] = 0
         \/ \E i \in SpokenOf(r, n)' : (\A j \in SpokenOf(r, n)' : j <= i) /\ w[r] = transcript'[i].tokens
    <3> SUFFICES ASSUME NEW r \in Responses
                 PROVE  \/ SpokenOf(r, n)' = {} /\ w[r] = 0
                        \/ \E i \in SpokenOf(r, n)' : (\A j \in SpokenOf(r, n)' : j <= i)
                                                      /\ w[r] = transcript'[i].tokens
      OBVIOUS
    <3>1. \/ SpokenOf(r, n) = {} /\ w[r] = 0
          \/ \E i \in SpokenOf(r, n) : (\A j \in SpokenOf(r, n) : j <= i) /\ w[r] = transcript[i].tokens
      BY <2>1 DEF Accounts
    <3>2. SpokenOf(r, n)' = SpokenOf(r, n) /\ \A i \in SpokenOf(r, n) : transcript'[i] = transcript[i]
      BY <1>4, <1>10, <2>2
    <3> QED BY <3>1, <3>2
  <2>5. Accounts(usage, w, n)'
    BY <1>5, <2>1, <2>3, <2>4 DEF Accounts
  <2> QED BY <2>5 DEF Accounted
<1>15. offset' \in 0 .. Len(transcript') /\ n \in offset' .. Len(transcript') /\ offset' = n
  BY <1>0, <1>4, <1>5
<1> QED BY <1>6, <1>12, <1>13, <1>14, <1>15 DEF TranscriptInv
\* What is said of a log and of an account is said of the same transcript.
LEMMA SameLines ==
    ASSUME transcript' = transcript, NEW log, log = logged', NEW h, LogTells(log, h)
    PROVE  LogTells(logged, h)'
<1>1. (\A i : TurnOfLine(i)' = TurnOfLine(i)) /\ (\A i : Spoken(i)' = Spoken(i))
      /\ (\A i : UsageOf(i)' = UsageOf(i)) /\ (\A kind : Lines(kind)' = Lines(kind))
  BY DEF TurnOfLine, Spoken, UsageOf, Lines, Prompts
<1>2. \A e \in log : e.line \in 1 .. h /\ EventRight(e)'
  <2>1. \A e \in log : e.line \in 1 .. h /\ EventRight(e)
    BY DEF LogTells
  <2> QED BY <1>1, <2>1 DEF EventRight, Prompts
<1>3. ASSUME NEW e, NEW i, ResultRight(e, i)
      PROVE  ResultRight(e, i)'
  BY <1>1, <1>3 DEF ResultRight
<1>4. ASSUME NEW i \in 1 .. h
      PROVE  LineTold(logged, i)'
  <2>1. LineTold(log, i)
    BY DEF LogTells
  <2>2. i \in Prompts' => \E e \in log : e.line = i /\ e.about.turn = TurnOfLine(i)'
    BY <1>1, <2>1 DEF LineTold, Prompts
  <2>3. i \in Lines("use")' => \E e \in log : e.id = <<"call", i>> /\ e.about.turn = TurnOfLine(i)'
    BY <1>1, <2>1 DEF LineTold
  <2>4. i \in Lines("result")' =>
          \E e \in log : e.id = <<"result", transcript'[i].call>> /\ ResultRight(e, i)'
    BY <1>1, <1>3, <2>1 DEF LineTold
  <2>5. i \in Spoken(i)' => \/ IsLastOf(Spoken(i - 1), UsageOf(i))'
                            \/ \E e \in log : e.id = <<"usage", i>>
    BY <1>1, <2>1 DEF LineTold, IsLastOf
  <2> QED BY <2>2, <2>3, <2>4, <2>5 DEF LineTold
<1> QED BY <1>2, <1>4 DEF LogTells

LEMMA SameAccount ==
    ASSUME transcript' = transcript, NEW u, u = usage', NEW h, Accounted(u, h)
    PROVE  Accounted(usage, h)'
<1>1. (\A i : Spoken(i)' = Spoken(i)) /\ (\A i : UsageOf(i)' = UsageOf(i))
  BY DEF Spoken, UsageOf
<1>2. \A l, i : SpokenIn(l, i)' = SpokenIn(l, i) /\ SpokenOf(l, i)' = SpokenOf(l, i)
  BY <1>1 DEF SpokenIn, SpokenOf
<1>3. PICK w \in [Responses -> Nat] : Accounts(u, w, h)
  BY DEF Accounted
<1>4. ASSUME NEW l \in Lanes
      PROVE  IsLastOf(SpokenIn(l, h), usage.lastByLane[l])'
  <2>1. IsLastOf(SpokenIn(l, h), u.lastByLane[l])
    BY <1>3 DEF Accounts
  <2> QED BY <1>1, <1>2, <2>1 DEF IsLastOf
<1>5. Accounts(usage, w, h)'
  BY <1>2, <1>3, <1>4 DEF Accounts
<1> QED BY <1>5 DEF Accounted

LEMMA ParseKeepsTranscript ==
    ASSUME TranscriptAssumption, NamesPrompts, TranscriptInv, ParseRecord
    PROVE  TranscriptInv'
<1>0. /\ WellWritten /\ offset \in Nat /\ offset < Len(transcript) /\ Remembers(parser, offset)
      /\ Len(transcript) \in Nat
  BY DEF TranscriptInv, ParseRecord, WellWritten
<1>00. PICK n \in Nat : n = offset
  BY <1>0
<1>1. PICK h \in n .. Len(transcript) : LogTells(logged, h) /\ Accounted(usage, h)
  BY <1>00 DEF TranscriptInv
<1>2. n + 1 \in DOMAIN transcript /\ h \in Nat /\ Remembers(parser, n) /\ n + 1 \in 0 .. Len(transcript)
  BY <1>0, <1>00, <1>1 DEF WellWritten
<1> DEFINE b == transcript[n + 1]
           new == NewOf(n + 1, logged)
           told == {e \in new : e.id[1] = "usage"}
           about == [lane |-> b.lane, resp |-> b.resp, tokens |-> b.tokens]
<1>3. /\ offset' = n + 1
      /\ parser' = Remembered(n + 1, b)
      /\ logged' = logged \cup new
      /\ usage' = IF told = {} THEN usage ELSE AddUsage(usage, (CHOOSE e \in told : TRUE).about)
      /\ transcript' = transcript
  BY <1>00 DEF ParseRecord, NewOf, EventsOf
<1>4. Remembers(Remembered(n + 1, b), n + 1)
  BY <1>0, <1>2, NextRemembered
<1>5. PICK h2 \in (n + 1) .. Len(transcript) :
         LogTells(logged \cup new, h2)
         /\ Accounted(IF told = {} THEN usage ELSE AddUsage(usage, (CHOOSE e \in told : TRUE).about), h2)
  <2>1. CASE n + 1 \in 1 .. h
    <3>1. LogTells(logged \cup new, h) /\ \A e \in new : e.id[1] # "usage"
      BY <1>0, <1>1, <1>2, <2>1, LogGrows
    <3>2. told = {} /\ h \in (n + 1) .. Len(transcript)
      BY <1>1, <2>1, <3>1
    <3> QED BY <1>1, <3>1, <3>2
  <2>2. CASE n = h
    <3>1. /\ LogTells(logged \cup new, h + 1)
          /\ \A e \in EventsOf(n + 1) : e.id[1] = "usage" => e \in new
      BY <1>0, <1>1, <1>2, <2>2, LogGrows
    <3>2. n + 1 \in (n + 1) .. Len(transcript)
      BY <1>2
    <3>3. new \subseteq EventsOf(n + 1)
      BY DEF NewOf
    <3>4. CASE n + 1 \notin Spoken(n + 1)
      <4>1. \A e \in EventsOf(n + 1) : e.id[1] # "usage"
        BY <1>0, <1>2, <3>4, LineEvents
      <4>2. told = {}
        BY <3>3, <4>1
      <4>3. Accounted(usage, n + 1)
        BY <1>0, <1>1, <1>2, <2>2, <3>4, AccountGoesOn
      <4> QED BY <2>2, <3>1, <3>2, <4>2, <4>3
    <3>5. CASE n + 1 \in Spoken(n + 1) /\ parser.lastUsage = UsageOf(n + 1)
      <4>1. \A e \in EventsOf(n + 1) : e.id[1] # "usage"
        BY <1>0, <1>2, <3>5, LineEvents
      <4>2. told = {}
        BY <3>3, <4>1
      <4>3. IsLastOf(Spoken(n), UsageOf(n + 1))
        BY <1>2, <3>5 DEF Remembers
      <4>4. Accounted(usage, n + 1)
        BY <1>0, <1>1, <1>2, <2>2, <3>5, <4>3, AccountGoesOn
      <4> QED BY <2>2, <3>1, <3>2, <4>2, <4>4
    <3>6. CASE n + 1 \in Spoken(n + 1) /\ parser.lastUsage # UsageOf(n + 1)
      <4>1. PICK d \in EventsOf(n + 1) :
               /\ d.id = <<"usage", n + 1>> /\ d.about = about
               /\ \A e \in EventsOf(n + 1) : e.id[1] = "usage" => e = d
        BY <1>0, <1>2, <3>6, LineEvents
      <4>2. told = {d}
        BY <3>1, <3>3, <4>1
      <4>3. (CHOOSE e \in told : TRUE).about = about /\ told # {}
        <5>1. (CHOOSE e \in told : TRUE) \in told
          BY <4>2
        <5> HIDE DEF told
        <5> QED BY <4>1, <4>2, <5>1
      <4>4. Accounted(AddUsage(usage, about), n + 1)
        BY <1>0, <1>1, <1>2, <2>2, <3>6, AccountGoesOn
      <4> HIDE DEF told, about
      <4> QED BY <2>2, <3>1, <3>2, <4>3, <4>4
    <3> QED BY <3>4, <3>5, <3>6
  <2> HIDE DEF b, new, told, about
  <2>3. n + 1 \in 1 .. h \/ n = h
    BY <1>1, <1>2
  <2> QED BY <2>1, <2>2, <2>3
<1> HIDE DEF b, new, told, about
<1>6. /\ WellWritten' /\ Remembers(parser, offset)'
      /\ LogTells(logged, h2)' /\ Accounted(usage, h2)'
  <2>1. WellWritten' /\ (\A i : TurnOfLine(i)' = TurnOfLine(i)) /\ (\A i : Spoken(i)' = Spoken(i))
        /\ (\A i : UsageOf(i)' = UsageOf(i)) /\ (\A kind : Lines(kind)' = Lines(kind))
    BY <1>0, <1>3 DEF WellWritten, TurnOfLine, Spoken, UsageOf, Lines, Prompts
  <2>2. \A i : OpenCalls(i)' = OpenCalls(i)
    BY <1>3, <2>1 DEF OpenCalls, Unanswered
  <2>3. Remembers(parser, offset)'
    BY <1>3, <1>4, <2>1, <2>2 DEF Remembers, IsLastOf
  <2>4. LogTells(logged, h2)'
    BY <1>3, <1>5, SameLines
  <2>5. Accounted(usage, h2)'
    BY <1>3, <1>5, SameAccount
  <2> QED BY <2>1, <2>3, <2>4, <2>5
<1>7. offset' \in 0 .. Len(transcript') /\ h2 \in offset' .. Len(transcript')
  BY <1>0, <1>2, <1>3, <1>5
<1> QED BY <1>6, <1>7 DEF TranscriptInv

LEMMA RereadKeepsTranscript ==
    ASSUME TranscriptAssumption, ~ResumesMidFile, TranscriptInv, Reread
    PROVE  TranscriptInv'
<1>1. /\ parser' = FreshParser /\ offset' = 0
      /\ transcript' = transcript /\ logged' = logged /\ usage' = usage
  BY DEF Reread
<1>2. WellWritten /\ offset \in 0 .. Len(transcript) /\ Len(transcript) \in Nat
  BY DEF TranscriptInv, WellWritten
<1>3. PICK h \in offset .. Len(transcript) : LogTells(logged, h) /\ Accounted(usage, h)
  BY DEF TranscriptInv
<1>4. WellWritten' /\ (\A i : TurnOfLine(i)' = TurnOfLine(i)) /\ (\A i : Spoken(i)' = Spoken(i))
      /\ (\A i : UsageOf(i)' = UsageOf(i)) /\ (\A kind : Lines(kind)' = Lines(kind))
  BY <1>1, <1>2 DEF WellWritten, TurnOfLine, Spoken, UsageOf, Lines, Prompts
<1>5. Remembers(parser, offset)'
  <2>1. TurnOfLine(0) = 0
    BY <1>2, TurnsOfLines
  <2>2. Spoken(0) = {}
    BY DEF Spoken
  <2>3. Unanswered(0)' = {}
    <3>1. \A c \in Lines("use") : c \in Nat /\ c # 0
      BY <1>2 DEF Lines, WellWritten
    <3> QED BY <1>4, <3>1 DEF Unanswered
  <2>4. OpenCalls(0)' = {}
    BY <2>3 DEF OpenCalls
  <2> QED BY <1>1, <1>4, <2>1, <2>2, <2>4 DEF Remembers, FreshParser, NoPrompt, IsLastOf
<1>6. LogTells(logged, h)'
  BY <1>1, <1>3, SameLines
<1>7. Accounted(usage, h)'
  BY <1>1, <1>3, SameAccount
<1>8. offset' \in 0 .. Len(transcript') /\ h \in offset' .. Len(transcript')
  BY <1>1, <1>2, <1>3
<1> QED BY <1>4, <1>5, <1>6, <1>7, <1>8 DEF TranscriptInv
-----------------------------------------------------------------------------
\* What the state adds up, of the whole transcript, is what it says of each
\* response in its last record of it.
LEMMA LatestIsTold ==
    ASSUME WellWritten, NEW w, NEW r,
           LET n == Len(transcript) IN
           \/ SpokenOf(r, n) = {} /\ w = 0
           \/ \E i \in SpokenOf(r, n) : (\A j \in SpokenOf(r, n) : j <= i) /\ w = transcript[i].tokens,
           r # NoPrompt
    PROVE  Latest(r) = w
<1> DEFINE said == {i \in DOMAIN transcript : transcript[i].resp = r}
           n == Len(transcript)
<1>1. DOMAIN transcript = 1 .. n /\ n \in Nat
  BY DEF WellWritten
<1>2. said = SpokenOf(r, n) /\ said \subseteq Nat
  BY <1>1 DEF SpokenOf, Spoken, WellWritten
<1>3. Latest(r) = IF said = {} THEN 0
                  ELSE transcript[CHOOSE i \in said : \A j \in said : j <= i].tokens
  BY DEF Latest
<1>4. CASE said = {}
  BY <1>2, <1>3, <1>4
<1>5. CASE said # {}
  <2>1. PICK i \in said : (\A j \in said : j <= i) /\ w = transcript[i].tokens
    BY <1>2, <1>5
  <2>2. (CHOOSE x \in said : \A j \in said : j <= x) = i
    <3> HIDE DEF said
    <3>1. \A x \in said : (\A j \in said : j <= x) => x = i
      BY <1>2, <2>1
    <3> QED BY <2>1, <3>1
  <2> HIDE DEF said
  <2> QED BY <1>3, <1>5, <2>1, <2>2
<1> QED BY <1>4, <1>5

LEMMA FoldSums ==
    ASSUME IsFiniteSet(Responses), NEW w \in [Responses -> Nat],
           \A r \in Responses : Latest(r) = w[r], NEW total, AddsTo(w, Responses, total)
    PROVE  FoldSet(LAMBDA r, sum : sum + Latest(r), 0, Responses) = total
<1>1. PICK f : SumsUp(f, w, Responses) /\ f[Responses] = total
  BY DEF AddsTo
<1> DEFINE Folds(g) == g = [s \in SUBSET Responses |->
                              IF s = {} THEN 0
                              ELSE g[s \ {CHOOSE x \in s : TRUE}] + Latest(CHOOSE x \in s : TRUE)]
           fold == CHOOSE g : Folds(g)
<1>2. FoldSet(LAMBDA r, sum : sum + Latest(r), 0, Responses) = fold[Responses]
  BY DEF FoldSet, MapThenFoldSet
<1>3. ASSUME NEW s \in SUBSET Responses, s # {}
      PROVE  Latest(CHOOSE x \in s : TRUE) = w[CHOOSE x \in s : TRUE]
  <2>1. (CHOOSE x \in s : TRUE) \in Responses
    BY <1>3
  <2> QED BY <2>1
<1>4. ASSUME NEW g
      PROVE  Folds(g) <=> SumsUp(g, w, Responses)
  <2> DEFINE byLatest(s) == IF s = {} THEN 0
                            ELSE g[s \ {CHOOSE x \in s : TRUE}] + Latest(CHOOSE x \in s : TRUE)
             byWeight(s) == IF s = {} THEN 0
                            ELSE g[s \ {CHOOSE x \in s : TRUE}] + w[CHOOSE x \in s : TRUE]
  <2>1. \A s \in SUBSET Responses : byLatest(s) = byWeight(s)
    BY <1>3
  <2>2. Folds(g) <=> g = [s \in SUBSET Responses |-> byLatest(s)]
    OBVIOUS
  <2>3. SumsUp(g, w, Responses) <=> g = [s \in SUBSET Responses |-> byWeight(s)]
    BY DEF SumsUp
  <2> HIDE DEF byLatest, byWeight, Folds
  <2> QED BY <2>1, <2>2, <2>3
<1> HIDE DEF Folds
<1>5. \E g : Folds(g)
  BY <1>1, <1>4
<1>6. Folds(fold)
  BY <1>5
<1>7. SumsUp(fold, w, Responses)
  BY <1>4, <1>6
<1> HIDE DEF fold
<1>8. fold[Responses] = f[Responses]
  BY <1>1, <1>7, SumIsOne
<1> QED BY <1>1, <1>2, <1>8

LEMMA TranscriptInvTells ==
    ASSUME TranscriptAssumption, TranscriptInv
    PROVE  TranscriptTold
<1>0. SUFFICES ASSUME offset = Len(transcript)
      PROVE  /\ usage.total = FoldSet(LAMBDA r, sum : sum + Latest(r), 0, Responses)
             /\ usage.messages = Cardinality({r \in Responses : Latest(r) > 0})
             /\ \A i \in Prompts : \E e \in logged : e.line = i /\ e.about.turn = TurnOfLine(i)
             /\ \A i \in Lines("use") : \E e \in Told(<<"call", i>>) : e.about.turn = TurnOfLine(i)
             /\ \A i \in Lines("result") : \E e \in Told(<<"result", transcript[i].call>>) :
                  /\ e.about.known /\ e.about.turn = TurnOfLine(transcript[i].call)
                  /\ e.about.observed # "unknown" <=> transcript[i].ends # "otherwise"
  BY DEF TranscriptTold
<1> DEFINE n == Len(transcript)
<1>1. WellWritten /\ n \in Nat /\ DOMAIN transcript = 1 .. n
      /\ IsFiniteSet(Responses) /\ \A r \in Responses : r # NoPrompt
  BY DEF TranscriptInv, WellWritten, TranscriptAssumption, NoPrompt
<1>2. LogTells(logged, n) /\ Accounted(usage, n)
  <2>1. PICK h \in offset .. n : LogTells(logged, h) /\ Accounted(usage, h)
    BY DEF TranscriptInv
  <2>2. h = n
    BY <1>0, <1>1, <2>1
  <2> QED BY <2>1, <2>2
<1>3. PICK w \in [Responses -> Nat] : Accounts(usage, w, n)
  BY <1>2 DEF Accounted
<1>4. ASSUME NEW r \in Responses
      PROVE  Latest(r) = w[r]
  <2>1. \/ SpokenOf(r, n) = {} /\ w[r] = 0
        \/ \E i \in SpokenOf(r, n) : (\A j \in SpokenOf(r, n) : j <= i) /\ w[r] = transcript[i].tokens
    BY <1>3 DEF Accounts
  <2> QED BY <1>1, <2>1, LatestIsTold
<1>5. usage.total = FoldSet(LAMBDA r, sum : sum + Latest(r), 0, Responses)
  <2>1. AddsTo(w, Responses, usage.total)
    BY <1>3 DEF Accounts
  <2> QED BY <1>1, <1>4, <2>1, FoldSums
<1>6. usage.messages = Cardinality({r \in Responses : Latest(r) > 0})
  <2>1. {r \in Responses : Latest(r) > 0} = {r \in Responses : w[r] > 0}
    BY <1>4
  <2>2. usage.messages = Cardinality({r \in Responses : w[r] > 0})
    BY <1>3 DEF Accounts
  <2> QED BY <2>1, <2>2
<1>7. ASSUME NEW i \in 1 .. n
      PROVE  LineTold(logged, i)
  BY <1>2 DEF LogTells
<1>8. \A kind : Lines(kind) \subseteq 1 .. n
  BY <1>1 DEF Lines
<1>9. \A i \in Prompts : \E e \in logged : e.line = i /\ e.about.turn = TurnOfLine(i)
  BY <1>7, <1>8 DEF LineTold, Prompts
<1>10. \A i \in Lines("use") : \E e \in Told(<<"call", i>>) : e.about.turn = TurnOfLine(i)
  BY <1>7, <1>8 DEF LineTold, Told
<1>11. \A i \in Lines("result") : \E e \in Told(<<"result", transcript[i].call>>) : ResultRight(e, i)
  BY <1>7, <1>8 DEF LineTold, Told
<1> QED BY <1>5, <1>6, <1>9, <1>10, <1>11 DEF ResultRight

\* A transcript of Claude Code, once it is read, is told whole: each response
\* counts once with its last figures, and each prompt, call and result is told
\* of its turn, where prompts have ids and a file is read from its first byte.
THEOREM TranscriptInvariant ==
    NamesPrompts /\ ~ResumesMidFile => (TranscriptSpec => []TranscriptInv)
<1>1. SUFFICES ASSUME NamesPrompts, ~ResumesMidFile
              PROVE  TranscriptSpec => []TranscriptInv
  OBVIOUS
<1>2. TranscriptInit => TranscriptInv
  BY TranscriptAssumption, InitKeepsTranscript
<1>3. TranscriptInv /\ [TranscriptNext]_transcriptVars => TranscriptInv'
  <2> SUFFICES ASSUME TranscriptInv, [TranscriptNext]_transcriptVars
               PROVE  TranscriptInv'
    OBVIOUS
  <2>1. CASE WriteRecord
    BY <2>1, TranscriptAssumption, WriteKeepsTranscript
  <2>2. CASE ParseRecord
    BY <1>1, <2>2, TranscriptAssumption, ParseKeepsTranscript
  <2>3. CASE Reread
    BY <1>1, <2>3, TranscriptAssumption, RereadKeepsTranscript
  <2>4. CASE UNCHANGED transcriptVars
    <3>1. /\ transcript' = transcript /\ offset' = offset /\ parser' = parser /\ logged' = logged
          /\ usage' = usage
      BY <2>4 DEF transcriptVars
    <3>2. PICK h \in offset .. Len(transcript) : LogTells(logged, h) /\ Accounted(usage, h)
      BY DEF TranscriptInv
    <3>3. LogTells(logged, h)' /\ Accounted(usage, h)'
      BY <3>1, <3>2, SameLines, SameAccount
    <3>4. WellWritten' /\ (\A i : TurnOfLine(i)' = TurnOfLine(i)) /\ (\A i : Spoken(i)' = Spoken(i))
          /\ (\A i : UsageOf(i)' = UsageOf(i)) /\ (\A kind : Lines(kind)' = Lines(kind))
      BY <3>1 DEF TranscriptInv, WellWritten, TurnOfLine, Spoken, UsageOf, Lines, Prompts
    <3>5. \A i : OpenCalls(i)' = OpenCalls(i)
      BY <3>1, <3>4 DEF OpenCalls, Unanswered
    <3>6. Remembers(parser, offset)'
      BY <3>1, <3>4, <3>5 DEF TranscriptInv, Remembers, IsLastOf
    <3> QED BY <3>1, <3>2, <3>3, <3>4, <3>6 DEF TranscriptInv
  <2> QED BY <2>1, <2>2, <2>3, <2>4 DEF TranscriptNext
<1> QED BY <1>2, <1>3, PTL DEF TranscriptSpec
-----------------------------------------------------------------------------
(* OpenCode: what is told of the rows                                      *)

SessionRows == [type : {"user", "assistant", "idle"}, text : Nat,
                tool : {"none", "streaming", "running", "completed", "error", "declined"},
                listing : BOOLEAN, closed : {"open", "done", "aborted"}]

MappingTypeOK == dbRows \in Seq(SessionRows) /\ position \in 0 .. Len(dbRows)

\* An event of the row i is of its turn, and says nothing of the row that will
\* not stay so.
EventTrue(e) ==
    LET i == e.id[1]
        kind == e.id[2]
    IN  /\ e = Event(<<i, kind>>, PromptOf(i), e.says)
        /\ i \in DOMAIN dbRows
        /\ kind = "started" => dbRows[i].type = "user" /\ e.says = NoText
        /\ kind = "usage" => dbRows[i].type = "assistant" /\ IsFinalRow(i) /\ e.says = dbRows[i].closed
        /\ kind = "message" => dbRows[i].type = "assistant" /\ IsFinalRow(i) /\ e.says = TextOf(i)
        /\ kind = "completed" => dbRows[i].tool = "completed" /\ e.says = "done"
        /\ kind = "failed" => dbRows[i].tool \in {"error", "declined"} /\ e.says = dbRows[i].tool
        /\ kind = "abandoned" => ~IsFinalRow(i) /\ TurnBoundaryAfter(i) /\ e.says = NoText

\* What the events ev tell of the row i.
RowTold(i, ev) ==
    /\ dbRows[i].type = "user" => Event(<<i, "started">>, i, NoText) \in ev
    /\ dbRows[i].type = "assistant" /\ IsFinalRow(i) =>
         /\ Event(<<i, "usage">>, PromptOf(i), dbRows[i].closed) \in ev
         /\ dbRows[i].text > 0 => Event(<<i, "message">>, PromptOf(i), TextOf(i)) \in ev
         /\ dbRows[i].tool = "completed" => Event(<<i, "completed">>, PromptOf(i), "done") \in ev
         /\ dbRows[i].tool \in {"error", "declined"} =>
              Event(<<i, "failed">>, PromptOf(i), dbRows[i].tool) \in ev
         /\ dbRows[i].closed = "aborted" => \E e \in ev : e.id = <<i, "declined">>
    /\ ~IsFinalRow(i) =>
         TurnBoundaryAfter(i) /\ Event(<<i, "abandoned">>, PromptOf(i), NoText) \in ev

MappingInv ==
    /\ MappingTypeOK
    /\ \A e \in reported : EventTrue(e)
    /\ \A i \in 1 .. position : RowTold(i, reported)

-----------------------------------------------------------------------------
\* A row of a prompt begins its turn; another is of the turn of the row before.
LEMMA PromptOfRow ==
    ASSUME MappingTypeOK, NEW i \in DOMAIN dbRows
    PROVE  LatestBefore("user", i) = IF dbRows[i].type = "user" THEN i ELSE LatestBefore("user", i - 1)
<1> DEFINE B(p) == {j \in RowsOf("user") : j <= p}
<1>1. i \in Nat /\ RowsOf("user") \subseteq Nat
  BY DEF MappingTypeOK, RowsOf
<1>2. CASE dbRows[i].type = "user"
  <2>1. i \in B(i) /\ \A j \in B(i) : i >= j
    BY <1>1, <1>2 DEF RowsOf
  <2>2. \A x \in B(i) : (\A j \in B(i) : x >= j) => x = i
    BY <1>1, <2>1
  <2>3. Max(B(i)) = i
    BY <2>1, <2>2 DEF Max
  <2> QED BY <1>2, <2>1, <2>3 DEF LatestBefore
<1>3. CASE dbRows[i].type # "user"
  <2>1. B(i) = B(i - 1)
    BY <1>1, <1>3 DEF RowsOf
  <2> QED BY <1>3, <2>1 DEF LatestBefore
<1> QED BY <1>2, <1>3

\* What the mapping has when it has met the rows up to k.
ReadsTo(s, k) ==
    /\ ~s.blocked => s.position = k /\ s.turn = LatestBefore("user", k)
    /\ s.position \in position .. k
    /\ \A e \in s.events : EventTrue(e)
    /\ \A j \in (position + 1) .. s.position : RowTold(j, s.events)

TurnsOfRows == {LatestBefore("user", j) : j \in 0 .. Len(dbRows)}

RowEvents ==
    [id : Nat \X {"started", "called", "completed", "failed", "message", "usage", "declined",
                  "abandoned", "ended"},
     turn : TurnsOfRows,
     says : (Nat \X Nat) \cup {"list", "read", "done", "error", "declined", "open", "aborted"}]

MapStates == [position : Nat, turn : TurnsOfRows, last : Nat \X Nat, events : SUBSET RowEvents,
              blocked : BOOLEAN]

LEMMA ToolPartHas ==
    ASSUME MappingTypeOK, NEW i \in DOMAIN dbRows, NEW owner \in TurnsOfRows
    PROVE  /\ MapToolPart(i, owner) \subseteq RowEvents
           /\ owner = PromptOf(i) => \A e \in MapToolPart(i, owner) : EventTrue(e)
           /\ dbRows[i].tool = "completed" => Event(<<i, "completed">>, owner, "done") \in MapToolPart(i, owner)
           /\ dbRows[i].tool \in {"error", "declined"} =>
                Event(<<i, "failed">>, owner, dbRows[i].tool) \in MapToolPart(i, owner)
<1>1. dbRows[i] \in SessionRows /\ i \in Nat
  BY DEF MappingTypeOK
<1>2. CallOf(i) \in {"list", "read"}
  BY DEF CallOf
<1>3. CASE dbRows[i].tool \in {"running", "streaming"}
  <2>1. MapToolPart(i, owner) = {Event(<<i, "called">>, owner, CallOf(i))}
    BY <1>3 DEF MapToolPart
  <2> QED BY <1>1, <1>2, <1>3, <2>1 DEF RowEvents, Event, EventTrue
<1>4. CASE dbRows[i].tool = "completed"
  <2>1. MapToolPart(i, owner) = {Event(<<i, "called">>, owner, CallOf(i)), Event(<<i, "completed">>, owner, "done")}
    BY <1>4 DEF MapToolPart
  <2> QED BY <1>1, <1>2, <1>4, <2>1 DEF RowEvents, Event, EventTrue
<1>5. CASE dbRows[i].tool \in {"error", "declined"}
  <2>1. MapToolPart(i, owner) = {Event(<<i, "called">>, owner, CallOf(i)), Event(<<i, "failed">>, owner, dbRows[i].tool)}
    BY <1>5 DEF MapToolPart
  <2> QED BY <1>1, <1>2, <1>5, <2>1 DEF RowEvents, Event, EventTrue
<1>6. CASE dbRows[i].tool = "none"
  <2>1. MapToolPart(i, owner) = {}
    BY <1>6 DEF MapToolPart
  <2> QED BY <1>6, <2>1
<1> QED BY <1>1, <1>3, <1>4, <1>5, <1>6 DEF SessionRows

LEMMA AssistantHas ==
    ASSUME MappingTypeOK, NEW i \in DOMAIN dbRows, dbRows[i].type = "assistant", IsFinalRow(i),
           NEW owner \in TurnsOfRows, NEW last \in Nat \X Nat
    PROVE  /\ MapAssistant(i, owner, last) \subseteq RowEvents
           /\ owner = PromptOf(i) =>
                /\ \A e \in MapAssistant(i, owner, last) : EventTrue(e)
                /\ RowTold(i, MapAssistant(i, owner, last))
<1> DEFINE said == IF TextOf(i) = NoText THEN {} ELSE {Event(<<i, "message">>, owner, TextOf(i))}
           used == Event(<<i, "usage">>, owner, dbRows[i].closed)
           refused == IF dbRows[i].closed = "aborted" THEN {Event(<<i, "declined">>, owner, last)} ELSE {}
<1>1. dbRows[i] \in SessionRows /\ i \in Nat /\ i # 0
  BY DEF MappingTypeOK
<1>2. TextOf(i) \in Nat \X Nat /\ (dbRows[i].text > 0 => TextOf(i) # NoText)
  BY <1>1 DEF TextOf, NoText, SessionRows
<1>3. MapAssistant(i, owner, last) = said \cup MapToolPart(i, owner) \cup {used} \cup refused
  BY DEF MapAssistant
<1>4. said \subseteq RowEvents /\ (owner = PromptOf(i) => \A e \in said : EventTrue(e))
  BY <1>1, <1>2 DEF RowEvents, Event, EventTrue
<1>5. used \in RowEvents /\ (owner = PromptOf(i) => EventTrue(used))
  BY <1>1 DEF RowEvents, Event, EventTrue, SessionRows, IsFinalRow
<1>6. refused \subseteq RowEvents /\ (owner = PromptOf(i) => \A e \in refused : EventTrue(e))
  BY <1>1 DEF RowEvents, Event, EventTrue
<1>7. dbRows[i].closed = "aborted" => \E e \in refused : e.id = <<i, "declined">>
  BY DEF Event
<1>8. dbRows[i].text > 0 => Event(<<i, "message">>, owner, TextOf(i)) \in said
  BY <1>2
<1>9. used = Event(<<i, "usage">>, owner, dbRows[i].closed)
  OBVIOUS
<1> HIDE DEF said, used, refused
<1>10. MapAssistant(i, owner, last) \subseteq RowEvents
  BY <1>3, <1>4, <1>5, <1>6, ToolPartHas
<1>11. ASSUME owner = PromptOf(i)
       PROVE  RowTold(i, MapAssistant(i, owner, last))
  BY <1>3, <1>7, <1>8, <1>9, <1>11, ToolPartHas DEF RowTold
<1>12. ASSUME owner = PromptOf(i)
       PROVE  \A e \in MapAssistant(i, owner, last) : EventTrue(e)
  BY <1>3, <1>4, <1>5, <1>6, <1>12, ToolPartHas
<1> QED BY <1>10, <1>11, <1>12

\* A row told stays told by more events.
LEMMA RowToldByMore ==
    ASSUME NEW i, NEW ev, RowTold(i, ev), NEW more, ev \subseteq more
    PROVE  RowTold(i, more)
BY DEF RowTold

LEMMA MapRowReads ==
    ASSUME MappingTypeOK, NEW i \in DOMAIN dbRows, NEW s \in MapStates
    PROVE  /\ MapRow(s, i) \in MapStates
           /\ i > position /\ ReadsTo(s, i - 1) => ReadsTo(MapRow(s, i), i)
<1> DEFINE t == MapRow(s, i)
<1>1. /\ dbRows[i] \in SessionRows /\ i \in Nat /\ position \in Nat /\ i # 0
      /\ s.position \in Nat /\ s.events \subseteq RowEvents /\ s.turn \in TurnsOfRows
      /\ s.last \in Nat \X Nat /\ s.blocked \in BOOLEAN
  BY DEF MappingTypeOK, MapStates
<1>2. LatestBefore("user", i) \in TurnsOfRows /\ LatestBefore("user", i - 1) \in TurnsOfRows
  <2>1. i \in 0 .. Len(dbRows) /\ i - 1 \in 0 .. Len(dbRows)
    BY DEF MappingTypeOK
  <2> QED BY <2>1 DEF TurnsOfRows
<1>3. ASSUME NEW more \in SUBSET RowEvents, NEW p \in Nat, NEW owner \in TurnsOfRows,
             NEW last \in Nat \X Nat
      PROVE  /\ [s EXCEPT !.position = p, !.turn = owner, !.last = last, !.events = @ \cup more] \in MapStates
             /\ [s EXCEPT !.blocked = TRUE, !.events = @ \cup more] \in MapStates
  BY <1>1 DEF MapStates
\* A row that is told, by the events more, and moves the cursor.
<1>4. ASSUME NEW more \in SUBSET RowEvents,
             \A e \in more : EventTrue(e), RowTold(i, more), ~s.blocked,
             t.position = i, t.turn = LatestBefore("user", i), t.events = s.events \cup more,
             i > position, ReadsTo(s, i - 1)
      PROVE  ReadsTo(t, i)
  <2>1. s.position = i - 1 /\ t.position \in position .. i
    BY <1>1, <1>4 DEF ReadsTo
  <2>2. ASSUME NEW j \in (position + 1) .. t.position
        PROVE  RowTold(j, t.events)
    <3>1. CASE j = i
      BY <1>4, <3>1, RowToldByMore
    <3>2. CASE j # i
      <4>1. j \in (position + 1) .. s.position
        BY <1>1, <1>4, <2>1, <3>2
      <4>2. RowTold(j, s.events)
        BY <1>4, <4>1 DEF ReadsTo
      <4> QED BY <1>4, <4>2, RowToldByMore
    <3> QED BY <3>1, <3>2
  <2>3. \A e \in t.events : EventTrue(e)
    BY <1>4 DEF ReadsTo
  <2> QED BY <1>4, <2>1, <2>2, <2>3 DEF ReadsTo
<1>5. CASE s.blocked
  <2>1. t = s
    BY <1>5 DEF MapRow
  <2> QED BY <1>1, <1>5, <2>1 DEF ReadsTo
<1>6. CASE ~s.blocked /\ ~IsFinalRow(i) /\ TurnBoundaryAfter(i)
  <2> DEFINE e == Event(<<i, "abandoned">>, s.turn, NoText)
  <2>1. t = [s EXCEPT !.position = i, !.events = @ \cup {e}]
    BY <1>6 DEF MapRow
  <2>2. e \in RowEvents
    BY <1>1 DEF RowEvents, Event, NoText
  <2>3. /\ t \in MapStates /\ t.position = i /\ t.turn = s.turn /\ t.events = s.events \cup {e}
    <3> HIDE DEF e, t
    <3> QED BY <1>1, <2>1, <2>2 DEF MapStates
  <2>4. ASSUME i > position, ReadsTo(s, i - 1)
        PROVE  ReadsTo(t, i)
    <3>1. s.turn = PromptOf(i)
      BY <1>6, <2>4, PromptOfRow DEF ReadsTo, PromptOf, IsFinalRow
    <3>2. EventTrue(e) /\ RowTold(i, {e})
      BY <1>6, <3>1 DEF EventTrue, RowTold, Event, IsFinalRow
    <3> HIDE DEF e, t
    <3> QED BY <1>4, <1>6, <2>2, <2>3, <2>4, <3>1, <3>2 DEF PromptOf
  <2> QED BY <2>3, <2>4
<1>7. CASE ~s.blocked /\ ~IsFinalRow(i) /\ ~TurnBoundaryAfter(i)
  <2> DEFINE more == MapInProgressTools(i, s.turn)
  <2>1. t = [s EXCEPT !.blocked = TRUE, !.events = @ \cup more]
    BY <1>7 DEF MapRow
  <2>2. more \in SUBSET RowEvents /\ (s.turn = PromptOf(i) => \A e \in more : EventTrue(e))
    BY <1>1, ToolPartHas DEF MapInProgressTools
  <2> HIDE DEF more
  <2>3. t \in MapStates /\ t.position = s.position /\ t.events = s.events \cup more /\ t.blocked
    BY <1>1, <2>1, <2>2 DEF MapStates
  <2>4. ASSUME i > position, ReadsTo(s, i - 1)
        PROVE  ReadsTo(t, i)
    <3>1. s.turn = PromptOf(i) /\ s.position = i - 1
      BY <1>7, <2>4, PromptOfRow DEF ReadsTo, PromptOf, IsFinalRow
    <3>2. t.position \in position .. i
      BY <1>1, <2>3, <2>4, <3>1
    <3>3. \A j \in (position + 1) .. t.position : RowTold(j, t.events)
      BY <2>3, <2>4, RowToldByMore DEF ReadsTo
    <3>4. \A e \in t.events : EventTrue(e)
      BY <2>2, <2>3, <2>4, <3>1 DEF ReadsTo
    <3> QED BY <2>3, <3>2, <3>3, <3>4 DEF ReadsTo
  <2> QED BY <2>3, <2>4
<1>8. CASE ~s.blocked /\ IsFinalRow(i) /\ dbRows[i].type = "user"
  <2> DEFINE e == Event(<<i, "started">>, i, NoText)
  <2>0. PromptOf(i) = i /\ i \in TurnsOfRows
    BY <1>2, <1>8, PromptOfRow DEF PromptOf
  <2>1. t = [s EXCEPT !.position = i, !.turn = i, !.last = NoText, !.events = @ \cup {e}]
    BY <1>8 DEF MapRow
  <2>2. e \in RowEvents
    BY <1>1, <2>0 DEF RowEvents, Event, NoText
  <2>3. t \in MapStates /\ t.position = i /\ t.turn = i /\ t.events = s.events \cup {e}
    <3>1. NoText \in Nat \X Nat
      BY DEF NoText
    <3> HIDE DEF e, t
    <3> QED BY <1>1, <2>0, <2>1, <2>2, <3>1 DEF MapStates
  <2>4. EventTrue(e) /\ RowTold(i, {e})
    BY <1>8, <2>0 DEF EventTrue, RowTold, Event
  <2> HIDE DEF e, t
  <2>5. ASSUME i > position, ReadsTo(s, i - 1)
        PROVE  ReadsTo(t, i)
    BY <1>4, <1>8, <2>0, <2>2, <2>3, <2>4, <2>5 DEF PromptOf, t
  <2> QED BY <2>3, <2>5 DEF t
<1>9. CASE ~s.blocked /\ IsFinalRow(i) /\ dbRows[i].type = "assistant"
  <2> DEFINE last == IF TextOf(i) = NoText THEN s.last ELSE TextOf(i)
             more == MapAssistant(i, s.turn, last)
  <2>0. last \in Nat \X Nat
    BY <1>1 DEF TextOf, NoText, SessionRows
  <2>1. t = [s EXCEPT !.position = i, !.last = last, !.events = @ \cup more]
    BY <1>9 DEF MapRow
  <2> HIDE DEF last
  <2>2. /\ more \in SUBSET RowEvents
        /\ s.turn = PromptOf(i) => (\A e \in more : EventTrue(e)) /\ RowTold(i, more)
    BY <1>1, <1>9, <2>0, AssistantHas
  <2> HIDE DEF more
  <2>3. t \in MapStates /\ t.position = i /\ t.turn = s.turn /\ t.events = s.events \cup more
    BY <1>1, <2>0, <2>1, <2>2 DEF MapStates
  <2>4. ASSUME i > position, ReadsTo(s, i - 1)
        PROVE  ReadsTo(t, i)
    <3>1. s.turn = PromptOf(i)
      BY <1>9, <2>4, PromptOfRow DEF ReadsTo, PromptOf
    <3> QED BY <1>4, <1>9, <2>2, <2>3, <2>4, <3>1 DEF PromptOf
  <2> QED BY <2>3, <2>4
<1>10. CASE ~s.blocked /\ IsFinalRow(i) /\ dbRows[i].type = "idle"
  <2> DEFINE e == Event(<<i, "ended">>, s.turn, s.last)
  <2>1. t = [s EXCEPT !.position = i, !.events = @ \cup {e}]
    BY <1>10 DEF MapRow
  <2>2. e \in RowEvents
    BY <1>1 DEF RowEvents, Event
  <2>3. t \in MapStates /\ t.position = i /\ t.turn = s.turn /\ t.events = s.events \cup {e}
    <3> HIDE DEF e, t
    <3> QED BY <1>1, <2>1, <2>2 DEF MapStates
  <2>4. ASSUME i > position, ReadsTo(s, i - 1)
        PROVE  ReadsTo(t, i)
    <3>1. s.turn = PromptOf(i)
      BY <1>10, <2>4, PromptOfRow DEF ReadsTo, PromptOf
    <3>2. EventTrue(e) /\ RowTold(i, {e})
      BY <1>10, <3>1 DEF EventTrue, RowTold, Event
    <3> HIDE DEF e, t
    <3> QED BY <1>4, <1>10, <2>2, <2>3, <2>4, <3>1, <3>2 DEF PromptOf
  <2> QED BY <2>3, <2>4
<1> QED BY <1>1, <1>5, <1>6, <1>7, <1>8, <1>9, <1>10 DEF SessionRows

-----------------------------------------------------------------------------
LEMMA ContextHas ==
    ASSUME MappingTypeOK
    PROVE  /\ Context(position).turn = LatestBefore("user", position)
           /\ Context(position).turn \in TurnsOfRows
           /\ Context(position).last \in Nat \X Nat
<1>1. LatestBefore("user", position) \in TurnsOfRows
  BY DEF MappingTypeOK, TurnsOfRows
<1> DEFINE step == LatestBefore("assistant", position)
<1>2. Context(position).last = IF step = 0 THEN NoText ELSE TextOf(step)
  BY DEF Context
<1>3. step = 0 \/ step \in DOMAIN dbRows
  <2> DEFINE before == {j \in RowsOf("assistant") : j <= position}
  <2>1. before \subseteq 1 .. position /\ 1 .. position \subseteq DOMAIN dbRows
    BY DEF MappingTypeOK, RowsOf
  <2>2. ASSUME before # {}
        PROVE  Max(before) \in before
    <3> DEFINE flipped == {k \in 0 .. position : position - k \in before}
    <3>1. flipped # {} /\ flipped \in SUBSET Nat
      <4>1. PICK x \in before : TRUE
        BY <2>2
      <4>2. position - x \in 0 .. position /\ position - (position - x) = x
        BY <2>1 DEF MappingTypeOK
      <4>3. position - x \in flipped
        BY <4>1, <4>2
      <4>4. flipped \in SUBSET Nat
        BY DEF MappingTypeOK
      <4> QED BY <4>3, <4>4
    <3>2. PICK k \in flipped : \A j \in flipped : ~(j < k)
      <4> HIDE DEF flipped
      <4> QED BY <3>1, LeastNumber
    <3>3. position - k \in before /\ k \in 0 .. position /\ position \in Nat
      BY DEF MappingTypeOK
    <3>4. ASSUME NEW y \in before
          PROVE  position - k >= y
      <4>1. y \in 1 .. position /\ position - y \in 0 .. position /\ position - (position - y) = y
        BY <2>1, <3>3
      <4>2. position - y \in flipped
        BY <4>1
      <4>3. ~(position - y < k)
        BY <3>2, <4>2
      <4> QED BY <3>3, <4>1, <4>3
    <3> HIDE DEF before, flipped
    <3> QED BY <3>3, <3>4 DEF Max
  <2>3. step = IF before = {} THEN 0 ELSE Max(before)
    BY DEF LatestBefore
  <2> HIDE DEF before, step
  <2> QED BY <2>1, <2>2, <2>3
<1>4. \A j \in DOMAIN dbRows : TextOf(j) \in Nat \X Nat
  <2> SUFFICES ASSUME NEW j \in DOMAIN dbRows PROVE TextOf(j) \in Nat \X Nat
    OBVIOUS
  <2>0. j \in Nat /\ dbRows[j] \in SessionRows
    BY DEF MappingTypeOK
  <2>1. dbRows[j].text \in Nat
    BY <2>0 DEF SessionRows
  <2> QED BY <2>0, <2>1 DEF TextOf, NoText
<1>5. NoText \in Nat \X Nat
  BY DEF NoText
<1>6. Context(position).last \in Nat \X Nat
  <2> HIDE DEF step
  <2> QED BY <1>2, <1>3, <1>4, <1>5
<1> QED BY <1>1, <1>6 DEF Context

\* A poll of a budget reads up to it.
LEMMA ReadRowsReads ==
    ASSUME MappingTypeOK, NEW n \in 1 .. (Len(dbRows) - position)
    PROVE  ReadRows(n) \in MapStates /\ ReadsTo(ReadRows(n), position + n)
<1> DEFINE from == [position |-> position, turn |-> Context(position).turn,
                    last |-> Context(position).last, events |-> {}, blocked |-> FALSE]
           Body(f, k) == IF k = 0 THEN from ELSE MapRow(f[k - 1], position + k)
           reads == CHOOSE f : f = [k \in 0 .. n |-> Body(f, k)]
<1>1. n \in Nat /\ position \in Nat /\ \A k \in 1 .. n : position + k \in DOMAIN dbRows
  BY DEF MappingTypeOK
<1>2. /\ from \in MapStates /\ from.position = position /\ from.events = {}
      /\ from.turn = LatestBefore("user", position)
  BY <1>1, ContextHas DEF MapStates
<1> HIDE DEF from
<1>3. \A k \in 1 .. n : \A s \in MapStates : MapRow(s, position + k) \in MapStates
  BY <1>1, MapRowReads
<1>4. PICK f \in [0 .. n -> MapStates] :
         f[0] = from /\ \A k \in 1 .. n : f[k] = MapRow(f[k - 1], position + k)
  <2> DEFINE step == [x \in MapStates \X (1 .. n) |-> MapRow(x[1], position + x[2])]
  <2>1. step \in [MapStates \X (1 .. n) -> MapStates]
    BY <1>3
  <2>2. \A s \in MapStates, k \in 1 .. n : step[<<s, k>>] = MapRow(s, position + k)
    OBVIOUS
  <2> HIDE DEF step
  <2>3. Iterates(n, MapStates, from, step)
    BY <1>1, <1>2, <2>1, StepsMakeFunction
  <2>4. PICK f \in [0 .. n -> MapStates] :
           f[0] = from /\ \A k \in 1 .. n : f[k] = step[<<f[k - 1], k>>]
    BY <2>3 DEF Iterates
  <2>5. \A k \in 1 .. n : f[k - 1] \in MapStates
    BY <1>1
  <2> QED BY <2>2, <2>4, <2>5
<1>5. f = [k \in 0 .. n |-> Body(f, k)]
  <2>1. ASSUME NEW k \in 0 .. n
        PROVE  f[k] = Body(f, k)
    <3>1. k = 0 \/ (k # 0 /\ k \in 1 .. n)
      BY <1>1
    <3> QED BY <1>4, <3>1
  <2> HIDE DEF Body
  <2> QED BY <2>1
<1>6. reads = [k \in 0 .. n |-> Body(reads, k)]
  <2> HIDE DEF Body
  <2> QED BY <1>5
<1>7. ReadRows(n) = reads[n]
  BY DEF ReadRows, from
<1> HIDE DEF reads
<1>8. \A k \in 0 .. n : reads[k] = Body(reads, k)
  BY <1>6
<1> DEFINE right == {k \in 0 .. n : reads[k] \in MapStates /\ ReadsTo(reads[k], position + k)}
<1>9. 0 \in right
  <2>1. reads[0] = from /\ 0 \in 0 .. n /\ position + 0 = position
    BY <1>1, <1>8
  <2>2. ReadsTo(from, position)
    BY <1>1, <1>2 DEF ReadsTo
  <2> QED BY <1>2, <2>1, <2>2
<1>10. ASSUME NEW k \in 1 .. n, k - 1 \in right
       PROVE  k \in right
  <2>1. k \in 0 .. n /\ k # 0 /\ (position + k) - 1 = position + (k - 1) /\ position + k > position
    BY <1>1
  <2>2. reads[k] = MapRow(reads[k - 1], position + k)
    BY <1>8, <2>1
  <2>3. reads[k - 1] \in MapStates /\ ReadsTo(reads[k - 1], (position + k) - 1)
    BY <1>10, <2>1
  <2>4. position + k \in DOMAIN dbRows
    BY <1>1
  <2>5. reads[k] \in MapStates /\ ReadsTo(reads[k], position + k)
    BY <2>1, <2>2, <2>3, <2>4, MapRowReads
  <2> QED BY <2>1, <2>5
<1>11. n \in right
  <2>1. n \in 0 .. n
    BY <1>1
  <2> HIDE DEF right
  <2> QED BY <1>1, <1>9, <1>10, <2>1, UpToN
<1> QED BY <1>7, <1>11

\* Two true events of an id that says what became of a row are one.
LEMMA TrueEventsAgree ==
    ASSUME NEW d, NEW e, EventTrue(d), EventTrue(e), d.id = e.id,
           e.id[2] \in {"started", "usage", "message", "completed", "failed", "abandoned"}
    PROVE  d = e
<1>1. d.says = e.says
  BY DEF EventTrue
<1> QED BY <1>1 DEF EventTrue

LEMMA PollInv ==
    ASSUME MappingInv, PollRows
    PROVE  MappingInv'
<1>1. PICK n \in 1 .. (Len(dbRows) - position) :
         /\ position' = ReadRows(n).position
         /\ reported' = reported \cup {e \in ReadRows(n).events : \A d \in reported : d.id # e.id}
  BY DEF PollRows
<1> DEFINE end == ReadRows(n)
<1>2. ReadsTo(end, position + n) /\ dbRows' = dbRows
  BY ReadRowsReads DEF MappingInv, PollRows
<1>3. /\ reported \subseteq reported' /\ reported' \subseteq reported \cup end.events
      /\ \A e \in end.events : \E d \in reported' : d.id = e.id
  BY <1>1
<1>4. position \in Nat /\ position' \in position .. Len(dbRows)
  BY <1>1, <1>2 DEF ReadsTo, MappingInv, MappingTypeOK
<1> HIDE DEF end
<1>5. \A e \in reported' : EventTrue(e)
  BY <1>2, <1>3 DEF ReadsTo, MappingInv
<1>6. ASSUME NEW e \in end.events,
             e.id[2] \in {"started", "usage", "message", "completed", "failed", "abandoned"}
      PROVE  e \in reported'
  <2>1. PICK d \in reported' : d.id = e.id
    BY <1>3
  <2>2. EventTrue(d) /\ EventTrue(e)
    BY <1>2, <1>5 DEF ReadsTo
  <2> QED BY <1>6, <2>1, <2>2, TrueEventsAgree
<1>7. ASSUME NEW i \in 1 .. position'
      PROVE  RowTold(i, reported')
  <2>1. CASE i \in 1 .. position
    BY <1>3, <2>1, RowToldByMore DEF MappingInv
  <2>2. CASE i \notin 1 .. position
    <3>1. i \in (position + 1) .. end.position
      BY <1>1, <1>4, <2>2 DEF end
    <3>2. RowTold(i, end.events)
      BY <1>2, <3>1 DEF ReadsTo
    <3>3. ASSUME NEW kind \in {"started", "usage", "message", "completed", "failed", "abandoned"},
                 NEW owner, NEW says, Event(<<i, kind>>, owner, says) \in end.events
          PROVE  Event(<<i, kind>>, owner, says) \in reported'
      <4>1. Event(<<i, kind>>, owner, says).id[2] = kind
        BY DEF Event
      <4> QED BY <1>6, <3>3, <4>1
    <3> QED BY <1>3, <3>2, <3>3 DEF RowTold
  <2> QED BY <2>1, <2>2
<1>8. \A e : EventTrue(e)' <=> EventTrue(e)
  BY <1>2 DEF EventTrue, PromptOf, LatestBefore, RowsOf, IsFinalRow, TurnBoundaryAfter, TextOf
<1>9. \A i : RowTold(i, reported)' <=> RowTold(i, reported')
  BY <1>2 DEF RowTold, PromptOf, LatestBefore, RowsOf, IsFinalRow, TurnBoundaryAfter, TextOf
<1>10. MappingTypeOK'
  BY <1>2, <1>4 DEF MappingInv, MappingTypeOK
<1> QED BY <1>5, <1>7, <1>8, <1>9, <1>10 DEF MappingInv

-----------------------------------------------------------------------------
\* What a step of OpenCode may do to the rows.
RowsGoOn ==
    /\ dbRows' \in Seq(SessionRows) /\ Len(dbRows) <= Len(dbRows')
    /\ \A i \in DOMAIN dbRows :
         /\ dbRows'[i].type = dbRows[i].type
         /\ i # Len(dbRows) \/ IsFinalRow(i) => dbRows'[i] = dbRows[i]
         /\ dbRows[i].tool \in {"completed", "error", "declined"} => dbRows'[i].tool = dbRows[i].tool

LEMMA AddGoesOn ==
    ASSUME MappingTypeOK, NEW row \in SessionRows, AddRow(row)
    PROVE  RowsGoOn
BY DEF MappingTypeOK, AddRow, RowsGoOn

LEMMA ChangeGoesOn ==
    ASSUME MappingTypeOK, NEW i \in OpenSteps, NEW row \in SessionRows, dbRows' = [dbRows EXCEPT ![i] = row],
           row.type = "assistant",
           dbRows[i].tool \in {"completed", "error", "declined"} => row.tool = dbRows[i].tool
    PROVE  RowsGoOn
<1>1. /\ i \in DOMAIN dbRows /\ i = Len(dbRows) /\ dbRows[i].type = "assistant" /\ ~IsFinalRow(i)
  BY DEF OpenSteps, RowsOf, IsFinalRow
<1>2. dbRows' \in Seq(SessionRows) /\ Len(dbRows') = Len(dbRows) /\ Len(dbRows) \in Nat
  BY <1>1 DEF MappingTypeOK
<1>3. \A j \in DOMAIN dbRows : dbRows'[j] = IF j = i THEN row ELSE dbRows[j]
  BY <1>1 DEF MappingTypeOK
<1> QED BY <1>1, <1>2, <1>3 DEF RowsGoOn

LEMMA OpencodeGoesOn ==
    ASSUME MappingTypeOK,
           Prompt \/ StartStep \/ GoIdle \/ (\E i \in DOMAIN dbRows : Streams(i) \/ CloseStep(i))
    PROVE  RowsGoOn
<1>1. \A type \in {"user", "assistant", "idle"} : NewRow(type) \in SessionRows
  BY DEF NewRow, SessionRows
<1>2. CASE Prompt
  BY <1>1, <1>2, AddGoesOn DEF Prompt
<1>3. CASE GoIdle
  BY <1>1, <1>3, AddGoesOn DEF GoIdle
<1>4. CASE StartStep
  <2>1. \A listing \in BOOLEAN :
           [NewRow("assistant") EXCEPT !.tool = "streaming", !.listing = listing] \in SessionRows
    BY <1>1 DEF SessionRows
  <2> QED BY <1>1, <1>4, <2>1, AddGoesOn DEF StartStep
<1>5. ASSUME NEW i \in DOMAIN dbRows, Streams(i)
      PROVE  RowsGoOn
  <2>1. i \in OpenSteps /\ dbRows[i] \in SessionRows /\ dbRows[i].type = "assistant"
    BY <1>5 DEF Streams, OpenSteps, RowsOf, MappingTypeOK
  <2>2. CASE dbRows' = [dbRows EXCEPT ![i].text = @ + 1]
    <3> DEFINE row == [dbRows[i] EXCEPT !.text = @ + 1]
    <3>1. row \in SessionRows /\ row.type = "assistant" /\ row.tool = dbRows[i].tool
      BY <2>1 DEF SessionRows
    <3>2. dbRows' = [dbRows EXCEPT ![i] = row]
      BY <2>2
    <3> HIDE DEF row
    <3> QED BY <2>1, <3>1, <3>2, ChangeGoesOn
  <2>3. ASSUME NEW tool \in {"running", "completed", "error", "declined"},
               dbRows[i].tool \in {"streaming", "running"}, dbRows' = [dbRows EXCEPT ![i].tool = tool]
        PROVE  RowsGoOn
    <3> DEFINE row == [dbRows[i] EXCEPT !.tool = tool]
    <3>1. row \in SessionRows /\ row.type = "assistant"
      BY <2>1 DEF SessionRows
    <3>2. dbRows' = [dbRows EXCEPT ![i] = row]
      BY <2>3
    <3> HIDE DEF row
    <3> QED BY <2>1, <2>3, <3>1, <3>2, ChangeGoesOn
  <2> QED BY <1>5, <2>2, <2>3 DEF Streams
<1>6. ASSUME NEW i \in DOMAIN dbRows, CloseStep(i)
      PROVE  RowsGoOn
  <2> DEFINE closed == IF dbRows[i].tool = "declined" THEN "aborted" ELSE "done"
             row == [dbRows[i] EXCEPT !.closed = closed]
  <2>1. i \in OpenSteps /\ dbRows[i] \in SessionRows /\ dbRows[i].type = "assistant"
    BY <1>6 DEF CloseStep, OpenSteps, RowsOf, MappingTypeOK
  <2>2. row \in SessionRows /\ row.type = "assistant" /\ row.tool = dbRows[i].tool
    BY <2>1 DEF SessionRows
  <2>3. dbRows' = [dbRows EXCEPT ![i] = row]
    BY <1>6 DEF CloseStep
  <2> HIDE DEF row
  <2> QED BY <2>1, <2>2, <2>3, ChangeGoesOn
<1> QED BY <1>2, <1>3, <1>4, <1>5, <1>6

LEMMA GoOnInv ==
    ASSUME MappingInv, RowsGoOn, UNCHANGED <<position, reported>>
    PROVE  MappingInv'
<1>1. /\ DOMAIN dbRows = 1 .. Len(dbRows) /\ DOMAIN dbRows' = 1 .. Len(dbRows')
      /\ Len(dbRows) \in Nat /\ Len(dbRows') \in Nat /\ Len(dbRows) <= Len(dbRows')
      /\ position \in 0 .. Len(dbRows)
  BY DEF MappingInv, MappingTypeOK, RowsGoOn
<1>2. \A i \in DOMAIN dbRows : i \in DOMAIN dbRows' /\ dbRows'[i].type = dbRows[i].type
  BY <1>1 DEF RowsGoOn
<1>3. ASSUME NEW i \in DOMAIN dbRows
      PROVE  PromptOf(i)' = PromptOf(i)
  <2>1. {j \in RowsOf("user")' : j <= i} = {j \in RowsOf("user") : j <= i}
    BY <1>1, <1>2 DEF RowsOf
  <2> QED BY <2>1 DEF PromptOf, LatestBefore
<1>4. ASSUME NEW i \in DOMAIN dbRows, TurnBoundaryAfter(i)
      PROVE  TurnBoundaryAfter(i)' /\ i # Len(dbRows)
  BY <1>1, <1>2, <1>4 DEF TurnBoundaryAfter, RowsOf
<1>5. ASSUME NEW i \in DOMAIN dbRows, i # Len(dbRows) \/ IsFinalRow(i)
      PROVE  /\ dbRows'[i] = dbRows[i] /\ (IsFinalRow(i)' <=> IsFinalRow(i))
             /\ TextOf(i)' = TextOf(i)
  <2>1. dbRows'[i] = dbRows[i]
    BY <1>5 DEF RowsGoOn
  <2> QED BY <2>1 DEF IsFinalRow, TextOf
<1>6. ASSUME NEW e, EventTrue(e)
      PROVE  EventTrue(e)'
  <2> DEFINE i == e.id[1]
             kind == e.id[2]
  <2>1. i \in DOMAIN dbRows /\ e = Event(<<i, kind>>, PromptOf(i)', e.says)
    BY <1>3, <1>6 DEF EventTrue
  <2>2. /\ kind = "started" => dbRows'[i].type = "user" /\ e.says = NoText
        /\ kind = "completed" => dbRows'[i].tool = "completed" /\ e.says = "done"
        /\ kind = "failed" => dbRows'[i].tool \in {"error", "declined"} /\ e.says = dbRows'[i].tool
    <3>1. /\ kind = "started" => dbRows[i].type = "user" /\ e.says = NoText
          /\ kind = "completed" => dbRows[i].tool = "completed" /\ e.says = "done"
          /\ kind = "failed" => dbRows[i].tool \in {"error", "declined"} /\ e.says = dbRows[i].tool
      BY <1>6 DEF EventTrue
    <3>2. dbRows[i].tool \in {"completed", "error", "declined"} => dbRows'[i].tool = dbRows[i].tool
      BY <2>1 DEF RowsGoOn
    <3> HIDE DEF i, kind
    <3> QED BY <1>2, <2>1, <3>1, <3>2
  <2>3. /\ kind = "usage" => dbRows'[i].type = "assistant" /\ IsFinalRow(i)' /\ e.says = dbRows'[i].closed
        /\ kind = "message" => dbRows'[i].type = "assistant" /\ IsFinalRow(i)' /\ e.says = TextOf(i)'
    <3>1. /\ kind = "usage" => dbRows[i].type = "assistant" /\ IsFinalRow(i) /\ e.says = dbRows[i].closed
          /\ kind = "message" => dbRows[i].type = "assistant" /\ IsFinalRow(i) /\ e.says = TextOf(i)
      BY <1>6 DEF EventTrue
    <3> HIDE DEF i, kind
    <3> QED BY <1>5, <2>1, <3>1
  <2>4. kind = "abandoned" => ~IsFinalRow(i)' /\ TurnBoundaryAfter(i)' /\ e.says = NoText
    <3>1. kind = "abandoned" => ~IsFinalRow(i) /\ TurnBoundaryAfter(i) /\ e.says = NoText
      BY <1>6 DEF EventTrue
    <3> HIDE DEF i, kind
    <3> QED BY <1>4, <1>5, <2>1, <3>1
  <2>5. i \in DOMAIN dbRows'
    BY <1>2, <2>1
  <2> QED BY <2>1, <2>2, <2>3, <2>4, <2>5 DEF EventTrue
<1>7. ASSUME NEW i \in DOMAIN dbRows, RowTold(i, reported)
      PROVE  RowTold(i, reported)'
  <2>1. i # Len(dbRows) \/ IsFinalRow(i)
    BY <1>4, <1>7 DEF RowTold
  <2>2. ~IsFinalRow(i) => TurnBoundaryAfter(i)'
    BY <1>4, <1>7 DEF RowTold
  <2>3. reported' = reported
    OBVIOUS
  <2> QED BY <1>3, <1>5, <1>7, <2>1, <2>2, <2>3 DEF RowTold
<1>8. \A i \in 1 .. position' : RowTold(i, reported)'
  <2>1. \A i \in 1 .. position' : i \in DOMAIN dbRows /\ RowTold(i, reported)
    BY <1>1 DEF MappingInv
  <2> QED BY <1>7, <2>1
<1>9. \A e \in reported' : EventTrue(e)'
  BY <1>6 DEF MappingInv
<1>10. MappingTypeOK'
  BY <1>1 DEF MappingTypeOK, RowsGoOn
<1> QED BY <1>8, <1>9, <1>10 DEF MappingInv

\* What is told of the rows of a session, in every reachable state.
THEOREM MappingInvariant ==
    MappingSpec => []MappingInv
<1>1. MappingInit => MappingInv
  BY DEF MappingInit, MappingInv, MappingTypeOK
<1>2. MappingInv /\ [MappingNext]_mappingVars => MappingInv'
  <2> SUFFICES ASSUME MappingInv, [MappingNext]_mappingVars PROVE MappingInv'
    OBVIOUS
  <2>1. CASE UNCHANGED mappingVars
    <3>1. RowsGoOn /\ UNCHANGED <<position, reported>>
      BY <2>1 DEF mappingVars, RowsGoOn, MappingInv, MappingTypeOK
    <3> QED BY <3>1, GoOnInv
  <2>2. CASE PollRows
    BY <2>2, PollInv
  <2>3. CASE RereadRows
    <3>1. position' = 0 /\ dbRows' = dbRows /\ reported' = reported
      BY <2>3 DEF RereadRows
    <3>2. \A e : EventTrue(e)' <=> EventTrue(e)
      BY <3>1 DEF EventTrue, PromptOf, LatestBefore, RowsOf, IsFinalRow, TurnBoundaryAfter, TextOf
    <3> QED BY <3>1, <3>2 DEF MappingInv, MappingTypeOK
  <2>4. CASE MappingNext /\ ~PollRows /\ ~RereadRows
    <3>1. /\ Prompt \/ StartStep \/ GoIdle \/ (\E i \in DOMAIN dbRows : Streams(i) \/ CloseStep(i))
          /\ UNCHANGED <<position, reported>>
      BY <2>4 DEF MappingNext
    <3> QED BY <3>1, OpencodeGoesOn, GoOnInv DEF MappingInv
  <2> QED BY <2>1, <2>2, <2>3, <2>4 DEF MappingNext
<1> QED BY <1>1, <1>2, PTL DEF MappingSpec

\* The rows behind the cursor are told whole where the invariant holds.
LEMMA MappingInvTells ==
    ASSUME MappingInv
    PROVE  RowsAreToldWhole
<1> SUFFICES ASSUME NEW i \in 1 .. position, RowTold(i, reported)
             PROVE  /\ dbRows[i].type = "user" => Says(<<i, "started">>, i, NoText)
                    /\ dbRows[i].type = "assistant" /\ IsFinalRow(i) =>
                         /\ Says(<<i, "usage">>, PromptOf(i), dbRows[i].closed)
                         /\ dbRows[i].text > 0 => Says(<<i, "message">>, PromptOf(i), TextOf(i))
                         /\ dbRows[i].tool = "completed" <=> Says(<<i, "completed">>, PromptOf(i), "done")
                         /\ dbRows[i].tool \in {"error", "declined"} =>
                              Says(<<i, "failed">>, PromptOf(i), dbRows[i].tool)
                         /\ dbRows[i].closed = "aborted" => \E e \in reported : e.id = <<i, "declined">>
                    /\ ~IsFinalRow(i) => Says(<<i, "abandoned">>, PromptOf(i), NoText)
  BY DEF MappingInv, RowsAreToldWhole
<1>1. Says(<<i, "completed">>, PromptOf(i), "done") => dbRows[i].tool = "completed"
  <2> DEFINE e == Event(<<i, "completed">>, PromptOf(i), "done")
  <2>1. e.id[1] = i /\ e.id[2] = "completed"
    BY DEF Event
  <2>2. e \in reported => EventTrue(e)
    BY DEF MappingInv
  <2> HIDE DEF e
  <2>3. e \in reported => dbRows[i].tool = "completed"
    BY <2>1, <2>2 DEF EventTrue
  <2> QED BY <2>3 DEF Says, e
<1> QED BY <1>1 DEF RowTold, Says
-----------------------------------------------------------------------------
(* The report: one answer                                                  *)

\* Of the numbers up to n in a set that is not empty, one is the greatest.
LEMMA GreatestNumber ==
    ASSUME NEW n \in Nat, NEW S \in SUBSET (1 .. n), S # {}
    PROVE  \E j \in S : \A k \in S : k <= j
<1> DEFINE R == {n - k : k \in S}
<1>1. R \in SUBSET Nat /\ R # {}
  <2>1. \A k \in S : k \in 1 .. n
    OBVIOUS
  <2>2. \A k \in 1 .. n : n - k \in Nat
    OBVIOUS
  <2> QED BY <2>1, <2>2
<1>2. PICK r \in R : \A q \in R : ~(q < r)
  <2> HIDE DEF R
  <2> QED BY <1>1, LeastNumber
<1>3. PICK j \in S : r = n - j
  OBVIOUS
<1>4. ASSUME NEW k \in S
      PROVE  k <= j
  <2>1. n - k \in R
    OBVIOUS
  <2>2. ~(n - k < n - j)
    BY <1>2, <1>3, <2>1
  <2> QED BY <2>2
<1> QED BY <1>4

CheckRecords == [method : Methods, outcome : Outcomes, scope : {"full", "partial"}, at : Nat,
                 turn : Nat, stale : BOOLEAN]

\* Each check comes at a later time than those before it.
Ordered(cs) ==
    /\ cs \in Seq(CheckRecords)
    /\ \A i \in DOMAIN cs : cs[i].at > 0
    /\ \A i, j \in DOMAIN cs : i < j => cs[i].at < cs[j].at

\* The report of checks and changes, as it is computed.
PassesOf(cs) == {i \in DOMAIN cs : Covers(cs[i])}
LastPassOf(cs) ==
    IF PassesOf(cs) = {} THEN 0
    ELSE CHOOSE i \in PassesOf(cs) : \A j \in PassesOf(cs) :
           cs[j].at < cs[i].at \/ (cs[j].at = cs[i].at /\ j <= i)
UnverifiedOf(cs, ch) ==
    {p \in Paths : ch[p] > 0 /\ (LastPassOf(cs) = 0 \/ ch[p] > cs[LastPassOf(cs)].at)}
Clears(w, v) == w.method = v.method /\ w.outcome = "pass" /\ w.scope # "partial"
UnclearedOf(cs) ==
    {i \in DOMAIN cs : /\ cs[i].outcome = "fail"
                       /\ ~\E j \in DOMAIN cs \ {i} : cs[j].at >= cs[i].at /\ Clears(cs[j], cs[i])}
FailingOf(cs) == {cs[i].method : i \in UnclearedOf(cs)}

LEMMA ReportComputed ==
    /\ LastPass = LastPassOf(checks) /\ LastPass' = LastPassOf(checks')
    /\ UnverifiedFiles = UnverifiedOf(checks, changed)
    /\ UnverifiedFiles' = UnverifiedOf(checks', changed')
    /\ FailingMethods = FailingOf(checks) /\ FailingMethods' = FailingOf(checks')
    /\ UnclearedFailures = UnclearedOf(checks)
<1>1. LastPass = LastPassOf(checks) /\ LastPass' = LastPassOf(checks')
  BY DEF LastPass, LastPassOf, PassesOf
<1>2. UnverifiedFiles = UnverifiedOf(checks, changed)
  BY <1>1 DEF UnverifiedFiles, UnverifiedOf, ChangedFiles
<1>3. UnverifiedFiles' = UnverifiedOf(checks', changed')
  BY <1>1 DEF UnverifiedFiles, UnverifiedOf, ChangedFiles
<1>4. UnclearedFailures = UnclearedOf(checks) /\ UnclearedFailures' = UnclearedOf(checks')
  BY DEF UnclearedFailures, UnclearedOf, Clears
<1>5. FailingMethods = FailingOf(checks) /\ FailingMethods' = FailingOf(checks')
  BY <1>4 DEF FailingMethods, FailingOf
<1> QED BY <1>1, <1>2, <1>3, <1>4, <1>5

\* The last covering check is the last in the log.
LEMMA LastPassIs ==
    ASSUME NEW cs, Ordered(cs)
    PROVE  IF PassesOf(cs) = {} THEN LastPassOf(cs) = 0
           ELSE LastPassOf(cs) \in PassesOf(cs) /\ \A j \in PassesOf(cs) : j <= LastPassOf(cs)
<1>1. CASE PassesOf(cs) = {}
  BY <1>1 DEF LastPassOf
<1>2. CASE PassesOf(cs) # {}
  <2>0. Len(cs) \in Nat /\ DOMAIN cs = 1 .. Len(cs)
    BY DEF Ordered
  <2>1. PassesOf(cs) \in SUBSET (1 .. Len(cs)) /\ \A i \in PassesOf(cs) : cs[i].at \in Nat
    <3>1. \A i \in DOMAIN cs : cs[i] \in CheckRecords
      BY <2>0 DEF Ordered
    <3>2. \A i \in DOMAIN cs : cs[i].at \in Nat
      BY <3>1 DEF CheckRecords
    <3> QED BY <2>0, <3>2 DEF PassesOf
  <2>2. PICK l \in PassesOf(cs) : \A j \in PassesOf(cs) : j <= l
    BY <1>2, <2>0, <2>1, GreatestNumber
  <2> DEFINE LastOf(i) == \A j \in PassesOf(cs) :
                            cs[j].at < cs[i].at \/ (cs[j].at = cs[i].at /\ j <= i)
  <2>3. LastOf(l)
    BY <2>0, <2>1, <2>2 DEF Ordered, PassesOf
  <2>4. ASSUME NEW i \in PassesOf(cs), LastOf(i)
        PROVE  i = l
    <3>1. cs[l].at < cs[i].at \/ (cs[l].at = cs[i].at /\ l <= i)
      BY <2>4
    <3>2. i < l => cs[i].at < cs[l].at
      BY <2>0, <2>1 DEF Ordered, PassesOf
    <3> QED BY <2>1, <2>2, <3>1, <3>2
  <2>5. LastPassOf(cs) = CHOOSE i \in PassesOf(cs) : LastOf(i)
    BY <1>2 DEF LastPassOf
  <2> HIDE DEF LastOf
  <2>6. LastPassOf(cs) = l
    BY <2>3, <2>4, <2>5
  <2> QED BY <1>2, <2>2, <2>6
<1> QED BY <1>1, <1>2

\* A check fails its method until a later one clears it.
LEMMA FailingIs ==
    ASSUME NEW cs, Ordered(cs), NEW m
    PROVE  m \in FailingOf(cs) <=>
             \E i \in DOMAIN cs : /\ cs[i].outcome = "fail" /\ cs[i].method = m
                                  /\ \A j \in DOMAIN cs : i < j => ~Clears(cs[j], cs[i])
<1>0. Len(cs) \in Nat /\ DOMAIN cs = 1 .. Len(cs) /\ \A i \in DOMAIN cs : cs[i].at \in Nat
  <2>1. \A i \in DOMAIN cs : cs[i] \in CheckRecords
    BY DEF Ordered
  <2>2. \A i \in DOMAIN cs : cs[i].at \in Nat
    BY <2>1 DEF CheckRecords
  <2> QED BY <2>2 DEF Ordered
<1>1. ASSUME NEW i \in DOMAIN cs, NEW j \in DOMAIN cs
      PROVE  j # i /\ cs[j].at >= cs[i].at <=> i < j
  <2>1. (i < j => cs[i].at < cs[j].at) /\ (j < i => cs[j].at < cs[i].at)
    BY DEF Ordered
  <2> QED BY <1>0, <2>1
<1>2. ASSUME NEW i \in DOMAIN cs
      PROVE  i \in UnclearedOf(cs) <=> /\ cs[i].outcome = "fail"
                                       /\ \A j \in DOMAIN cs : i < j => ~Clears(cs[j], cs[i])
  BY <1>1 DEF UnclearedOf
<1>3. UnclearedOf(cs) \subseteq DOMAIN cs
  BY DEF UnclearedOf
<1> QED BY <1>2, <1>3 DEF FailingOf

\* Of the checks with one more.
LEMMA OneMoreCheck ==
    ASSUME NEW cs, Ordered(cs), NEW v \in CheckRecords, v.at > 0,
           \A i \in DOMAIN cs : cs[i].at < v.at
    PROVE  LET more == Append(cs, v) IN
           /\ Ordered(more)
           /\ Covers(v) => LastPassOf(more) = Len(cs) + 1 /\ more[Len(cs) + 1] = v
           /\ ~Covers(v) => LastPassOf(more) = LastPassOf(cs)
                            /\ (LastPassOf(cs) # 0 => more[LastPassOf(cs)] = cs[LastPassOf(cs)])
           /\ FailingOf(more) =
                IF v.outcome = "fail" THEN FailingOf(cs) \cup {v.method}
                ELSE IF v.outcome = "pass" /\ v.scope # "partial" THEN FailingOf(cs) \ {v.method}
                ELSE FailingOf(cs)
<1> DEFINE more == Append(cs, v)
           n == Len(cs)
<1>0. /\ n \in Nat /\ DOMAIN cs = 1 .. n /\ more \in Seq(CheckRecords)
      /\ DOMAIN more = 1 .. (n + 1) /\ more[n + 1] = v /\ \A i \in 1 .. n : more[i] = cs[i]
  BY DEF Ordered
<1>1. Ordered(more)
  <2>1. \A i \in DOMAIN more : more[i].at > 0
    BY <1>0 DEF Ordered
  <2>2. ASSUME NEW i \in DOMAIN more, NEW j \in DOMAIN more, i < j
        PROVE  more[i].at < more[j].at
    <3>1. i \in 1 .. n /\ (j \in 1 .. n \/ j = n + 1)
      BY <1>0, <2>2
    <3> QED BY <1>0, <2>2, <3>1 DEF Ordered
  <2> QED BY <1>0, <2>1, <2>2 DEF Ordered
<1> HIDE DEF more, n
<1>2. PassesOf(more) = PassesOf(cs) \cup (IF Covers(v) THEN {n + 1} ELSE {})
  BY <1>0 DEF PassesOf
<1>3. PassesOf(cs) \subseteq 1 .. n
  BY <1>0 DEF PassesOf
<1>4. ASSUME Covers(v)
      PROVE  LastPassOf(more) = n + 1
  <2>1. n + 1 \in PassesOf(more)
    BY <1>2, <1>4
  <2>2. LastPassOf(more) \in PassesOf(more) /\ \A j \in PassesOf(more) : j <= LastPassOf(more)
    BY <1>1, <2>1, LastPassIs
  <2> QED BY <1>0, <1>2, <1>3, <2>1, <2>2
<1>5. ASSUME ~Covers(v)
      PROVE  LastPassOf(more) = LastPassOf(cs)
             /\ (LastPassOf(cs) # 0 => more[LastPassOf(cs)] = cs[LastPassOf(cs)])
  <2>1. PassesOf(more) = PassesOf(cs)
    BY <1>2, <1>5
  <2>2. CASE PassesOf(cs) = {}
    BY <1>1, <2>1, <2>2, LastPassIs
  <2>3. CASE PassesOf(cs) # {}
    <3>1. LastPassOf(more) \in PassesOf(cs) /\ \A j \in PassesOf(cs) : j <= LastPassOf(more)
      BY <1>1, <2>1, <2>3, LastPassIs
    <3>2. LastPassOf(cs) \in PassesOf(cs) /\ \A j \in PassesOf(cs) : j <= LastPassOf(cs)
      BY <2>3, LastPassIs
    <3> QED BY <1>0, <1>3, <3>1, <3>2
  <2> QED BY <2>2, <2>3
<1>6. ASSUME NEW m
      PROVE  m \in FailingOf(more) <=>
               IF v.outcome = "fail" THEN m \in FailingOf(cs) \/ m = v.method
               ELSE IF v.outcome = "pass" /\ v.scope # "partial" THEN m \in FailingOf(cs) /\ m # v.method
               ELSE m \in FailingOf(cs)
  <2> DEFINE FailsIn(i, s) == /\ s[i].outcome = "fail" /\ s[i].method = m
                            /\ \A j \in DOMAIN s : i < j => ~Clears(s[j], s[i])
  <2>1. (m \in FailingOf(more) <=> \E i \in DOMAIN more : FailsIn(i, more))
        /\ (m \in FailingOf(cs) <=> \E i \in DOMAIN cs : FailsIn(i, cs))
    BY <1>1, FailingIs
  <2>2. FailsIn(n + 1, more) <=> v.outcome = "fail" /\ v.method = m
    BY <1>0
  <2>3. ASSUME NEW i \in DOMAIN cs
        PROVE  FailsIn(i, more) <=> FailsIn(i, cs) /\ ~(v.method = m /\ v.outcome = "pass"
                                                    /\ v.scope # "partial")
    <3>1. i \in 1 .. n /\ more[i] = cs[i] /\ i < n + 1
      BY <1>0
    <3>2. (\A j \in DOMAIN more : i < j => ~Clears(more[j], more[i]))
          <=> (\A j \in DOMAIN cs : i < j => ~Clears(cs[j], cs[i])) /\ ~Clears(v, cs[i])
      <4>1. \A j \in DOMAIN more : j \in DOMAIN cs \/ j = n + 1
        BY <1>0
      <4>2. \A j \in DOMAIN cs : j \in DOMAIN more /\ more[j] = cs[j]
        BY <1>0
      <4>3. n + 1 \in DOMAIN more /\ more[n + 1] = v
        BY <1>0
      <4> QED BY <3>1, <4>1, <4>2, <4>3
    <3> QED BY <3>1, <3>2 DEF Clears
  <2>4. (\E i \in DOMAIN more : FailsIn(i, more))
        <=> (\E i \in DOMAIN cs : FailsIn(i, more)) \/ FailsIn(n + 1, more)
    <3> HIDE DEF FailsIn
    <3>1. \A i \in DOMAIN more : i \in DOMAIN cs \/ i = n + 1
      BY <1>0
    <3>2. n + 1 \in DOMAIN more /\ DOMAIN cs \subseteq DOMAIN more
      BY <1>0
    <3> QED BY <3>1, <3>2
  <2> HIDE DEF FailsIn
  <2> QED BY <2>1, <2>2, <2>3, <2>4
<1>7. FailingOf(more) =
        IF v.outcome = "fail" THEN FailingOf(cs) \cup {v.method}
        ELSE IF v.outcome = "pass" /\ v.scope # "partial" THEN FailingOf(cs) \ {v.method}
        ELSE FailingOf(cs)
  BY <1>6
<1> QED BY <1>0, <1>1, <1>4, <1>5, <1>7 DEF more, n
\* Checks that become stale are the same checks.
LEMMA StaleChecks ==
    ASSUME NEW cs, Ordered(cs), NEW t \in Nat
    PROVE  LET more == [i \in DOMAIN cs |-> MadeStale(cs[i], t)] IN
           /\ Ordered(more) /\ DOMAIN more = DOMAIN cs
           /\ LastPassOf(more) = LastPassOf(cs) /\ FailingOf(more) = FailingOf(cs)
           /\ \A i \in DOMAIN cs : more[i].at = cs[i].at /\ (more[i].stale <=> cs[i].stale \/ cs[i].at <= t)
<1> DEFINE more == [i \in DOMAIN cs |-> MadeStale(cs[i], t)]
<1>0. Len(cs) \in Nat /\ DOMAIN cs = 1 .. Len(cs) /\ DOMAIN more = DOMAIN cs
      /\ \A i \in DOMAIN cs : cs[i] \in CheckRecords
  BY DEF Ordered
<1>1. ASSUME NEW i \in DOMAIN cs
      PROVE  /\ more[i] \in CheckRecords /\ more[i].at = cs[i].at
             /\ more[i].method = cs[i].method /\ more[i].outcome = cs[i].outcome
             /\ more[i].scope = cs[i].scope
             /\ (more[i].stale <=> cs[i].stale \/ cs[i].at <= t)
  <2>1. more[i] = MadeStale(cs[i], t) /\ cs[i] \in CheckRecords
    BY <1>0
  <2> HIDE DEF more
  <2> QED BY <2>1 DEF MadeStale, CheckRecords
<1>2. more \in Seq(CheckRecords)
  BY <1>0, <1>1
<1> HIDE DEF more
<1>3. Ordered(more)
  BY <1>0, <1>1, <1>2 DEF Ordered
<1>4. PassesOf(more) = PassesOf(cs)
  BY <1>0, <1>1 DEF PassesOf, Covers
<1>5. LastPassOf(more) = LastPassOf(cs)
  <2>1. CASE PassesOf(cs) = {}
    BY <1>4, <2>1 DEF LastPassOf
  <2>2. CASE PassesOf(cs) # {}
    <3>1. /\ LastPassOf(cs) \in PassesOf(cs) /\ \A j \in PassesOf(cs) : j <= LastPassOf(cs)
          /\ LastPassOf(more) \in PassesOf(cs) /\ \A j \in PassesOf(cs) : j <= LastPassOf(more)
      BY <1>3, <1>4, <2>2, LastPassIs
    <3>2. PassesOf(cs) \subseteq Nat
      BY <1>0 DEF PassesOf
    <3> QED BY <3>1, <3>2
  <2> QED BY <2>1, <2>2
<1>6. ASSUME NEW m
      PROVE  m \in FailingOf(more) <=> m \in FailingOf(cs)
  <2>1. \A i, j \in DOMAIN cs : Clears(more[j], more[i]) <=> Clears(cs[j], cs[i])
    BY <1>1 DEF Clears
  <2>2. m \in FailingOf(more) <=>
             \E i \in DOMAIN more : /\ more[i].outcome = "fail" /\ more[i].method = m
                                    /\ \A j \in DOMAIN more : i < j => ~Clears(more[j], more[i])
    BY <1>3, FailingIs
  <2>3. m \in FailingOf(cs) <=>
             \E i \in DOMAIN cs : /\ cs[i].outcome = "fail" /\ cs[i].method = m
                                  /\ \A j \in DOMAIN cs : i < j => ~Clears(cs[j], cs[i])
    BY FailingIs
  <2> QED BY <1>0, <1>1, <2>1, <2>2, <2>3
<1>7. FailingOf(more) = FailingOf(cs)
  <2>1. \A m : m \in FailingOf(more) <=> m \in FailingOf(cs)
    BY <1>6
  <2> QED BY <2>1
<1> QED BY <1>0, <1>1, <1>3, <1>5, <1>7 DEF more

-----------------------------------------------------------------------------
ReportTypeOK ==
    /\ seq \in Nat /\ clock \in Nat
    /\ turn \in [id : Nat, over : BOOLEAN, touched : SUBSET Paths, overSince : Nat]
    /\ turn.overSince <= seq
    /\ changed \in [Paths -> Nat]
    /\ Ordered(checks)

\* What is checked or changed next comes after all that was.
InThePast ==
    /\ \A i \in DOMAIN checks : checks[i].at <= clock
    /\ \A p \in Paths : changed[p] <= clock

\* A check is stale when a file has changed after it.
StaleIsOld ==
    \A i \in DOMAIN checks : checks[i].stale <=> \E p \in Paths : changed[p] > checks[i].at

FailuresListed(items, cs) ==
    \A m : (\E r \in items : r.rule = "verification-failed" /\ r.key = m) <=> m \in FailingOf(cs)

\* An item of unverified changes is of some, and of all when it is new.
UnverifiedListed(items, files, fresh) ==
    /\ \A r \in items : r.rule = "changes-unverified" =>
         r.key = 0 /\ files # {} /\ (fresh => r.count = Cardinality(files))
    /\ fresh /\ files # {} => \E r \in items : r.rule = "changes-unverified" /\ r.key = 0

ReportInv ==
    /\ ReportTypeOK /\ InThePast /\ StaleIsOld
    /\ FailuresListed(review, checks)
    /\ UnverifiedListed(review, UnverifiedOf(checks, changed),
                        turn.overSince = seq /\ turn.touched # {})

\* Items whose failures and unverified changes are the same list the same.
Watched(items) == {r \in items : r.rule \in {"verification-failed", "changes-unverified"}}

LEMMA SameWatched ==
    ASSUME NEW items, NEW more, Watched(more) = Watched(items)
    PROVE  /\ \A cs : FailuresListed(items, cs) => FailuresListed(more, cs)
           /\ \A files, fresh : UnverifiedListed(items, files, fresh) => UnverifiedListed(more, files, fresh)
<1>1. \A r : r.rule \in {"verification-failed", "changes-unverified"} => (r \in items <=> r \in more)
  BY DEF Watched
<1>2. \A cs : FailuresListed(items, cs) => FailuresListed(more, cs)
  BY <1>1 DEF FailuresListed
<1>3. \A files, fresh : UnverifiedListed(items, files, fresh) => UnverifiedListed(more, files, fresh)
  BY <1>1 DEF UnverifiedListed
<1> QED BY <1>2, <1>3

LEMMA WatchedStay ==
    ASSUME NEW items, NEW rule, NEW key, NEW severity, NEW count,
           rule \notin {"verification-failed", "changes-unverified"}
    PROVE  /\ Watched(WithOpen(items, Item(rule, key, severity, count))) = Watched(items)
           /\ Watched(Resolved(items, Asking)) = Watched(items)
           /\ Watched(Resolved(items, AllWaiting)) = Watched(items)
<1>1. \A rules : rules \cap {"verification-failed", "changes-unverified"} = {} =>
        Watched(Resolved(items, rules)) = Watched(items)
  BY DEF Resolved, Watched
<1>2. /\ Asking \cap {"verification-failed", "changes-unverified"} = {}
      /\ AllWaiting \cap {"verification-failed", "changes-unverified"} = {}
  BY DEF Asking, AllWaiting
<1>3. Item(rule, key, severity, count).rule = rule
  BY DEF Item
<1>4. Watched(WithOpen(items, Item(rule, key, severity, count))) = Watched(items)
  BY <1>3 DEF WithOpen, Watched
<1> QED BY <1>1, <1>2, <1>4

\* A step that checks and changes nothing, and does not touch what is watched.
LEMMA QuietStep ==
    ASSUME ReportInv, seq' = seq + 1, clock' = clock, changed' = changed, checks' = checks,
           turn' \in [id : Nat, over : BOOLEAN, touched : SUBSET Paths, overSince : Nat],
           turn'.overSince <= seq, Watched(review') = Watched(review)
    PROVE  ReportInv'
<1> DEFINE files == UnverifiedOf(checks, changed)
           fresh == turn.overSince = seq /\ turn.touched # {}
<1>0. seq \in Nat /\ turn'.overSince \in Nat
  BY DEF ReportInv, ReportTypeOK
<1>1. FailuresListed(review', checks)
  BY SameWatched DEF ReportInv
<1>2. UnverifiedListed(review', files, FALSE)
  <2>1. UnverifiedListed(review, files, FALSE)
    BY DEF ReportInv, UnverifiedListed
  <2> HIDE DEF files
  <2> QED BY <2>1, SameWatched
<1>3. ~(turn'.overSince = seq') /\ turn'.overSince <= seq'
  BY <1>0
<1>4. FailuresListed(review, checks)'
  BY <1>1 DEF FailuresListed
<1>5. UnverifiedListed(review, UnverifiedOf(checks, changed),
                       turn.overSince = seq /\ turn.touched # {})'
  <2>1. UnverifiedOf(checks', changed') = files
    OBVIOUS
  <2> QED BY <1>2, <1>3, <2>1 DEF UnverifiedListed
<1>6. ReportTypeOK'
  BY <1>0, <1>3 DEF ReportInv, ReportTypeOK
<1>7. InThePast' /\ StaleIsOld'
  BY DEF ReportInv, InThePast, StaleIsOld
<1> QED BY <1>4, <1>5, <1>6, <1>7 DEF ReportInv

LEMMA ReportStarts == ReportAssumption /\ ReportInit => ReportInv
<1> SUFFICES ASSUME ReportAssumption, ReportInit
             PROVE  ReportInv
  OBVIOUS
<1>1. Ordered(checks) /\ DOMAIN checks = {} /\ Len(checks) = 0
  BY DEF ReportInit, Ordered
<1>2. ReportTypeOK
  BY <1>1 DEF ReportTypeOK, ReportInit, NoTurn
<1>3. InThePast /\ StaleIsOld
  BY <1>1 DEF InThePast, StaleIsOld, ReportInit
<1>4. FailuresListed(review, checks)
  <2>1. FailingOf(checks) = {}
    BY <1>1 DEF FailingOf, UnclearedOf
  <2> QED BY <2>1 DEF FailuresListed, ReportInit
<1>5. UnverifiedListed(review, UnverifiedOf(checks, changed),
                       turn.overSince = seq /\ turn.touched # {})
  BY DEF UnverifiedListed, ReportInit, NoTurn
<1> QED BY <1>2, <1>3, <1>4, <1>5 DEF ReportInv

\* Changes and checks have times of their own, each after all before it.
LEMMA TimesMoveOn ==
    ASSUME ~Ties, MaxLag = 0, ReportTypeOK
    PROVE  Times = {clock + 1} /\ \A t \in Times : Passes(t) => clock' = clock + 1
<1>1. Times = {clock + 1}
  BY DEF Times
<1>2. clock \in Nat
  BY DEF ReportTypeOK
<1> QED BY <1>1, <1>2 DEF Passes

LEMMA QuietActions ==
    ASSUME ReportInv,
           \/ TurnStarted \/ QuestionAnswered \/ SessionEnded
           \/ \E kind \in {"edit", "check", "question"} : CallMade(kind)
           \/ \E kind \in {"permission", "input"} : Asks(kind)
    PROVE  ReportInv'
<1>0. seq \in Nat /\ turn \in [id : Nat, over : BOOLEAN, touched : SUBSET Paths, overSince : Nat]
      /\ turn.overSince <= seq
  BY DEF ReportInv, ReportTypeOK
<1>1. CASE TurnStarted
  <2>1. /\ seq' = seq + 1 /\ clock' = clock /\ changed' = changed /\ checks' = checks
        /\ turn' = [id |-> turn.id + 1, over |-> FALSE, touched |-> {}, overSince |-> 0]
        /\ review' = Resolved(review, AllWaiting)
    BY <1>1 DEF TurnStarted, Counted, workVars
  <2>2. /\ turn' \in [id : Nat, over : BOOLEAN, touched : SUBSET Paths, overSince : Nat]
        /\ turn'.overSince <= seq
    BY <1>0, <2>1
  <2>3. Watched(review') = Watched(review)
    BY <2>1, WatchedStay
  <2> QED BY <2>1, <2>2, <2>3, QuietStep
<1>2. CASE QuestionAnswered
  <2>1. /\ seq' = seq + 1 /\ clock' = clock /\ changed' = changed /\ checks' = checks
        /\ turn' = turn /\ review' = Resolved(review, AllWaiting)
    BY <1>2 DEF QuestionAnswered, Counted, workVars
  <2>2. Watched(review') = Watched(review)
    BY <2>1, WatchedStay
  <2> QED BY <1>0, <2>1, <2>2, QuietStep
<1>3. CASE SessionEnded
  <2>1. /\ seq' = seq + 1 /\ clock' = clock /\ changed' = changed /\ checks' = checks
        /\ turn' = turn /\ review' = review
    BY <1>3 DEF SessionEnded, Counted, workVars
  <2> QED BY <1>0, <2>1, QuietStep
<1>4. ASSUME NEW kind \in {"edit", "check", "question"}, CallMade(kind)
      PROVE  ReportInv'
  <2>1. /\ seq' = seq + 1 /\ clock' = clock /\ changed' = changed /\ checks' = checks
        /\ turn' = turn
        /\ \/ review' = Resolved(WithOpen(review, Item("waiting-question", 0, "high", 0)), Asking)
           \/ review' = Resolved(review, Asking)
    BY <1>4 DEF CallMade, Counted, workVars
  <2>2. Watched(review') = Watched(review)
    <3>1. Watched(WithOpen(review, Item("waiting-question", 0, "high", 0))) = Watched(review)
      BY WatchedStay
    <3>2. \A items : Watched(Resolved(items, Asking)) = Watched(items)
      BY WatchedStay
    <3> QED BY <2>1, <3>1, <3>2
  <2> QED BY <1>0, <2>1, <2>2, QuietStep
<1>5. ASSUME NEW kind \in {"permission", "input"}, Asks(kind)
      PROVE  ReportInv'
  <2>1. /\ seq' = seq + 1 /\ clock' = clock /\ changed' = changed /\ checks' = checks
        /\ turn' = turn /\ review' = WithOpen(review, Item(WaitingRule[kind], seq', "high", 0))
    BY <1>5 DEF Asks, Counted, workVars
  <2>2. WaitingRule[kind] \notin {"verification-failed", "changes-unverified"}
    BY DEF WaitingRule
  <2>3. Watched(review') = Watched(review)
    BY <2>1, <2>2, WatchedStay
  <2> QED BY <1>0, <2>1, <2>3, QuietStep
<1> QED BY <1>1, <1>2, <1>3, <1>4, <1>5

LEMMA FileChangedKeeps ==
    ASSUME ReportInv, ~Ties, MaxLag = 0, NEW p \in Paths, FileChanged(p)
    PROVE  ReportInv'
<1>0. /\ seq \in Nat /\ clock \in Nat /\ changed \in [Paths -> Nat] /\ Ordered(checks)
      /\ turn \in [id : Nat, over : BOOLEAN, touched : SUBSET Paths, overSince : Nat]
      /\ turn.overSince <= seq
  BY DEF ReportInv, ReportTypeOK
<1>1. Len(checks) \in Nat /\ DOMAIN checks = 1 .. Len(checks)
      /\ \A i \in DOMAIN checks : checks[i].at \in Nat /\ checks[i].at <= clock
  <2>1. \A i \in DOMAIN checks : checks[i] \in CheckRecords
    BY <1>0 DEF Ordered
  <2>2. \A i \in DOMAIN checks : checks[i].at \in Nat
    BY <2>1 DEF CheckRecords
  <2> QED BY <1>0, <2>2 DEF Ordered, ReportInv, InThePast
<1>2. PICK t \in Times : /\ Passes(t)
                         /\ changed' = [changed EXCEPT ![p] = IF t > @ THEN t ELSE @]
                         /\ checks' = [i \in DOMAIN checks |-> MadeStale(checks[i], t)]
  BY DEF FileChanged
<1>3. t = clock + 1 /\ clock' = clock + 1 /\ t \in Nat
  BY <1>0, <1>2, TimesMoveOn DEF ReportInv
<1>4. \A q \in Paths : changed'[q] = IF q = p THEN t ELSE changed[q]
  <2>1. changed[p] <= clock
    BY DEF ReportInv, InThePast
  <2> QED BY <1>0, <1>2, <1>3, <2>1
<1>5. seq' = seq + 1 /\ turn' = [turn EXCEPT !.touched = @ \cup {p}]
      /\ review' = Resolved(review, Asking)
  BY DEF FileChanged, Counted
<1>6. /\ Ordered(checks') /\ DOMAIN checks' = DOMAIN checks
      /\ LastPassOf(checks') = LastPassOf(checks) /\ FailingOf(checks') = FailingOf(checks)
      /\ \A i \in DOMAIN checks : checks'[i].at = checks[i].at
            /\ (checks'[i].stale <=> checks[i].stale \/ checks[i].at <= t)
  BY <1>0, <1>2, <1>3, StaleChecks
<1>7. ReportTypeOK'
  <2>1. changed' \in [Paths -> Nat]
    BY <1>0, <1>2, <1>3
  <2>2. /\ turn' \in [id : Nat, over : BOOLEAN, touched : SUBSET Paths, overSince : Nat]
        /\ turn'.overSince = turn.overSince
    BY <1>0, <1>5
  <2> QED BY <1>0, <1>3, <1>5, <1>6, <2>1, <2>2 DEF ReportTypeOK
<1>8. InThePast'
  <2>1. \A i \in DOMAIN checks' : checks'[i].at <= clock'
    BY <1>0, <1>1, <1>3, <1>6
  <2>2. \A q \in Paths : changed[q] \in Nat /\ changed[q] <= clock
    BY <1>0 DEF ReportInv, InThePast
  <2>3. \A q \in Paths : changed'[q] <= clock'
    BY <1>0, <1>3, <1>4, <2>2
  <2> QED BY <2>1, <2>3 DEF InThePast
<1>9. StaleIsOld'
  <2>1. \A i \in DOMAIN checks' : checks'[i].stale = TRUE
    <3>1. \A i \in DOMAIN checks' : checks'[i].stale
      BY <1>0, <1>1, <1>3, <1>6
    <3>2. \A i \in DOMAIN checks' : checks'[i] \in CheckRecords
      BY <1>6 DEF Ordered
    <3> QED BY <3>1, <3>2 DEF CheckRecords
  <2>2. \A i \in DOMAIN checks' : changed'[p] > checks'[i].at
    BY <1>0, <1>1, <1>3, <1>4, <1>6
  <2> QED BY <2>1, <2>2 DEF StaleIsOld
<1>10. FailuresListed(review', checks')
  <2>1. Watched(review') = Watched(review)
    BY <1>5, WatchedStay
  <2>2. FailuresListed(review', checks)
    BY <2>1, SameWatched DEF ReportInv
  <2> QED BY <1>6, <2>2 DEF FailuresListed
<1>11. p \in UnverifiedOf(checks', changed')
  <2>1. LastPassOf(checks) = 0 \/ LastPassOf(checks) \in DOMAIN checks
    BY <1>0, LastPassIs DEF PassesOf
  <2> QED BY <1>0, <1>1, <1>3, <1>4, <1>6, <2>1 DEF UnverifiedOf
<1>12. ~(turn'.overSince = seq')
  BY <1>0, <1>5
<1>13. UnverifiedListed(review', UnverifiedOf(checks', changed'),
                        turn'.overSince = seq' /\ turn'.touched # {})
  <2>1. \A r \in review' : r \in review
    BY <1>5 DEF Resolved
  <2>2. \A r \in review : r.rule = "changes-unverified" => r.key = 0
    BY DEF ReportInv, UnverifiedListed
  <2> QED BY <1>11, <1>12, <2>1, <2>2 DEF UnverifiedListed
<1> QED BY <1>7, <1>8, <1>9, <1>10, <1>13 DEF ReportInv

\* What the rules make of the items when a check is done.
LEMMA ReviewedLists ==
    ASSUME NEW items, NEW cs, FailuresListed(items, cs), NEW v \in CheckRecords, NEW more,
           FailingOf(more) =
             IF v.outcome = "fail" THEN FailingOf(cs) \cup {v.method}
             ELSE IF v.outcome = "pass" /\ v.scope # "partial" THEN FailingOf(cs) \ {v.method}
             ELSE FailingOf(cs)
    PROVE  FailuresListed(Reviewed(items, v), more)
<1> DEFINE ListedAs(s, m) == \E r \in s : r.rule = "verification-failed" /\ r.key = m
<1>1. \A m : ListedAs(items, m) <=> m \in FailingOf(cs)
  BY DEF FailuresListed
<1>2. CASE v.outcome = "fail"
  <2> DEFINE item == Item("verification-failed", v.method, "high", 0)
  <2>1. item.rule = "verification-failed" /\ item.key = v.method
    BY DEF Item
  <2>2. Reviewed(items, v) = WithOpen(items, item)
    BY <1>2 DEF Reviewed
  <2>3. \A m : ListedAs(WithOpen(items, item), m) <=> ListedAs(items, m) \/ m = v.method
    <3> HIDE DEF item
    <3> QED BY <2>1 DEF WithOpen, IsOpen
  <2> QED BY <1>1, <1>2, <2>2, <2>3 DEF FailuresListed
<1>3. CASE v.outcome = "pass" /\ v.scope # "partial"
  <2>1. \A r : r.rule = "verification-failed" =>
          (r \in Reviewed(items, v) <=> r \in items /\ r.key # v.method)
    BY <1>3 DEF Reviewed
  <2>2. \A m : ListedAs(Reviewed(items, v), m) <=> ListedAs(items, m) /\ m # v.method
    BY <2>1
  <2> QED BY <1>1, <1>3, <2>2 DEF FailuresListed
<1>4. CASE v.outcome # "fail" /\ ~(v.outcome = "pass" /\ v.scope # "partial")
  <2>1. Reviewed(items, v) = items
    BY <1>4 DEF Reviewed
  <2> QED BY <1>1, <1>4, <2>1 DEF FailuresListed
<1> QED BY <1>2, <1>3, <1>4

LEMMA CheckDoneKeeps ==
    ASSUME ReportInv, ~Ties, MaxLag = 0, CheckDone
    PROVE  ReportInv'
<1>0. /\ seq \in Nat /\ clock \in Nat /\ changed \in [Paths -> Nat] /\ Ordered(checks)
      /\ turn \in [id : Nat, over : BOOLEAN, touched : SUBSET Paths, overSince : Nat]
      /\ turn.overSince <= seq
  BY DEF ReportInv, ReportTypeOK
<1>1. PICK t \in Times, mm \in Methods, oo \in Outcomes, ss \in {"full", "partial"} :
         LET v == [method |-> mm, outcome |-> oo, scope |-> ss, at |-> t, turn |-> turn.id,
                   stale |-> FALSE]
         IN  /\ Passes(t)
             /\ checks' = Append(checks, v)
             /\ review' = Reviewed(Resolved(review, Asking), v)
  BY DEF CheckDone
<1>2. PICK v : v = [method |-> mm, outcome |-> oo, scope |-> ss, at |-> t, turn |-> turn.id,
                    stale |-> FALSE]
  OBVIOUS
<1>3. /\ Passes(t) /\ checks' = Append(checks, v) /\ review' = Reviewed(Resolved(review, Asking), v)
      /\ seq' = seq + 1 /\ turn' = turn /\ changed' = changed
  BY <1>1, <1>2 DEF CheckDone, Counted
<1>4. t = clock + 1 /\ clock' = clock + 1 /\ t \in Nat
  BY <1>0, <1>3, TimesMoveOn DEF ReportInv
<1>5. v \in CheckRecords /\ v.at = clock + 1 /\ ~v.stale /\ v.at > 0
  BY <1>0, <1>2, <1>4 DEF CheckRecords
<1>6. /\ Len(checks) \in Nat /\ DOMAIN checks = 1 .. Len(checks)
      /\ \A i \in DOMAIN checks : checks[i].at \in Nat /\ checks[i].at <= clock
  <2>1. \A i \in DOMAIN checks : checks[i] \in CheckRecords
    BY <1>0 DEF Ordered
  <2>2. \A i \in DOMAIN checks : checks[i].at \in Nat
    BY <2>1 DEF CheckRecords
  <2> QED BY <1>0, <2>2 DEF Ordered, ReportInv, InThePast
<1>7. \A i \in DOMAIN checks : checks[i].at < v.at
  BY <1>0, <1>5, <1>6
<1>8. /\ Ordered(checks')
      /\ Covers(v) => LastPassOf(checks') = Len(checks) + 1 /\ checks'[Len(checks) + 1] = v
      /\ ~Covers(v) => LastPassOf(checks') = LastPassOf(checks)
            /\ (LastPassOf(checks) # 0 => checks'[LastPassOf(checks)] = checks[LastPassOf(checks)])
      /\ FailingOf(checks') =
            IF v.outcome = "fail" THEN FailingOf(checks) \cup {v.method}
            ELSE IF v.outcome = "pass" /\ v.scope # "partial" THEN FailingOf(checks) \ {v.method}
            ELSE FailingOf(checks)
  <2>1. PICK more : more = Append(checks, v)
    OBVIOUS
  <2>2. /\ Ordered(more)
        /\ Covers(v) => LastPassOf(more) = Len(checks) + 1 /\ more[Len(checks) + 1] = v
        /\ ~Covers(v) => LastPassOf(more) = LastPassOf(checks)
              /\ (LastPassOf(checks) # 0 => more[LastPassOf(checks)] = checks[LastPassOf(checks)])
        /\ FailingOf(more) =
              IF v.outcome = "fail" THEN FailingOf(checks) \cup {v.method}
              ELSE IF v.outcome = "pass" /\ v.scope # "partial" THEN FailingOf(checks) \ {v.method}
              ELSE FailingOf(checks)
    <3>1. Ordered(checks) /\ v \in CheckRecords /\ v.at > 0 /\ \A i \in DOMAIN checks : checks[i].at < v.at
      BY <1>0, <1>5, <1>7
    <3>2. LET extended == Append(checks, v) IN
          /\ Ordered(extended)
          /\ Covers(v) => LastPassOf(extended) = Len(checks) + 1 /\ extended[Len(checks) + 1] = v
          /\ ~Covers(v) => LastPassOf(extended) = LastPassOf(checks)
                /\ (LastPassOf(checks) # 0 =>
                      extended[LastPassOf(checks)] = checks[LastPassOf(checks)])
          /\ FailingOf(extended) =
                IF v.outcome = "fail" THEN FailingOf(checks) \cup {v.method}
                ELSE IF v.outcome = "pass" /\ v.scope # "partial" THEN FailingOf(checks) \ {v.method}
                ELSE FailingOf(checks)
      BY <3>1, OneMoreCheck, Zenon
    <3> QED BY <2>1, <3>2
  <2> QED BY <1>3, <2>1, <2>2
<1>9. /\ DOMAIN checks' = 1 .. (Len(checks) + 1) /\ checks'[Len(checks) + 1] = v
      /\ \A i \in DOMAIN checks : checks'[i] = checks[i]
  BY <1>0, <1>3, <1>5, <1>6 DEF Ordered
<1>10. ReportTypeOK'
  BY <1>0, <1>3, <1>4, <1>8 DEF ReportTypeOK
<1>11. InThePast'
  <2>1. \A i \in DOMAIN checks' : i \in DOMAIN checks \/ i = Len(checks) + 1
    BY <1>6, <1>9
  <2>2. \A i \in DOMAIN checks' : checks'[i].at <= clock'
    BY <1>0, <1>4, <1>5, <1>6, <1>9, <2>1
  <2> QED BY <1>0, <1>3, <1>4, <2>2 DEF ReportInv, InThePast
<1>12. StaleIsOld'
  <2>1. \A i \in DOMAIN checks' : i \in DOMAIN checks \/ i = Len(checks) + 1
    BY <1>6, <1>9
  <2>2. ~\E p \in Paths : changed'[p] > v.at
    BY <1>0, <1>3, <1>5 DEF ReportInv, InThePast
  <2>3. \A i \in DOMAIN checks : checks'[i].stale <=> \E p \in Paths : changed'[p] > checks'[i].at
    BY <1>3, <1>9 DEF ReportInv, StaleIsOld
  <2>4. checks'[Len(checks) + 1].stale
          <=> \E p \in Paths : changed'[p] > checks'[Len(checks) + 1].at
    BY <1>5, <1>9, <2>2
  <2> QED BY <2>1, <2>3, <2>4 DEF StaleIsOld
<1>13. PICK items : items = Resolved(review, Asking)
  OBVIOUS
<1>14. Watched(items) = Watched(review)
  BY <1>13, WatchedStay
<1>15. FailuresListed(review', checks')
  <2>1. FailuresListed(items, checks)
    BY <1>14, SameWatched DEF ReportInv
  <2> QED BY <1>3, <1>5, <1>8, <1>13, <2>1, ReviewedLists
<1>16. UnverifiedListed(review', UnverifiedOf(checks', changed'),
                        turn'.overSince = seq' /\ turn'.touched # {})
  <2>1. ~(turn'.overSince = seq')
    BY <1>0, <1>3
  <2>2. ASSUME NEW r \in review', r.rule = "changes-unverified"
        PROVE  r \in review /\ ~Covers(v)
    <3>1. r \in items /\ ~Covers(v)
      <4>1. CASE v.outcome = "fail"
        <5>1. Item("verification-failed", v.method, "high", 0).rule = "verification-failed"
          BY DEF Item
        <5>2. review' \subseteq items \cup {Item("verification-failed", v.method, "high", 0)}
          BY <1>3, <1>13, <4>1 DEF Reviewed, WithOpen
        <5>3. r # Item("verification-failed", v.method, "high", 0)
          BY <2>2, <5>1
        <5> QED BY <4>1, <5>2, <5>3 DEF Covers
      <4>2. CASE v.outcome # "fail"
        BY <1>3, <1>13, <2>2, <4>2 DEF Reviewed, Covers
      <4> QED BY <4>1, <4>2
    <3> QED BY <3>1, <1>13 DEF Resolved
  <2>3. ~Covers(v) => UnverifiedOf(checks', changed') = UnverifiedOf(checks, changed)
    BY <1>3, <1>8 DEF UnverifiedOf
  <2>4. \A r \in review : r.rule = "changes-unverified" =>
          r.key = 0 /\ UnverifiedOf(checks, changed) # {}
    BY DEF ReportInv, UnverifiedListed
  <2>5. \A r \in review' : r.rule = "changes-unverified" =>
          r.key = 0 /\ UnverifiedOf(checks', changed') # {}
    BY <2>2, <2>3, <2>4
  <2> QED BY <2>1, <2>5 DEF UnverifiedListed
<1> QED BY <1>10, <1>11, <1>12, <1>15, <1>16 DEF ReportInv

LEMMA TurnEndedKeeps ==
    ASSUME ReportInv, TurnEnded
    PROVE  ReportInv'
<1>0. /\ seq \in Nat /\ clock \in Nat /\ changed \in [Paths -> Nat] /\ Ordered(checks)
      /\ turn \in [id : Nat, over : BOOLEAN, touched : SUBSET Paths, overSince : Nat]
      /\ turn.overSince <= seq
  BY DEF ReportInv, ReportTypeOK
<1>1. PICK outcome \in {"completed", "failed"}, says \in {"nothing", "passes", "asks"} :
        /\ turn.over \/ turn' = [turn EXCEPT !.over = TRUE, !.overSince = seq']
        /\ turn.over => turn' = turn
        /\ review' = AtTurnEnd(Resolved(review, AllWaiting), outcome, says)
  BY DEF TurnEnded
<1>2. seq' = seq + 1 /\ clock' = clock /\ changed' = changed /\ checks' = checks
  BY DEF TurnEnded, Counted, workVars
<1>3. /\ turn' \in [id : Nat, over : BOOLEAN, touched : SUBSET Paths, overSince : Nat]
      /\ turn'.touched = turn.touched /\ turn'.overSince <= seq'
  <2>1. seq <= seq' /\ seq' \in Nat
    BY <1>0, <1>2
  <2>2. CASE turn.over
    BY <1>0, <1>1, <2>1, <2>2
  <2>3. CASE ~turn.over
    <3>1. turn' = [turn EXCEPT !.over = TRUE, !.overSince = seq']
      BY <1>1, <2>3
    <3>2. /\ turn' \in [id : Nat, over : BOOLEAN, touched : SUBSET Paths, overSince : Nat]
          /\ turn'.touched = turn.touched /\ turn'.overSince = seq'
      BY <1>0, <2>1, <3>1
    <3> QED BY <2>1, <3>2
  <2> QED BY <2>2, <2>3
<1>4. ReportTypeOK'
  BY <1>0, <1>2, <1>3 DEF ReportTypeOK
<1>5. InThePast' /\ StaleIsOld'
  BY <1>2 DEF ReportInv, InThePast, StaleIsOld
<1> DEFINE items0 == Resolved(review, AllWaiting)
           failed0 == IF outcome # "failed" THEN items0
                      ELSE WithOpen(items0, Item("turn-failed", seq', "high", 0))
           item0 == Item("changes-unverified", 0, IF LastPass = 0 THEN "medium" ELSE "low",
                         Cardinality(UnverifiedFiles))
           more0 == IF turn.touched = {} \/ UnverifiedFiles = {} THEN failed0
                    ELSE Resolved(failed0, {"changes-unverified"}) \cup {item0}
           claim0 == Item("claim-without-evidence", turn.id, "medium", 0)
<1>6. PICK items, failed, item, more, claim :
         items = items0 /\ failed = failed0 /\ item = item0 /\ more = more0 /\ claim = claim0
  OBVIOUS
<1>7. /\ review' = WithOpen(more, claim) \/ review' = more
      /\ more = IF turn.touched = {} \/ UnverifiedFiles = {} THEN failed
                ELSE Resolved(failed, {"changes-unverified"}) \cup {item}
  BY <1>1, <1>6 DEF AtTurnEnd
<1>8. Watched(failed) = Watched(review)
  <2>1. Watched(items) = Watched(review)
    BY <1>6, WatchedStay
  <2>2. \A key : Watched(WithOpen(items, Item("turn-failed", key, "high", 0))) = Watched(items)
    BY WatchedStay
  <2> QED BY <1>6, <2>1, <2>2
<1>9. Watched(review') = Watched(more)
  <2>1. Watched(WithOpen(more, claim)) = Watched(more)
    <3>1. \A key : Watched(WithOpen(more, Item("claim-without-evidence", key, "medium", 0))) = Watched(more)
      BY WatchedStay
    <3> QED BY <1>6, <3>1
  <2> QED BY <1>7, <2>1
<1>10. /\ item.rule = "changes-unverified" /\ item.key = 0
       /\ item.count = Cardinality(UnverifiedOf(checks, changed))
  BY <1>6, ReportComputed DEF Item
<1>11. FailuresListed(review', checks')
  <2>1. FailuresListed(failed, checks)
    BY <1>8, SameWatched DEF ReportInv
  <2>2. \A r : r.rule = "verification-failed" => (r \in more <=> r \in failed)
    BY <1>7, <1>10 DEF Resolved
  <2>3. FailuresListed(more, checks)
    BY <2>1, <2>2 DEF FailuresListed
  <2>4. FailuresListed(review', checks)
    BY <1>9, <2>3, SameWatched
  <2> QED BY <1>2, <2>4
<1>12. UnverifiedListed(review', UnverifiedOf(checks', changed'),
                        turn'.overSince = seq' /\ turn'.touched # {})
  <2> DEFINE files == UnverifiedOf(checks, changed)
             fresh == turn'.overSince = seq' /\ turn'.touched # {}
  <2>1. UnverifiedFiles = files
    BY ReportComputed
  <2>2. \A r : r.rule = "changes-unverified" => (r \in failed <=> r \in review)
    BY <1>8 DEF Watched
  <2>3. \A r \in review : r.rule = "changes-unverified" => r.key = 0 /\ files # {}
    BY DEF ReportInv, UnverifiedListed
  <2>4. fresh => turn.touched # {}
    BY <1>3
  <2> HIDE DEF files, fresh
  <2>5. CASE turn.touched = {} \/ files = {}
    <3>1. more = failed /\ ~(fresh /\ files # {})
      BY <1>7, <2>1, <2>4, <2>5
    <3>2. \A r \in more : r.rule = "changes-unverified" => r.key = 0 /\ files # {}
      BY <2>2, <2>3, <3>1
    <3>3. UnverifiedListed(more, files, fresh)
      BY <3>1, <3>2 DEF UnverifiedListed
    <3>4. UnverifiedListed(review', files, fresh)
      BY <1>9, <3>3, SameWatched
    <3> QED BY <1>2, <3>4 DEF files, fresh
  <2>6. CASE turn.touched # {} /\ files # {}
    <3>1. more = Resolved(failed, {"changes-unverified"}) \cup {item}
      BY <1>7, <2>1, <2>6
    <3>2. \A r \in more : r.rule = "changes-unverified" => r = item
      BY <3>1 DEF Resolved
    <3>3. item \in more /\ item.count = Cardinality(files)
      BY <1>10, <3>1 DEF files
    <3>4. UnverifiedListed(more, files, fresh)
      BY <1>10, <2>6, <3>2, <3>3 DEF UnverifiedListed
    <3>5. UnverifiedListed(review', files, fresh)
      BY <1>9, <3>4, SameWatched
    <3> QED BY <1>2, <3>5 DEF files, fresh
  <2> QED BY <2>5, <2>6
<1> QED BY <1>4, <1>5, <1>11, <1>12 DEF ReportInv

LEMMA ReportStep ==
    ASSUME ReportInv, ~Ties, MaxLag = 0, [ReportNext]_reportVars
    PROVE  ReportInv'
<1>1. CASE UNCHANGED reportVars
  <2>1. /\ seq' = seq /\ clock' = clock /\ turn' = turn /\ changed' = changed
        /\ checks' = checks /\ review' = review
    BY <1>1 DEF reportVars
  <2>2. ReportTypeOK' /\ InThePast' /\ StaleIsOld'
    BY <2>1 DEF ReportInv, ReportTypeOK, InThePast, StaleIsOld
  <2>3. FailuresListed(review', checks')
        /\ UnverifiedListed(review', UnverifiedOf(checks', changed'),
                            turn'.overSince = seq' /\ turn'.touched # {})
    BY <2>1 DEF ReportInv
  <2> QED BY <2>2, <2>3 DEF ReportInv
<1>2. CASE ReportNext
  <2>1. CASE CheckDone
    BY <2>1, CheckDoneKeeps
  <2>2. CASE TurnEnded
    BY <2>2, TurnEndedKeeps
  <2>3. CASE \E p \in Paths : FileChanged(p)
    BY <2>3, FileChangedKeeps
  <2>4. CASE \/ TurnStarted \/ QuestionAnswered \/ SessionEnded
             \/ \E kind \in {"edit", "check", "question"} : CallMade(kind)
             \/ \E kind \in {"permission", "input"} : Asks(kind)
    BY <2>4, QuietActions
  <2> QED BY <1>2, <2>1, <2>2, <2>3, <2>4 DEF ReportNext
<1> QED BY <1>1, <1>2

\* The summary of a method is of its latest readable run, and counts those
\* after it.
LEMMA SummaryIs ==
    ASSUME Ordered(checks), NEW mm \in Methods, NEW i \in DOMAIN checks, i \in LatestReadable(mm)
    PROVE  Summary(mm) =
             [at |-> i, unreadable |-> Cardinality({j \in i + 1 .. Len(checks) : checks[j].method = mm})]
<1> DEFINE n == Len(checks)
           T == [at : Nat, unreadable : Nat]
           Step(held, k) ==
             IF checks[k].method # mm THEN held
             ELSE IF checks[k].outcome = "unknown" /\ held.at # 0 /\ checks[held.at].outcome # "unknown"
             THEN [held EXCEPT !.unreadable = @ + 1]
             ELSE [at |-> k, unreadable |-> 0]
           Body(f, k) == IF k = 0 THEN [at |-> 0, unreadable |-> 0] ELSE Step(f[k - 1], k)
           reads == CHOOSE f : f = [k \in 0 .. n |-> Body(f, k)]
           Later(k) == {j \in i + 1 .. k : checks[j].method = mm}
<1>1. n \in Nat /\ DOMAIN checks = 1 .. n /\ i \in 1 .. n
  BY DEF Ordered
<1>2. /\ checks[i].method = mm /\ checks[i].outcome # "unknown"
      /\ \A j \in i + 1 .. n : checks[j].method = mm => checks[j].outcome = "unknown"
  BY DEF LatestReadable
<1>3. \A s \in T, k \in 1 .. n : Step(s, k) \in T
  <2> SUFFICES ASSUME NEW s \in T, NEW k \in 1 .. n PROVE Step(s, k) \in T
    OBVIOUS
  <2>1. [s EXCEPT !.unreadable = @ + 1] \in T
    OBVIOUS
  <2>2. [at |-> k, unreadable |-> 0] \in T
    BY <1>1
  <2> HIDE DEF T
  <2> QED BY <2>1, <2>2
<1>4. PICK f \in [0 .. n -> T] :
         f[0] = [at |-> 0, unreadable |-> 0] /\ \A k \in 1 .. n : f[k] = Step(f[k - 1], k)
  <2> DEFINE step == [x \in T \X (1 .. n) |-> Step(x[1], x[2])]
  <2>0. [at |-> 0, unreadable |-> 0] \in T
    OBVIOUS
  <2> HIDE DEF T, Step
  <2>1. step \in [T \X (1 .. n) -> T]
    BY <1>3
  <2>2. \A s \in T, k \in 1 .. n : step[<<s, k>>] = Step(s, k)
    OBVIOUS
  <2> HIDE DEF step
  <2>3. Iterates(n, T, [at |-> 0, unreadable |-> 0], step)
    BY <1>1, <2>0, <2>1, StepsMakeFunction
  <2>4. PICK f \in [0 .. n -> T] :
           f[0] = [at |-> 0, unreadable |-> 0] /\ \A k \in 1 .. n : f[k] = step[<<f[k - 1], k>>]
    BY <2>3 DEF Iterates
  <2>5. \A k \in 1 .. n : f[k - 1] \in T
    BY <1>1
  <2> QED BY <2>2, <2>4, <2>5
<1>5. f = [k \in 0 .. n |-> Body(f, k)]
  <2>1. ASSUME NEW k \in 0 .. n
        PROVE  f[k] = Body(f, k)
    <3>1. k = 0 \/ (k # 0 /\ k \in 1 .. n)
      BY <1>1
    <3> HIDE DEF Step, T
    <3> QED BY <1>4, <3>1
  <2> HIDE DEF Body
  <2> QED BY <2>1
<1>6. reads = [k \in 0 .. n |-> Body(reads, k)]
  <2> HIDE DEF Body
  <2> QED BY <1>5
<1>7. Summary(mm) = reads[n]
  BY DEF Summary
<1> HIDE DEF reads
<1>8. \A k \in 0 .. n : reads[k] = Body(reads, k)
  <2> HIDE DEF Body
  <2> QED BY <1>6
<1> DEFINE right == {k \in 0 .. n : k < i \/ reads[k] = [at |-> i, unreadable |-> Cardinality(Later(k))]}
<1>9. 0 \in right
  BY <1>1
<1>10. ASSUME NEW k \in 1 .. n, k - 1 \in right
       PROVE  k \in right
  <2>1. k \in 0 .. n /\ k # 0 /\ k - 1 \in 0 .. n /\ k \in Nat /\ i \in Nat /\ i # 0
    BY <1>1
  <2>2. reads[k] = Step(reads[k - 1], k)
    <3> HIDE DEF Step
    <3> QED BY <1>8, <2>1
  <2>3. CASE k < i
    BY <2>1, <2>3
  <2>4. CASE k = i
    <3>1. Later(k) = {}
      BY <2>1, <2>4
    <3>2. Cardinality(Later(k)) = 0
      BY <3>1, FS_EmptySet
    <3>3. reads[k] = [at |-> i, unreadable |-> 0]
      BY <1>2, <2>2, <2>4
    <3> QED BY <2>1, <3>2, <3>3
  <2>5. CASE i < k
    <3>1. ~(k - 1 < i) /\ k \in i + 1 .. n
      BY <2>1, <2>5
    <3>2. PICK c : c = Cardinality(Later(k - 1))
      OBVIOUS
    <3>3. reads[k - 1] = [at |-> i, unreadable |-> c]
      BY <1>10, <3>1, <3>2
    <3>4. CASE checks[k].method # mm
      <4>1. \A j \in i + 1 .. k : j # k => j \in i + 1 .. k - 1
        BY <2>1
      <4>2. \A j \in i + 1 .. k - 1 : j \in i + 1 .. k
        BY <2>1
      <4>3. Later(k) = Later(k - 1)
        BY <3>4, <4>1, <4>2
      <4>4. reads[k] = reads[k - 1]
        BY <2>2, <3>4
      <4> QED BY <2>1, <3>2, <3>3, <4>3, <4>4
    <3>5. CASE checks[k].method = mm
      <4>1. Later(k) = Later(k - 1) \cup {k} /\ k \notin Later(k - 1)
        <5>1. \A j \in i + 1 .. k : j # k => j \in i + 1 .. k - 1
          BY <2>1
        <5>2. \A j \in i + 1 .. k - 1 : j \in i + 1 .. k /\ j # k
          BY <2>1
        <5>3. k \in i + 1 .. k
          BY <2>1, <3>1
        <5> QED BY <3>5, <5>1, <5>2, <5>3
      <4>2. IsFiniteSet(Later(k - 1))
        <5>1. IsFiniteSet(i + 1 .. k - 1)
          BY <2>1, FS_Interval
        <5> QED BY <5>1, FS_Subset
      <4>3. Cardinality(Later(k)) = c + 1
        <5> HIDE DEF Later
        <5> QED BY <3>2, <4>1, <4>2, FS_AddElement
      <4>4. checks[k].outcome = "unknown"
        BY <1>2, <3>1, <3>5
      <4>5. reads[k] = [at |-> i, unreadable |-> c + 1]
        BY <1>2, <2>1, <2>2, <3>3, <3>5, <4>4
      <4> QED BY <2>1, <4>3, <4>5
    <3> QED BY <3>4, <3>5
  <2> QED BY <2>1, <2>3, <2>4, <2>5
<1>11. n \in right
  <2>1. n \in 0 .. n
    BY <1>1
  <2> HIDE DEF right
  <2> QED BY <1>1, <1>9, <1>10, <2>1, UpToN
<1> QED BY <1>1, <1>7, <1>11

\* The invariant says all that the report must.
LEMMA ReportInvAnswers ==
    ASSUME ReportInv
    PROVE  ReportGivesOneAnswer
<1>0. /\ Ordered(checks) /\ changed \in [Paths -> Nat]
      /\ UnverifiedFiles = UnverifiedOf(checks, changed) /\ FailingMethods = FailingOf(checks)
      /\ LastPass = LastPassOf(checks) /\ UnclearedFailures = UnclearedOf(checks)
  BY ReportComputed DEF ReportInv, ReportTypeOK
<1>1. {r.key : r \in {i \in review : i.rule = "verification-failed"}} = FailingMethods
  <2> DEFINE keys == {r.key : r \in {i \in review : i.rule = "verification-failed"}}
  <2>1. \A m : m \in keys <=> \E r \in review : r.rule = "verification-failed" /\ r.key = m
    OBVIOUS
  <2>2. \A m : m \in keys <=> m \in FailingMethods
    BY <1>0, <2>1 DEF ReportInv, FailuresListed
  <2> HIDE DEF keys
  <2>3. keys = FailingMethods
    BY <2>2
  <2> QED BY <2>3 DEF keys
<1>2. \A r \in review : r.rule = "changes-unverified" =>
         /\ UnverifiedFiles # {}
         /\ turn.overSince = seq /\ turn.touched # {} => r.count = Cardinality(UnverifiedFiles)
  BY <1>0 DEF ReportInv, UnverifiedListed
<1>3. seq > 0 /\ turn.overSince = seq /\ turn.touched # {} /\ UnverifiedFiles # {} =>
         IsOpen(review, "changes-unverified", 0)
  BY <1>0 DEF ReportInv, UnverifiedListed, IsOpen
<1>4. LastPass # 0 => (checks[LastPass].stale <=> UnverifiedFiles # {})
  <2> SUFFICES ASSUME LastPass # 0
               PROVE  checks[LastPass].stale <=> UnverifiedFiles # {}
    OBVIOUS
  <2>1. LastPass \in DOMAIN checks
    BY <1>0, LastPassIs DEF PassesOf
  <2>2. checks[LastPass].at > 0 /\ checks[LastPass].at \in Nat
    <3>1. checks[LastPass] \in CheckRecords
      BY <1>0, <2>1 DEF Ordered
    <3> QED BY <1>0, <2>1, <3>1 DEF Ordered, CheckRecords
  <2>3. \A p \in Paths : p \in UnverifiedFiles <=> changed[p] > checks[LastPass].at
    BY <1>0, <2>2 DEF UnverifiedOf
  <2>4. checks[LastPass].stale <=> \E p \in Paths : changed[p] > checks[LastPass].at
    BY <2>1 DEF ReportInv, StaleIsOld
  <2>5. UnverifiedFiles \subseteq Paths
    BY <1>0 DEF UnverifiedOf
  <2> QED BY <2>3, <2>4, <2>5
<1>5. Verdict = "pass" => ~\E r \in review : r.rule \in {"verification-failed", "changes-unverified"}
  <2> SUFFICES ASSUME Verdict = "pass"
               PROVE  ~\E r \in review : r.rule \in {"verification-failed", "changes-unverified"}
    OBVIOUS
  <2>1. UnclearedFailures = {} /\ ~(ChangedFiles # {} /\ UnverifiedFiles # {})
    BY DEF Verdict
  <2>2. FailingMethods = {}
    BY <2>1 DEF FailingMethods
  <2>3. UnverifiedFiles = {}
    BY <2>1 DEF UnverifiedFiles
  <2>4. ~\E r \in review : r.rule = "verification-failed"
    BY <1>0, <2>2 DEF ReportInv, FailuresListed
  <2> QED BY <1>2, <2>3, <2>4
<1>6. \A m \in Methods, i \in DOMAIN checks :
         i \in LatestReadable(m) => Summary(m) =
           [at |-> i, unreadable |-> Cardinality({j \in i + 1 .. Len(checks) : checks[j].method = m})]
  BY <1>0, SummaryIs
<1> QED BY <1>1, <1>2, <1>3, <1>4, <1>5, <1>6 DEF ReportGivesOneAnswer

\* One report gives one answer, of the items and of what is computed, when
\* each change and each check has a time of its own, after those before it.
THEOREM ReportInvariant ==
    ~Ties /\ MaxLag = 0 => (ReportSpec => []ReportInv)
<1> SUFFICES ASSUME ~Ties, MaxLag = 0
             PROVE  ReportSpec => []ReportInv
  OBVIOUS
<1>1. ReportInit => ReportInv
  BY ReportStarts, ReportAssumption
<1>2. ReportInv /\ [ReportNext]_reportVars => ReportInv'
  BY ReportStep
<1> QED BY <1>1, <1>2, PTL DEF ReportSpec
-----------------------------------------------------------------------------
(* The parts together                                                      *)

\* A behaviour of the parts together is one of each.
LEMMA PartsAlone ==
    DerivedSpec => /\ RolloutSpec /\ TurnsSpec /\ TranscriptSpec /\ MappingSpec
                   /\ ReportSpec
<1>1. DerivedInit => RolloutInit /\ TurnsInit /\ TranscriptInit /\ MappingInit /\ ReportInit
  BY DEF DerivedInit
<1>2. ASSUME [DerivedNext]_derivedVars
      PROVE  /\ [RolloutNext]_rolloutVars /\ [TurnsNext]_turnVars
             /\ [TranscriptNext]_transcriptVars /\ [MappingNext]_mappingVars
             /\ [ReportNext]_reportVars
  <2>1. CASE UNCHANGED derivedVars
    BY <2>1 DEF derivedVars, adapterVars, logVars
  <2>2. CASE LogNext /\ UNCHANGED adapterVars
    <3>1. UNCHANGED <<rolloutVars, turnVars, transcriptVars, mappingVars>>
      BY <2>2 DEF adapterVars
    <3>2. [ReportNext]_reportVars
      BY <2>2 DEF LogNext
    <3> QED BY <3>1, <3>2
  <2>3. CASE AdapterNext /\ UNCHANGED logVars
    <3>1. UNCHANGED reportVars
      BY <2>3 DEF logVars
    <3>2. /\ [RolloutNext]_rolloutVars /\ [TurnsNext]_turnVars
          /\ [TranscriptNext]_transcriptVars /\ [MappingNext]_mappingVars
      BY <2>3 DEF AdapterNext
    <3> QED BY <3>1, <3>2
  <2> QED BY <1>2, <2>1, <2>2, <2>3 DEF DerivedNext
<1> QED BY <1>1, <1>2, PTL DEF DerivedSpec, RolloutSpec, TurnsSpec, TranscriptSpec,
                               MappingSpec, ReportSpec

\* What the adapters tell is what the providers recorded, when Codex prints
\* the whole of what a command said, each prompt of Claude Code has a name of
\* its own, and a file is read from its start after a restart.
THEOREM AdaptersTell ==
    PrintsAll /\ NamesPrompts /\ ~ResumesMidFile => (DerivedSpec => []AdaptersTellTheTruth)
<1> SUFFICES ASSUME PrintsAll, NamesPrompts, ~ResumesMidFile
             PROVE  DerivedSpec => []AdaptersTellTheTruth
  OBVIOUS
<1>1. DerivedSpec => []RolloutInv /\ []TurnsInv /\ []TranscriptInv /\ []MappingInv
  BY PartsAlone, RolloutInvariant, TurnsInvariant, TranscriptInvariant, MappingInvariant, PTL
<1>2. RolloutInv => CompletionIsItsOwn
  BY RolloutInvOwns
<1>3. TurnsInv => NothingIsMisfiled
  BY DEF TurnsInv
<1>4. TranscriptInv => TranscriptTold
  BY TranscriptInvTells, TranscriptAssumption
<1>5. MappingInv => RowsAreToldWhole
  BY MappingInvTells
<1>6. RolloutInv /\ TurnsInv /\ TranscriptInv /\ MappingInv => AdaptersTellTheTruth
  BY <1>2, <1>3, <1>4, <1>5 DEF AdaptersTellTheTruth
<1> QED BY <1>1, <1>6, PTL

\* The report gives one answer, when each change and each check has a time of
\* its own, after those before it.
THEOREM ReportAnswers ==
    ~Ties /\ MaxLag = 0 => (DerivedSpec => []ReportGivesOneAnswer)
<1> SUFFICES ASSUME ~Ties, MaxLag = 0
             PROVE  DerivedSpec => []ReportGivesOneAnswer
  OBVIOUS
<1>1. DerivedSpec => []ReportInv
  BY PartsAlone, ReportInvariant, PTL
<1>2. ReportInv => ReportGivesOneAnswer
  BY ReportInvAnswers
<1> QED BY <1>1, <1>2, PTL
=============================================================================
