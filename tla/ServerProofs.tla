----------------------------- MODULE ServerProofs -----------------------------
(***************************************************************************)
(* The theorems about what a daemon answers: the maps of a repository, for *)
(* any number of grants, commits and requests; the pages that change       *)
(* settings, for any number of requests under way; the calls that explain  *)
(* sessions, for any number of sessions and helpers; and the change feed,  *)
(* for any number of sessions, events and connections.                     *)
(***************************************************************************)
EXTENDS ProjectMap, PageSettings, Explainer, ConsumerFeed, FiniteSetTheorems,
        SequenceTheorems, TLAPS

-----------------------------------------------------------------------------
(* Maps: the inductive invariant                                           *)

Dirs == GitDirs \cup {"none"}
Grants == [at : Nat, dir : Dirs]
Tasks == [kind : {"map", "commit"}, grant : Grants, commit : Commits,
          phase : {"waiting", "locating", "reading"}, dir : Dirs]
Maps == [at : Nat, commit : Commits, dir : Dirs]

MapTypeOK ==
    /\ grant \in Grants /\ grants \in Nat /\ forgetting \in Nat
    /\ resolves \in GitDirs
    /\ objects \in [GitDirs -> SUBSET Commits] /\ moves \in Nat
    /\ queue \in Seq(Tasks)
    /\ memory \subseteq Maps /\ disk \subseteq Maps
    /\ checkedCommits \subseteq [at : Nat, commit : Commits, exists : BOOLEAN]
    /\ said \in [kind : {"nothing", "map", "commit"}, at : Nat, dir : Dirs]

\* Grants are numbered; number 0 is that of no grant.
GrantsAreNumbered ==
    /\ grant.at <= grants
    /\ grant.at = 0 => grant = None

\* What a number says of the grant in force, it says of its directory.
SameGrant(g) ==
    /\ g.at \in 1 .. grants
    /\ g.at = grant.at => g.dir = grant.dir

\* Requests were accepted under a grant, and read where it allows.
TasksAreGranted ==
    \A i \in DOMAIN queue :
        /\ SameGrant(queue[i].grant)
        /\ queue[i].phase = "reading" => queue[i].dir = queue[i].grant.dir

MapsAreGranted == \A e \in memory \cup disk : SameGrant(e)

MapInv ==
    /\ MapTypeOK
    /\ GrantsAreNumbered
    /\ TasksAreGranted
    /\ MapsAreGranted
    /\ ServedUnderGrant

-----------------------------------------------------------------------------
(* Maps: what the steps of the queue do to it                              *)

\* The head of the queue is one of its tasks, and the tail has the others.
LEMMA HeadAndTail ==
    ASSUME NEW S, NEW q \in Seq(S), q # <<>>
    PROVE  /\ Head(q) \in S /\ 1 \in DOMAIN q /\ Head(q) = q[1]
           /\ Tail(q) \in Seq(S)
           /\ \A i \in DOMAIN Tail(q) : i + 1 \in DOMAIN q /\ Tail(q)[i] = q[i + 1]
<1>1. Len(q) \in Nat /\ Len(q) # 0 /\ DOMAIN q = 1 .. Len(q)
  OBVIOUS
<1>2. Tail(q) \in Seq(S) /\ Len(Tail(q)) = Len(q) - 1
  BY <1>1
<1>3. \A i \in 1 .. Len(q) - 1 : Tail(q)[i] = q[i + 1]
  BY <1>1
<1> QED
  BY <1>1, <1>2, <1>3

\* The head is replaced, the others stay where they are.
LEMMA HeadReplaced ==
    ASSUME NEW S, NEW q \in Seq(S), q # <<>>, NEW x \in S
    PROVE  LET r == <<x>> \o Tail(q)
           IN  /\ r \in Seq(S) /\ DOMAIN r = DOMAIN q
               /\ \A i \in DOMAIN q : r[i] = IF i = 1 THEN x ELSE q[i]
<1>1. Tail(q) \in Seq(S) /\ Len(Tail(q)) = Len(q) - 1 /\ Len(q) \in Nat \ {0}
  OBVIOUS
<1>2. \A i \in 1 .. Len(q) - 1 : Tail(q)[i] = q[i + 1]
  BY <1>1
<1> DEFINE r == <<x>> \o Tail(q)
<1>3. r \in Seq(S) /\ Len(r) = Len(q)
  BY <1>1
<1>4. \A i \in 1 .. Len(r) : r[i] = IF i = 1 THEN x ELSE Tail(q)[i - 1]
  BY <1>1, <1>3
<1> QED
  BY <1>1, <1>2, <1>3, <1>4

\* A new task is one of the grant in force, and waits.
LEMMA TaskAppended ==
    ASSUME MapTypeOK, GrantsAreNumbered, TasksAreGranted, grant # None,
           NEW kind \in {"map", "commit"}, NEW c \in Commits,
           queue' = Append(queue, Task(kind, c)), UNCHANGED <<grant, grants>>
    PROVE  queue' \in Seq(Tasks) /\ TasksAreGranted'
<1> DEFINE t == Task(kind, c)
<1>1. t \in Tasks /\ t.grant = grant /\ t.phase = "waiting"
  BY DEF Task, Tasks, MapTypeOK, Dirs
<1>2. SameGrant(t.grant)
  BY <1>1 DEF SameGrant, GrantsAreNumbered, MapTypeOK, Grants
<1> HIDE DEF t
<1>3. queue' \in Seq(Tasks) /\ Len(queue') = Len(queue) + 1 /\ Len(queue) \in Nat
  BY <1>1 DEF MapTypeOK, t
<1>4. \A i \in 1 .. Len(queue') : queue'[i] = IF i = Len(queue) + 1 THEN t ELSE queue[i]
  BY <1>3 DEF MapTypeOK, t
<1>5. ASSUME NEW i \in DOMAIN queue'
      PROVE  /\ SameGrant(queue'[i].grant)
             /\ queue'[i].phase = "reading" => queue'[i].dir = queue'[i].grant.dir
  <2>1. CASE i = Len(queue) + 1
    BY <1>1, <1>2, <1>3, <1>4, <2>1
  <2>2. CASE i # Len(queue) + 1
    <3>1. i \in DOMAIN queue /\ queue'[i] = queue[i]
      BY <1>3, <1>4, <2>2 DEF MapTypeOK
    <3> QED
      BY <3>1 DEF TasksAreGranted
  <2> QED
    BY <2>1, <2>2
<1> QED
  BY <1>3, <1>5 DEF TasksAreGranted, SameGrant

\* A task that leaves leaves the others as they were.
LEMMA TaskDone ==
    ASSUME MapTypeOK, TasksAreGranted, queue # <<>>, Done, UNCHANGED <<grant, grants>>
    PROVE  queue' \in Seq(Tasks) /\ TasksAreGranted'
<1>1. /\ queue' \in Seq(Tasks)
      /\ \A i \in DOMAIN queue' : i + 1 \in DOMAIN queue /\ queue'[i] = queue[i + 1]
  BY HeadAndTail DEF MapTypeOK, Done
<1>2. ASSUME NEW i \in DOMAIN queue'
      PROVE  /\ SameGrant(queue'[i].grant)
             /\ queue'[i].phase = "reading" => queue'[i].dir = queue'[i].grant.dir
  BY <1>1 DEF TasksAreGranted
<1> QED
  BY <1>1, <1>2 DEF TasksAreGranted, SameGrant

\* What the running task is.
LEMMA RunningIsGranted ==
    ASSUME MapTypeOK, TasksAreGranted, queue # <<>>
    PROVE  /\ Running \in Tasks /\ SameGrant(Running.grant)
           /\ Running.phase = "reading" => Running.dir = Running.grant.dir
BY HeadAndTail DEF MapTypeOK, TasksAreGranted, Running

\* A task that moves on to read has found the directory of its grant.
LEMMA TaskMovesOn ==
    ASSUME MapTypeOK, TasksAreGranted, queue # <<>>, NEW d \in Dirs,
           NEW phase \in {"locating", "reading"}, MoveOn(phase, d),
           phase = "reading" => IsGranted(d), UNCHANGED <<grant, grants>>
    PROVE  queue' \in Seq(Tasks) /\ TasksAreGranted'
<1> DEFINE t == [Running EXCEPT !.phase = phase, !.dir = d]
<1>1. /\ t \in Tasks /\ SameGrant(t.grant)
      /\ t.phase = "reading" => t.dir = t.grant.dir
  BY RunningIsGranted DEF Tasks, IsGranted
<1> HIDE DEF t
<1>2. queue \in Seq(Tasks) /\ queue' = <<t>> \o Tail(queue)
  BY DEF MapTypeOK, MoveOn, t
<1>3. /\ queue' \in Seq(Tasks) /\ DOMAIN queue' = DOMAIN queue
      /\ \A i \in DOMAIN queue : queue'[i] = IF i = 1 THEN t ELSE queue[i]
  BY <1>1, <1>2, HeadReplaced
<1>4. ASSUME NEW i \in DOMAIN queue'
      PROVE  /\ SameGrant(queue'[i].grant)
             /\ queue'[i].phase = "reading" => queue'[i].dir = queue'[i].grant.dir
  BY <1>1, <1>3 DEF TasksAreGranted
<1> QED
  BY <1>3, <1>4 DEF TasksAreGranted, SameGrant

-----------------------------------------------------------------------------
(* Maps: the steps                                                         *)

\* The person's commands change no task and no map; a new grant has a new
\* number, and a revocation leaves none.
LEMMA CommandKeepsMapInv ==
    ASSUME MapInv, Allow \/ Revoke \/ DeleteCached \/ RepositoryChanges
    PROVE  MapInv'
<1> USE DEF MapInv, MapTypeOK, GrantsAreNumbered, TasksAreGranted, MapsAreGranted,
            SameGrant, ServedUnderGrant, NoAnswer, Grants, Dirs
<1>0. queue' = queue
  BY DEF Allow, Revoke, DeleteCached, RepositoryChanges
<1>1. CASE Allow
  <2>1. grant'.at = grants + 1 /\ grants' = grants + 1 /\ grant' \in Grants
    BY <1>1 DEF Allow
  <2>2. ASSUME NEW g, g.at \in 1 .. grants
        PROVE  g.at \in 1 .. grants' /\ g.at # grant'.at
    BY <2>1, <2>2
  <2>3. MapTypeOK' /\ GrantsAreNumbered' /\ said'.kind = "nothing"
    BY <1>1, <2>1 DEF Allow
  <2>4. \A g : SameGrant(g) => SameGrant(g)'
    BY <2>1, <2>2
  <2>5. TasksAreGranted' /\ MapsAreGranted'
    BY <1>0, <1>1, <2>4 DEF Allow
  <2> QED
    BY <2>3, <2>5
<1>2. CASE Revoke
  <2>1. grant' = None /\ grants' = grants /\ None \in Grants
    BY <1>2 DEF Revoke, None
  <2>2. MapTypeOK' /\ GrantsAreNumbered' /\ said'.kind = "nothing"
    BY <1>2, <2>1 DEF Revoke, None
  <2>3. \A g : SameGrant(g) => SameGrant(g)'
    BY <2>1 DEF None
  <2>4. TasksAreGranted' /\ MapsAreGranted'
    BY <1>0, <1>2, <2>3 DEF Revoke
  <2> QED
    BY <2>2, <2>4
<1>3. CASE DeleteCached
  BY <1>3 DEF DeleteCached
<1>4. CASE RepositoryChanges
  <2>1. resolves' \in GitDirs /\ objects' \in [GitDirs -> SUBSET Commits] /\ moves' \in Nat
    BY <1>4 DEF RepositoryChanges
  <2> QED
    BY <1>4, <2>1 DEF RepositoryChanges
<1> QED
  BY <1>1, <1>2, <1>3, <1>4

\* A request finds only maps of the grant in force, or waits under it.
LEMMA RequestKeepsMapInv ==
    ASSUME MapInv, NEW c \in Commits, GetMap(c) \/ CommitExists(c)
    PROVE  MapInv'
<1> USE DEF MapInv
<1>1. UNCHANGED <<grant, grants, forgetting, resolves, objects, moves, memory, disk, checkedCommits>>
      /\ grant # None
  BY DEF GetMap, CommitExists
<1>2. queue' \in Seq(Tasks) /\ TasksAreGranted'
  <2>1. CASE UNCHANGED queue
    BY <1>1, <2>1 DEF TasksAreGranted, SameGrant, MapTypeOK
  <2>2. CASE queue' = Append(queue, Task("map", c))
    BY <1>1, <2>2, TaskAppended
  <2>3. CASE queue' = Append(queue, Task("commit", c))
    BY <1>1, <2>3, TaskAppended
  <2> QED
    BY <2>1, <2>2, <2>3 DEF GetMap, CommitExists
<1>3. said' \in [kind : {"nothing", "map", "commit"}, at : Nat, dir : Dirs] /\ ServedUnderGrant'
  <2>1. CASE CommitExists(c)
    BY <1>1, <2>1 DEF CommitExists, ServedUnderGrant, NoAnswer, MapTypeOK, Grants, Dirs
  <2>2. CASE GetMap(c)
    <3>1. CASE said' = NoAnswer
      BY <3>1 DEF ServedUnderGrant, NoAnswer, Dirs
    <3>2. CASE \E e \in Found(memory, c) : said' = [kind |-> "map", at |-> grant.at, dir |-> e.dir]
      <4>1. PICK e \in Found(memory, c) : said' = [kind |-> "map", at |-> grant.at, dir |-> e.dir]
        BY <3>2
      <4>2. e.at = grant.at /\ e.dir = grant.dir
        BY <4>1 DEF Found, MapsAreGranted, SameGrant
      <4> QED
        BY <1>1, <4>1, <4>2 DEF ServedUnderGrant, MapTypeOK, Grants
    <3> QED
      BY <2>2, <3>1, <3>2 DEF GetMap
  <2> QED
    BY <2>1, <2>2
<1> QED
  BY <1>1, <1>2, <1>3 DEF MapTypeOK, GrantsAreNumbered, MapsAreGranted, SameGrant

\* A map that is served is of the grant in force, and so are all it is kept with.
LEMMA ServedMap ==
    ASSUME MapInv, NEW entry \in Maps, SameGrant(entry), entry.at = grant.at,
           ServeMap(entry), UNCHANGED <<grant, grants>>
    PROVE  /\ memory' \subseteq Maps /\ \A e \in memory' : SameGrant(e)
           /\ said' \in [kind : {"nothing", "map", "commit"}, at : Nat, dir : Dirs]
           /\ ServedUnderGrant'
BY DEF MapInv, MapTypeOK, MapsAreGranted, ServeMap, UnderGrant, SameGrant, Maps, Grants,
       ServedUnderGrant

\* Its turn has come: it is served from disk only under its own grant.
LEMMA TurnKeepsMapInv ==
    ASSUME MapInv, TakeTurn
    PROVE  MapInv'
<1> USE DEF MapInv
<1>1. /\ UNCHANGED <<grant, grants, forgetting, resolves, objects, moves, disk, checkedCommits>>
      /\ queue # <<>>
  BY DEF TakeTurn
<1>2. Running \in Tasks /\ SameGrant(Running.grant)
  BY <1>1, RunningIsGranted
<1>3. CASE said' = NoAnswer /\ UNCHANGED memory /\ (Done \/ MoveOn("locating", "none"))
  <2>1. queue' \in Seq(Tasks) /\ TasksAreGranted'
    BY <1>1, <1>3, TaskDone, TaskMovesOn DEF Dirs
  <2>2. said'.kind = "nothing" /\ said' \in [kind : {"nothing", "map", "commit"}, at : Nat, dir : Dirs]
    BY <1>3 DEF NoAnswer, Dirs
  <2> QED
    BY <1>1, <1>3, <2>1, <2>2
       DEF MapTypeOK, GrantsAreNumbered, MapsAreGranted, SameGrant, ServedUnderGrant
<1>4. CASE /\ GrantHolds(Running) /\ Done
           /\ \E e \in disk : e.at = Running.grant.at /\ ServeMap(e)
  <2>1. PICK e \in disk : e.at = Running.grant.at /\ ServeMap(e)
    BY <1>4
  <2>2. e \in Maps /\ SameGrant(e) /\ e.at = grant.at
    BY <1>4, <2>1 DEF MapTypeOK, MapsAreGranted, GrantHolds
  <2>3. /\ memory' \subseteq Maps /\ \A f \in memory' : SameGrant(f)
        /\ said' \in [kind : {"nothing", "map", "commit"}, at : Nat, dir : Dirs]
        /\ ServedUnderGrant'
    BY <1>1, <2>1, <2>2, ServedMap
  <2>4. queue' \in Seq(Tasks) /\ TasksAreGranted'
    BY <1>1, <1>4, TaskDone
  <2> QED
    BY <1>1, <2>3, <2>4 DEF MapTypeOK, GrantsAreNumbered, MapsAreGranted, SameGrant
<1> QED
  BY <1>3, <1>4 DEF TakeTurn

\* Finding the directory of a grant, or finding that it moved.
LEMMA LocateKeepsMapInv ==
    ASSUME MapInv, Locate
    PROVE  MapInv'
<1> USE DEF MapInv
<1>1. /\ UNCHANGED <<grant, grants, forgetting, resolves, objects, moves, memory, disk, checkedCommits>>
      /\ queue # <<>> /\ said' = NoAnswer
  BY DEF Locate
<1>2. queue' \in Seq(Tasks) /\ TasksAreGranted'
  <2>1. CASE Done
    BY <1>1, <2>1, TaskDone
  <2>2. CASE IsGranted(resolves) /\ MoveOn("reading", resolves)
    BY <1>1, <2>2, TaskMovesOn DEF MapTypeOK, Dirs
  <2> QED
    BY <2>1, <2>2 DEF Locate
<1> QED
  BY <1>1, <1>2 DEF MapTypeOK, GrantsAreNumbered, MapsAreGranted, SameGrant, ServedUnderGrant,
                    NoAnswer, Dirs

\* What is read is kept and served under the grant it was read for.
LEMMA FinishKeepsMapInv ==
    ASSUME MapInv, FinishMap \/ FinishCheck
    PROVE  MapInv'
<1> USE DEF MapInv
<1>1. /\ UNCHANGED <<grant, grants, forgetting, resolves, objects, moves>>
      /\ queue # <<>> /\ Done /\ Running.phase = "reading"
  BY DEF FinishMap, FinishCheck
<1>2. /\ Running \in Tasks /\ SameGrant(Running.grant)
      /\ Running.dir = Running.grant.dir
  BY <1>1, RunningIsGranted
<1>3. queue' \in Seq(Tasks) /\ TasksAreGranted'
  BY <1>1, TaskDone
<1>4. \A exists \in BOOLEAN : Remember(exists) =>
        checkedCommits' \subseteq [at : Nat, commit : Commits, exists : BOOLEAN]
  BY <1>2 DEF Remember, MapTypeOK, Tasks, Grants
<1>5. CASE /\ UNCHANGED <<memory, disk>>
           /\ said' = NoAnswer \/ said' = [kind |-> "commit", at |-> Running.grant.at, dir |-> Running.dir]
           /\ UNCHANGED checkedCommits \/ \E exists \in BOOLEAN : Remember(exists)
  <2>1. /\ said' \in [kind : {"nothing", "map", "commit"}, at : Nat, dir : Dirs]
        /\ said'.kind # "map"
    BY <1>2, <1>5 DEF NoAnswer, Dirs, Tasks, Grants
  <2>2. checkedCommits' \subseteq [at : Nat, commit : Commits, exists : BOOLEAN]
    BY <1>4, <1>5 DEF MapTypeOK
  <2> QED
    BY <1>1, <1>3, <1>5, <2>1, <2>2
       DEF MapTypeOK, GrantsAreNumbered, MapsAreGranted, SameGrant, ServedUnderGrant
<1>6. CASE LET entry == Entry(Running.grant.at, Running.commit, Running.dir)
           IN  /\ GrantHolds(Running) /\ UNCHANGED checkedCommits
               /\ disk' = UnderGrant(disk \cup {entry}) /\ ServeMap(entry)
  <2> DEFINE entry == Entry(Running.grant.at, Running.commit, Running.dir)
  <2>1. entry \in Maps /\ SameGrant(entry) /\ entry.at = grant.at
    BY <1>2, <1>6 DEF Entry, Maps, Tasks, Grants, GrantHolds, SameGrant
  <2> HIDE DEF entry
  <2>2. ServeMap(entry) /\ disk' = UnderGrant(disk \cup {entry})
    BY <1>6 DEF entry
  <2>3. /\ memory' \subseteq Maps /\ \A f \in memory' : SameGrant(f)
        /\ said' \in [kind : {"nothing", "map", "commit"}, at : Nat, dir : Dirs]
        /\ ServedUnderGrant'
    BY <1>1, <2>1, <2>2, ServedMap
  <2>4. disk' \subseteq Maps /\ \A f \in disk' : SameGrant(f)
    BY <2>1, <2>2 DEF UnderGrant, MapTypeOK, MapsAreGranted
  <2> QED
    BY <1>1, <1>3, <1>6, <2>3, <2>4 DEF MapTypeOK, GrantsAreNumbered, MapsAreGranted, SameGrant
<1>7. HasCommit \in BOOLEAN
  BY DEF HasCommit
<1>8. CASE FinishCheck
  <2> HIDE DEF MapInv
  <2>1. UNCHANGED <<memory, disk>>
    BY <1>8 DEF FinishCheck
  <2>2. \/ Remember(HasCommit) /\ said' = [kind |-> "commit", at |-> Running.grant.at, dir |-> Running.dir]
        \/ said' = NoAnswer /\ UNCHANGED checkedCommits
    BY <1>8 DEF FinishCheck
  <2> QED
    BY <1>5, <1>7, <2>1, <2>2
<1>9. CASE FinishMap
  <2> HIDE DEF MapInv
  <2>1. \/ said' = NoAnswer /\ UNCHANGED <<memory, disk, checkedCommits>>
        \/ Remember(FALSE) /\ said' = NoAnswer /\ UNCHANGED <<memory, disk>>
        \/ LET entry == Entry(Running.grant.at, Running.commit, Running.dir)
           IN  /\ GrantHolds(Running) /\ UNCHANGED checkedCommits
               /\ disk' = UnderGrant(disk \cup {entry}) /\ ServeMap(entry)
    BY <1>9 DEF FinishMap
  <2>2. FALSE \in BOOLEAN
    OBVIOUS
  <2> QED
    BY <1>5, <1>6, <2>1, <2>2
<1> QED
  BY <1>8, <1>9

\* The maps, tasks and grants of a repository keep their types, and agree on
\* the directory of each grant (optIn.ts, service.ts, cache.ts).
THEOREM MapInvariant == MapSpec => []MapInv
<1>1. MapInit => MapInv
  BY MapAssumption DEF MapInit, MapInv, MapTypeOK, GrantsAreNumbered, TasksAreGranted, MapsAreGranted,
     ServedUnderGrant, None, NoAnswer, Grants, Dirs
<1>2. MapInv /\ [MapNext]_mapVars => MapInv'
  <2> SUFFICES ASSUME MapInv, [MapNext]_mapVars PROVE MapInv'
    OBVIOUS
  <2>1. CASE Allow \/ Revoke \/ DeleteCached \/ RepositoryChanges
    BY <2>1, CommandKeepsMapInv
  <2>2. ASSUME NEW c \in Commits, GetMap(c) \/ CommitExists(c) PROVE MapInv'
    BY <2>2, RequestKeepsMapInv
  <2>3. CASE TakeTurn
    BY <2>3, TurnKeepsMapInv
  <2>4. CASE Locate
    BY <2>4, LocateKeepsMapInv
  <2>5. CASE FinishMap \/ FinishCheck
    BY <2>5, FinishKeepsMapInv
  <2>6. CASE UNCHANGED mapVars
    BY <2>6 DEF mapVars, MapInv, MapTypeOK, GrantsAreNumbered, TasksAreGranted, MapsAreGranted,
       SameGrant, ServedUnderGrant
  <2> QED
    BY <2>1, <2>2, <2>3, <2>4, <2>5, <2>6 DEF MapNext
<1> QED
  BY <1>1, <1>2, PTL DEF MapSpec

\* A map that is served was read under the grant in force, from the directory
\* it names, whatever was revoked and allowed again meanwhile (service.ts).
THEOREM MapsServedUnderGrant == MapSpec => []ServedUnderGrant
<1>1. MapInv => ServedUnderGrant
  BY DEF MapInv
<1> QED
  BY <1>1, MapInvariant, PTL

-----------------------------------------------------------------------------
(* Settings: the inductive invariant                                       *)

Configs == [rev : Nat, content : Nat]
Bodies == [config : Configs \cup {NothingRead}, alerts : Nat, profile : Nat]
Overviews == [config : Configs, alerts : Nat, profile : Nat]
Stages == {"sent", "reread", "writing", "answered", "conflict", "failed"}
PageRequests == [id : Nat, kind : RequestKinds, token : Nat, stage : Stages, body : Bodies]

SettingsTypeOK ==
    /\ config \in Configs /\ {alerts, profile, changed} \subseteq Nat
    /\ {token, tokens, shownProfile, tailored, owner} \subseteq Nat
    /\ {asked, askedOverview, askedProfile} \subseteq Nat
    /\ shown \in Overviews \cup {NothingRead}
    /\ requests \subseteq PageRequests
    /\ unseen \in BOOLEAN

\* A configuration that was stored once: its revision tells its content.
Seen(c) == c \in Configs /\ c.rev = c.content /\ c.rev \in 1 .. config.rev

ConfigIsCounted == Seen(config) /\ commandRead = NothingRead

ShownIsSeen == shown # NothingRead => Seen(shown.config) /\ shown.alerts <= alerts

\* What is asked and answered was read from what is stored.
BodiesAreSeen ==
    \A r \in requests :
        /\ r.body.config # NothingRead => Seen(r.body.config)
        /\ r.body.alerts <= alerts
        /\ r.kind \in {"load", "act", "config"} /\ r.stage = "answered" =>
             r.body.config # NothingRead

RequestsAreNamed ==
    /\ askedOverview <= asked
    /\ \A r \in requests : r.id \in 1 .. asked
    /\ \A r, s \in requests : r.id = s.id => r = s

\* An answer is no older than what is shown, in what it will change of it.
NoOlder(kind, body) ==
    /\ kind \in {"load", "act", "config"} => body.config.rev >= shown.config.rev
    /\ kind \in {"load", "act", "acknowledge"} => body.alerts >= shown.alerts

LatestIsNewer ==
    \A r \in requests : r.id = askedOverview =>
        /\ r.kind \in {"config", "acknowledge"} => shown # NothingRead
        /\ r.stage = "answered" /\ shown # NothingRead => NoOlder(r.kind, r.body)

SettingsInv ==
    /\ SettingsTypeOK
    /\ ConfigIsCounted
    /\ ShownIsSeen
    /\ BodiesAreSeen
    /\ RequestsAreNamed
    /\ LatestIsNewer
    /\ NothingUnseen

-----------------------------------------------------------------------------
(* Settings: the steps                                                     *)

\* What is stored only grows.
Grows ==
    /\ config' \in Configs /\ config'.rev = config'.content /\ config'.rev >= config.rev
    /\ alerts' \in Nat /\ alerts' >= alerts

\* Revisions only grow.
LEMMA SeenStaysSeen ==
    ASSUME SettingsInv, Grows
    PROVE  /\ Seen(config)' /\ \A c : Seen(c) => Seen(c)'
           /\ UNCHANGED shown => ShownIsSeen'
BY DEF SettingsInv, SettingsTypeOK, ConfigIsCounted, ShownIsSeen, Seen, Grows, Configs, Overviews,
       NothingRead

\* A request that is answered keeps its name, its kind and its token.
LEMMA ReachKeeps ==
    ASSUME SettingsInv, Grows, NEW r \in requests, NEW stage \in Stages, NEW answer \in Bodies,
           Reach(r, stage, answer), UNCHANGED <<asked, askedOverview, shown>>,
           answer.config # NothingRead => Seen(answer.config)', answer.alerts <= alerts',
           r.kind \in {"load", "act", "config"} /\ stage = "answered" =>
             answer.config # NothingRead,
           stage = "answered" /\ shown # NothingRead => NoOlder(r.kind, answer)
    PROVE  requests' \subseteq PageRequests /\ BodiesAreSeen' /\ RequestsAreNamed' /\ LatestIsNewer'
<1> DEFINE s == [id |-> r.id, kind |-> r.kind, token |-> r.token, stage |-> stage, body |-> answer]
<1>1. r \in PageRequests /\ s \in PageRequests
  BY DEF SettingsInv, SettingsTypeOK, PageRequests
<1>2. s.id = r.id /\ s.kind = r.kind /\ s.stage = stage /\ s.body = answer
  OBVIOUS
<1> HIDE DEF s
<1>3. requests' = (requests \ {r}) \cup {s}
  BY DEF Reach, s
<1>4. \A c : Seen(c) => Seen(c)'
  BY SeenStaysSeen
<1>5. requests' \subseteq PageRequests
  BY <1>1, <1>3 DEF SettingsInv, SettingsTypeOK
<1>6. BodiesAreSeen'
  <2>1. ASSUME NEW q \in requests
        PROVE  /\ q.body.config # NothingRead => Seen(q.body.config)'
               /\ q.body.alerts <= alerts'
    <3>1. q.body.alerts \in Nat /\ alerts \in Nat
      BY DEF SettingsInv, SettingsTypeOK, PageRequests, Bodies
    <3> QED
      BY <1>4, <3>1 DEF SettingsInv, BodiesAreSeen, Grows
  <2> QED
    BY <1>2, <1>3, <2>1 DEF SettingsInv, BodiesAreSeen
<1>7. RequestsAreNamed'
  BY <1>2, <1>3 DEF SettingsInv, RequestsAreNamed
<1>8. LatestIsNewer'
  BY <1>2, <1>3 DEF SettingsInv, LatestIsNewer, NoOlder
<1> QED
  BY <1>5, <1>6, <1>7, <1>8

\* Nothing that a step leaves alone is disturbed by it.
LEMMA ServeKeepsSettingsInv ==
    ASSUME SettingsInv, NEW r \in requests, Serve(r) \/ Lose(r)
    PROVE  SettingsInv'
<1>1. UNCHANGED <<pageVars, asked>>
  BY DEF Serve, Lose
<1>2. /\ r \in PageRequests /\ r.body \in Bodies /\ r.kind \in RequestKinds
      /\ config \in Configs /\ alerts \in Nat /\ profile \in Nat
      /\ Seen(config) /\ shown \in Overviews \cup {NothingRead}
  BY DEF SettingsInv, SettingsTypeOK, PageRequests, ConfigIsCounted
<1>3. SUFFICES /\ Grows /\ profile' \in Nat /\ changed' \in Nat
               /\ UNCHANGED <<commandRead, unseen>>
               /\ \E stage \in Stages, answer \in Bodies :
                    /\ Reach(r, stage, answer)
                    /\ answer.config # NothingRead => Seen(answer.config)'
                    /\ answer.alerts <= alerts'
                    /\ r.kind \in {"load", "act", "config"} /\ stage = "answered" =>
                         answer.config # NothingRead
                    /\ stage = "answered" /\ shown # NothingRead => NoOlder(r.kind, answer)
  <2>1. requests' \subseteq PageRequests /\ BodiesAreSeen' /\ RequestsAreNamed' /\ LatestIsNewer'
    BY <1>1, <1>3, ReachKeeps DEF pageVars
  <2>2. Seen(config)' /\ ShownIsSeen'
    BY <1>1, <1>3, SeenStaysSeen DEF pageVars
  <2>3. SettingsTypeOK'
    BY <1>1, <1>3, <2>1 DEF SettingsInv, SettingsTypeOK, pageVars, Grows
  <2> QED
    BY <1>3, <2>1, <2>2, <2>3 DEF SettingsInv, ConfigIsCounted, NothingUnseen
<1>4. /\ Empty \in Bodies /\ Empty.config = NothingRead /\ Empty.alerts = 0
      /\ NothingRead \notin Configs
  BY DEF Empty, Body, Bodies, NothingRead, Configs
<1>5. UNCHANGED serverVars => Grows /\ profile' \in Nat /\ changed' \in Nat
  BY <1>2 DEF serverVars, Grows, SettingsInv, SettingsTypeOK, ConfigIsCounted, Seen, Configs
<1>6. CASE Lose(r)
  BY <1>2, <1>4, <1>5, <1>6 DEF Lose, Stages, serverVars, Grows
<1>7. CASE ServeRead(r)
  <2>1. /\ Overview \in Bodies /\ Overview.config = config /\ Overview.alerts = alerts
        /\ Body(NothingRead, 0, profile) \in Bodies
        /\ Body(NothingRead, 0, profile).config = NothingRead
        /\ Body(NothingRead, 0, profile).alerts = 0
    BY <1>2 DEF Overview, Body, Bodies
  <2>2. UNCHANGED serverVars /\ Grows
    BY <1>5, <1>7 DEF ServeRead
  <2>3. Seen(config)' /\ config # NothingRead
    BY <1>2, <1>4, <2>2, SeenStaysSeen DEF serverVars
  <2>4. shown # NothingRead => NoOlder(r.kind, Overview)
    BY <1>2, <2>1 DEF NoOlder, SettingsInv, ShownIsSeen, Seen, Configs, Overviews
  <2>5. shown # NothingRead /\ r.kind = "profile" => NoOlder(r.kind, Body(NothingRead, 0, profile))
    BY DEF NoOlder
  <2> QED
    BY <1>2, <1>4, <1>5, <1>7, <2>1, <2>2, <2>3, <2>4, <2>5 DEF ServeRead, Stages, serverVars
<1>8. CASE ServeConfig(r)
  <2>1. CASE Expects(r)
    <3>1. r.body.config = config
      <4>1. r.body.config.rev = config.rev
        BY <1>8, <2>1 DEF Expects, ServeConfig
      <4>2. r.body.config # NothingRead
        BY <1>2, <4>1 DEF Seen, NothingRead
      <4> QED
        BY <1>2, <4>1, <4>2 DEF SettingsInv, BodiesAreSeen, Seen, Configs
    <3>2. PICK u : u = Updated
      OBVIOUS
    <3>3. /\ config' = u /\ unseen' = unseen /\ Reach(r, "answered", Body(u, 0, 0))
          /\ UNCHANGED <<alerts, profile, commandRead, changed>>
      BY <1>8, <2>1, <3>1, <3>2 DEF ServeConfig, SettingsInv, SettingsTypeOK
    <3>4. /\ u \in Configs /\ u.rev = config.rev + 1 /\ u.rev = u.content
          /\ Body(u, 0, 0) \in Bodies
          /\ Body(u, 0, 0).config = u /\ Body(u, 0, 0).alerts = 0
      BY <1>2, <3>2 DEF Updated, Body, Bodies, Configs, Seen
    <3>5. Grows
      BY <1>2, <3>3, <3>4 DEF Grows, Configs
    <3>6. Seen(u)'
      BY <1>2, <3>3, <3>4 DEF Seen, Configs
    <3>7. shown # NothingRead => NoOlder(r.kind, Body(u, 0, 0))
      BY <1>2, <1>8, <3>4 DEF ServeConfig, NoOlder, SettingsInv, ShownIsSeen, Seen, Configs, Overviews
    <3>8. profile' \in Nat /\ changed' \in Nat
      BY <3>3 DEF SettingsInv, SettingsTypeOK
    <3>9. u # NothingRead
      BY <1>4, <3>4
    <3> QED
      BY <1>2, <3>3, <3>4, <3>5, <3>6, <3>7, <3>8, <3>9 DEF Stages
  <2>2. CASE ~Expects(r)
    BY <1>2, <1>4, <1>5, <1>8, <2>2 DEF ServeConfig, Stages, serverVars, Grows
  <2> QED
    BY <2>1, <2>2
<1>9. CASE ServeAcknowledge(r)
  <2>1. /\ UNCHANGED <<config, profile, commandRead, changed, unseen>> /\ alerts' = alerts + 1
        /\ Reach(r, "answered", Body(NothingRead, alerts', 0)) /\ r.kind = "acknowledge"
    BY <1>9 DEF ServeAcknowledge
  <2>2. /\ Body(NothingRead, alerts', 0) \in Bodies
        /\ Body(NothingRead, alerts', 0).config = NothingRead
        /\ Body(NothingRead, alerts', 0).alerts = alerts'
    BY <1>2, <2>1 DEF Body, Bodies
  <2>3. Grows /\ profile' \in Nat /\ changed' \in Nat
    BY <1>2, <2>1 DEF Grows, Seen, Configs, SettingsInv, SettingsTypeOK
  <2>4. shown # NothingRead => NoOlder(r.kind, Body(NothingRead, alerts', 0))
    BY <1>2, <2>1, <2>2 DEF NoOlder, SettingsInv, ShownIsSeen, Overviews
  <2> QED
    BY <1>2, <2>1, <2>2, <2>3, <2>4 DEF Stages
<1>10. CASE ServeSave(r)
  <2>1. /\ UNCHANGED <<config, alerts, commandRead, changed, unseen>> /\ r.kind = "save"
        /\ \/ profile' = profile + 1 /\ Reach(r, "answered", Body(NothingRead, 0, profile'))
           \/ profile' = profile /\ Reach(r, "conflict", Empty)
    BY <1>10 DEF ServeSave
  <2>2. profile' \in Nat
    BY <1>2, <2>1
  <2>3. /\ Body(NothingRead, 0, profile') \in Bodies
        /\ Body(NothingRead, 0, profile').config = NothingRead
        /\ Body(NothingRead, 0, profile').alerts = 0
    BY <2>2 DEF Body, Bodies
  <2>4. Grows /\ changed' \in Nat
    BY <1>2, <2>1 DEF Grows, Seen, Configs, SettingsInv, SettingsTypeOK
  <2>5. NoOlder(r.kind, Body(NothingRead, 0, profile'))
    BY <2>1 DEF NoOlder
  <2> QED
    BY <1>2, <1>4, <2>1, <2>2, <2>3, <2>4, <2>5 DEF Stages
<1>11. CASE ServePresent(r)
  <2> DEFINE answer == Body(NothingRead, 0, profile)
  <2>1. answer \in Bodies /\ answer.config = NothingRead /\ answer.alerts = 0
    BY <1>2 DEF Body, Bodies
  <2> HIDE DEF answer
  <2>2. /\ UNCHANGED serverVars /\ r.kind = "present"
        /\ \E stage \in {"writing", "answered"} : Reach(r, stage, answer)
           \/ Reach(r, "failed", Empty)
    BY <1>11 DEF ServePresent, answer
  <2>3. Grows
    BY <1>5, <2>2
  <2>4. NoOlder(r.kind, answer)
    BY <2>2 DEF NoOlder
  <2> QED
    BY <1>2, <1>4, <1>5, <2>1, <2>2, <2>3, <2>4 DEF Stages, serverVars
<1> QED
  BY <1>6, <1>7, <1>8, <1>9, <1>10, <1>11 DEF Serve

\* Nothing changed what is stored.
LEMMA PageStepFrame ==
    ASSUME SettingsInv, UNCHANGED serverVars
    PROVE  /\ Grows /\ ConfigIsCounted' /\ NothingUnseen'
           /\ \A c : Seen(c) => Seen(c)'
           /\ config' = config /\ alerts' = alerts /\ unseen' \in BOOLEAN
           /\ {alerts', profile', changed'} \subseteq Nat /\ config' \in Configs
BY DEF SettingsInv, SettingsTypeOK, ConfigIsCounted, NothingUnseen, Seen, Grows, Configs, serverVars

\* A request that is made knows what the page shows.
LEMMA AskKeepsSettingsInv ==
    ASSUME SettingsInv, NEW kind \in RequestKinds, Ask(kind)
    PROVE  SettingsInv'
<1> DEFINE body == IF kind = "save" THEN Body(NothingRead, 0, shownProfile)
                   ELSE IF kind = "config" THEN Body(shown.config, 0, 0) ELSE Empty
<1>0. PICK s : s = [id |-> asked', kind |-> kind, token |-> token, stage |-> "sent", body |-> body]
  OBVIOUS
<1>1. /\ UNCHANGED <<serverVars, token, tokens, shown, shownProfile, tailored>>
      /\ asked' = asked + 1 /\ requests' = requests \cup {s}
      /\ kind \in {"config", "acknowledge"} => shown # NothingRead
  BY <1>0 DEF Ask, Ready
<1>2. asked \in Nat /\ askedOverview \in Nat /\ shownProfile \in Nat /\ token \in Nat
      /\ shown \in Overviews \cup {NothingRead}
  BY DEF SettingsInv, SettingsTypeOK
<1>3. body \in Bodies /\ body.alerts = 0
  BY <1>1, <1>2 DEF Body, Bodies, Empty, Overviews
<1>4. body.config # NothingRead => Seen(body.config)
  BY <1>1 DEF Body, Empty, SettingsInv, ShownIsSeen
<1> HIDE DEF body
<1>5. /\ s \in PageRequests /\ s.id = asked + 1 /\ s.kind = kind /\ s.stage = "sent"
      /\ s.body = body
  BY <1>0, <1>1, <1>2, <1>3 DEF PageRequests, Stages
<1>6. /\ askedOverview' \in Nat /\ askedOverview' <= asked + 1
      /\ askedOverview' \in {askedOverview, asked + 1}
      /\ askedProfile' \in Nat /\ owner' \in Nat
  BY <1>1, <1>2 DEF Ask, SettingsInv, SettingsTypeOK, RequestsAreNamed
<1>7. SettingsTypeOK'
  BY <1>1, <1>2, <1>5, <1>6, PageStepFrame DEF SettingsInv, SettingsTypeOK
<1>8. ShownIsSeen'
  BY <1>1, SeenStaysSeen, PageStepFrame
<1>9. BodiesAreSeen'
  <2>1. s.body.config # NothingRead => Seen(s.body.config)'
    BY <1>1, <1>4, <1>5, PageStepFrame
  <2> QED
    BY <1>1, <1>3, <1>5, <2>1, PageStepFrame DEF SettingsInv, BodiesAreSeen, Seen
<1>10. RequestsAreNamed'
  BY <1>1, <1>2, <1>5, <1>6 DEF SettingsInv, RequestsAreNamed
<1>11. LatestIsNewer'
  <2>1. \A r \in requests : r.id \in Nat /\ r.id <= asked
    BY DEF SettingsInv, RequestsAreNamed
  <2>2. \A r \in requests : r.id = askedOverview' => r.id = askedOverview
    BY <1>2, <1>6, <2>1
  <2> QED
    BY <1>1, <1>5, <2>2 DEF SettingsInv, LatestIsNewer, NoOlder
<1> QED
  BY <1>1, <1>7, <1>8, <1>9, <1>10, <1>11, PageStepFrame DEF SettingsInv

\* What leaves the page's requests takes nothing else with it.
LEMMA FewerRequests ==
    ASSUME SettingsInv, UNCHANGED serverVars, requests' \subseteq requests, UNCHANGED asked,
           askedOverview' \in {askedOverview, 0}
    PROVE  /\ requests' \subseteq PageRequests /\ BodiesAreSeen' /\ RequestsAreNamed'
           /\ \A r \in requests' : r.id = askedOverview' => r.id = askedOverview
           /\ asked' \in Nat /\ askedOverview' \in Nat
<1>1. \A r \in requests : r.id # 0
  BY DEF SettingsInv, RequestsAreNamed
<1>2. BodiesAreSeen'
  BY PageStepFrame DEF SettingsInv, BodiesAreSeen
<1> QED
  BY <1>1, <1>2 DEF SettingsInv, SettingsTypeOK, RequestsAreNamed

\* The overview takes an answer only if it is the latest request's, so it is
\* no older than what it replaces.
LEMMA TakenIsNewer ==
    ASSUME SettingsInv, NEW r \in requests, TakeOverview(r)
    PROVE  /\ shown' \in Overviews \cup {NothingRead} /\ ShownIsSeen'
           /\ shown = NothingRead /\ shown' # NothingRead => Latest(r)
           /\ shown # NothingRead =>
                /\ shown' # NothingRead
                /\ shown'.config.rev >= shown.config.rev /\ shown'.alerts >= shown.alerts
           /\ shown' # shown => Latest(r)
<1>0. UNCHANGED serverVars /\ r \in PageRequests /\ r.kind \in {"load", "act", "config", "acknowledge"}
  BY DEF TakeOverview, SettingsInv, SettingsTypeOK, Actions
<1>1. CASE UNCHANGED shown
  BY <1>0, <1>1, PageStepFrame, SeenStaysSeen DEF SettingsInv, SettingsTypeOK, ShownIsSeen, Seen, Configs, Overviews
<1>2. CASE Latest(r) /\ r.stage = "answered" /\ shown' = Merged(r)
  <2>1. r.id = askedOverview
    BY <1>0, <1>2 DEF Latest
  <2>2. /\ r.kind \in {"config", "acknowledge"} => shown # NothingRead
        /\ shown # NothingRead => NoOlder(r.kind, r.body)
    BY <1>2, <2>1 DEF SettingsInv, LatestIsNewer
  <2>3. /\ r.body \in Bodies /\ r.body.alerts <= alerts
        /\ r.kind # "acknowledge" => r.body.config \in Configs /\ Seen(r.body.config)
    BY <1>0, <1>2 DEF SettingsInv, BodiesAreSeen, PageRequests, Seen
  <2>4. shown # NothingRead => shown \in Overviews /\ Seen(shown.config) /\ shown.alerts <= alerts
    BY DEF SettingsInv, SettingsTypeOK, ShownIsSeen
  <2>5. CASE r.kind \in {"load", "act"}
    <3>1. shown' = r.body
      BY <1>2, <2>5 DEF Merged
    <3>2. shown' \in Overviews /\ shown' # NothingRead
      BY <2>3, <2>5, <3>1 DEF Bodies, Overviews, NothingRead
    <3> QED
      BY <1>0, <1>2, <2>2, <2>3, <2>4, <2>5, <3>1, <3>2, PageStepFrame
         DEF NoOlder, ShownIsSeen, Seen
  <2>6. CASE r.kind = "config"
    <3>1. shown' = [shown EXCEPT !.config = r.body.config]
      BY <1>2, <2>6 DEF Merged
    <3>2. /\ shown' \in Overviews /\ shown' # NothingRead
          /\ shown'.config = r.body.config /\ shown'.alerts = shown.alerts
      BY <2>2, <2>3, <2>4, <2>6, <3>1 DEF Overviews, NothingRead
    <3> QED
      BY <1>0, <1>2, <2>2, <2>3, <2>4, <2>6, <3>2, PageStepFrame
         DEF NoOlder, ShownIsSeen, Seen, Overviews
  <2>7. CASE r.kind = "acknowledge"
    <3>1. shown' = [shown EXCEPT !.alerts = r.body.alerts]
      BY <1>2, <2>7 DEF Merged
    <3>2. /\ shown' \in Overviews /\ shown' # NothingRead
          /\ shown'.config = shown.config /\ shown'.alerts = r.body.alerts
      BY <2>2, <2>3, <2>4, <2>7, <3>1 DEF Overviews, NothingRead, Bodies
    <3> QED
      BY <1>0, <1>2, <2>2, <2>3, <2>4, <2>7, <3>2, PageStepFrame
         DEF NoOlder, ShownIsSeen, Seen, Overviews, Configs
  <2> QED
    BY <1>0, <2>5, <2>6, <2>7
<1> QED
  BY <1>1, <1>2 DEF TakeOverview

\* An answer, taken or ignored.
LEMMA ReceiveKeepsSettingsInv ==
    ASSUME SettingsInv, NEW r \in requests, Receive(r)
    PROVE  SettingsInv'
<1>1. UNCHANGED <<serverVars, token, tokens>>
  BY DEF Receive, TakeOverview, TakeProfile, TakeConflict, TakeFailure, TakePresentation, pageVars
<1>2. r \in PageRequests /\ r.body \in Bodies /\ r.body.profile \in Nat
  BY DEF SettingsInv, SettingsTypeOK, PageRequests, Bodies
<1>3. CASE TakeOverview(r)
  <2>1. /\ requests' = requests \ {r} /\ owner' \in {owner, 0}
        /\ UNCHANGED <<shownProfile, tailored, askedOverview, askedProfile, asked>>
    BY <1>3 DEF TakeOverview
  <2>2. SettingsTypeOK'
    BY <1>1, <1>3, <2>1, TakenIsNewer, FewerRequests, PageStepFrame DEF SettingsInv, SettingsTypeOK
  <2>3. LatestIsNewer'
    <3>1. CASE UNCHANGED shown
      BY <2>1, <3>1 DEF SettingsInv, LatestIsNewer, NoOlder
    <3>2. CASE Latest(r)
      <4>1. r.id = askedOverview
        BY <1>3, <3>2 DEF Latest, TakeOverview, Actions
      <4>2. \A q \in requests' : q.id # askedOverview'
        BY <2>1, <4>1 DEF SettingsInv, RequestsAreNamed
      <4> QED
        BY <4>2 DEF LatestIsNewer
    <3> QED
      BY <1>3, <3>1, <3>2, TakenIsNewer
  <2> QED
    BY <1>1, <1>3, <2>1, <2>2, <2>3, TakenIsNewer, FewerRequests, PageStepFrame DEF SettingsInv
<1>4. CASE TakeProfile(r) \/ TakeFailure(r) \/ TakePresentation(r)
  <2>1. /\ requests' = requests \ {r}
        /\ UNCHANGED <<shown, owner, askedOverview, askedProfile, asked>>
        /\ shownProfile' \in {shownProfile, r.body.profile}
        /\ tailored' \in {tailored, 0, shownProfile}
    BY <1>4 DEF TakeProfile, TakeFailure, TakePresentation, KeptFrom, pageVars
  <2>2. SettingsTypeOK'
    BY <1>1, <1>2, <2>1, FewerRequests, PageStepFrame DEF SettingsInv, SettingsTypeOK
  <2>3. LatestIsNewer'
    BY <2>1 DEF SettingsInv, LatestIsNewer, NoOlder
  <2> QED
    BY <1>1, <2>1, <2>2, <2>3, FewerRequests, PageStepFrame, SeenStaysSeen DEF SettingsInv
<1>5. CASE TakeConflict(r) /\ UNCHANGED asked
  <2>1. /\ requests' = requests \ {r}
        /\ UNCHANGED <<shown, shownProfile, tailored, owner, askedOverview, askedProfile, asked>>
    <3>1. asked \in Nat
      BY DEF SettingsInv, SettingsTypeOK
    <3>2. asked' # asked + 1
      BY <1>5, <3>1
    <3> QED
      BY <1>5, <3>2 DEF TakeConflict
  <2>2. SettingsTypeOK'
    BY <1>1, <2>1, FewerRequests, PageStepFrame DEF SettingsInv, SettingsTypeOK
  <2>3. LatestIsNewer'
    BY <2>1 DEF SettingsInv, LatestIsNewer, NoOlder
  <2> QED
    BY <1>1, <2>1, <2>2, <2>3, FewerRequests, PageStepFrame, SeenStaysSeen DEF SettingsInv
<1>6. CASE TakeConflict(r) /\ asked' = asked + 1
  <2> DEFINE s == [id |-> asked + 1, kind |-> "profile", token |-> token, stage |-> "sent",
                   body |-> Empty]
  <2>1. asked \in Nat /\ token \in Nat /\ askedOverview \in Nat /\ askedOverview <= asked
    BY DEF SettingsInv, SettingsTypeOK, RequestsAreNamed
  <2>2. /\ requests' = (requests \ {r}) \cup {s} /\ askedProfile' = asked + 1
        /\ UNCHANGED <<shown, shownProfile, tailored, owner, askedOverview>>
    BY <1>6, <2>1 DEF TakeConflict
  <2>3. /\ s \in PageRequests /\ s.id = asked + 1 /\ s.kind = "profile" /\ s.stage = "sent"
        /\ s.body.config = NothingRead /\ s.body.alerts = 0
    BY <2>1 DEF PageRequests, Stages, RequestKinds, Empty, Body, Bodies
  <2> HIDE DEF s
  <2>4. SettingsTypeOK'
    BY <1>1, <1>6, <2>1, <2>2, <2>3, PageStepFrame DEF SettingsInv, SettingsTypeOK
  <2>5. BodiesAreSeen'
    BY <1>1, <2>2, <2>3, PageStepFrame DEF SettingsInv, BodiesAreSeen
  <2>6. RequestsAreNamed'
    BY <1>6, <2>1, <2>2, <2>3 DEF SettingsInv, RequestsAreNamed
  <2>7. LatestIsNewer'
    BY <2>1, <2>2, <2>3 DEF SettingsInv, LatestIsNewer, NoOlder
  <2> QED
    BY <1>1, <2>2, <2>4, <2>5, <2>6, <2>7, PageStepFrame, SeenStaysSeen DEF SettingsInv
<1>7. TakeConflict(r) => asked' = asked + 1 \/ UNCHANGED asked
  BY DEF TakeConflict
<1> QED
  BY <1>3, <1>4, <1>5, <1>6, <1>7 DEF Receive

\* Commands change what is stored, in one step.
LEMMA OthersKeepSettingsInv ==
    ASSUME SettingsInv, OtherUpdate
    PROVE  SettingsInv'
<1>1. UNCHANGED <<commandRead, unseen, pageVars, asked, requests>>
  BY DEF OtherUpdate
<1>2. Grows /\ profile' \in Nat /\ changed' \in Nat
  BY DEF OtherUpdate, Count, Updated, Grows, SettingsInv, SettingsTypeOK, ConfigIsCounted, Seen,
     Configs
<1>3. SettingsTypeOK'
  BY <1>1, <1>2 DEF SettingsInv, SettingsTypeOK, pageVars, Grows
<1>4. BodiesAreSeen'
  <2>1. ASSUME NEW r \in requests PROVE r.body.alerts \in Nat /\ alerts \in Nat
    BY DEF SettingsInv, SettingsTypeOK, PageRequests, Bodies
  <2> QED
    BY <1>1, <1>2, <2>1, SeenStaysSeen DEF SettingsInv, BodiesAreSeen, Grows
<1> QED
  BY <1>1, <1>2, <1>3, <1>4, SeenStaysSeen
     DEF SettingsInv, ConfigIsCounted, RequestsAreNamed, LatestIsNewer, NoOlder, NothingUnseen, pageVars

\* A token that changes drops all that is shown: no request is the latest.
LEMMA TokenKeepsSettingsInv ==
    ASSUME SettingsInv, ChangeToken
    PROVE  SettingsInv'
<1>1. /\ UNCHANGED <<serverVars, asked, requests>> /\ token' \in {tokens + 1, 0}
      /\ tokens' \in {tokens, tokens + 1}
      /\ shown' = NothingRead /\ shownProfile' = 0 /\ tailored' = 0
      /\ owner' = 0 /\ askedOverview' = 0 /\ askedProfile' = 0
  BY DEF ChangeToken, SettingsInv, SettingsTypeOK
<1>2. SettingsTypeOK'
  BY <1>1, FewerRequests, PageStepFrame DEF SettingsInv, SettingsTypeOK
<1>3. LatestIsNewer'
  <2>1. \A r \in requests' : r.id # askedOverview'
    BY <1>1 DEF SettingsInv, RequestsAreNamed
  <2> QED
    BY <2>1 DEF LatestIsNewer
<1> QED
  BY <1>1, <1>2, <1>3, FewerRequests, PageStepFrame DEF SettingsInv, ShownIsSeen

\* Every step keeps the invariant.
LEMMA SettingsStep ==
    ASSUME ~CommandsRace, SettingsInv, [SettingsNext]_settingsVars
    PROVE  SettingsInv'
<1>1. CASE \E kind \in RequestKinds : Ask(kind)
  BY <1>1, AskKeepsSettingsInv
<1>2. CASE \E r \in requests : Serve(r) \/ Lose(r) \/ Receive(r)
  BY <1>2, ServeKeepsSettingsInv, ReceiveKeepsSettingsInv
<1>3. CASE ChangeToken
  BY <1>3, TokenKeepsSettingsInv
<1>4. CASE OtherUpdate
  BY <1>4, OthersKeepSettingsInv
<1>5. ~CommandReads /\ ~CommandWrites
  BY DEF CommandReads, CommandWrites, SettingsInv, ConfigIsCounted
<1>6. CASE UNCHANGED settingsVars
  BY <1>6 DEF settingsVars, serverVars, pageVars, SettingsInv, SettingsTypeOK, ConfigIsCounted, ShownIsSeen, BodiesAreSeen,
     RequestsAreNamed, LatestIsNewer, NoOlder, NothingUnseen, Seen
<1> QED
  BY <1>1, <1>2, <1>3, <1>4, <1>5, <1>6 DEF SettingsNext

\* Where no command reads the file before another writes it, what a page knows
\* of a revision is what was stored, and the answer it waits for is no older
\* than what it shows.
THEOREM SettingsInvariant ==
    ASSUME ~CommandsRace
    PROVE  SettingsSpec => []SettingsInv
<1>1. SettingsInit => SettingsInv
  <2> SUFFICES ASSUME SettingsInit PROVE SettingsInv
    OBVIOUS
  <2>1. SettingsTypeOK /\ ConfigIsCounted
    <3>1. config \in Configs /\ config.rev = 1 /\ config.content = 1
      BY DEF SettingsInit, Configs
    <3>2. SettingsTypeOK
      <4>1. unseen \in BOOLEAN
        BY DEF SettingsInit
      <4>2. shown \in Overviews \cup {NothingRead} /\ requests \subseteq PageRequests
        BY DEF SettingsInit
      <4> QED
        BY <3>1, <4>1, <4>2 DEF SettingsInit, SettingsTypeOK
    <3>3. Seen(config)
      BY <3>1 DEF Seen
    <3> QED
      BY <3>2, <3>3 DEF SettingsInit, ConfigIsCounted
  <2>2. ShownIsSeen /\ BodiesAreSeen /\ RequestsAreNamed /\ LatestIsNewer /\ NothingUnseen
    BY DEF SettingsInit, ShownIsSeen, BodiesAreSeen, RequestsAreNamed, LatestIsNewer, NothingUnseen
  <2> QED
    BY <2>1, <2>2 DEF SettingsInv
<1>2. SettingsInv /\ [SettingsNext]_settingsVars => SettingsInv'
  BY SettingsStep
<1> QED
  BY <1>1, <1>2, PTL DEF SettingsSpec

\* An update is accepted only from a page that has seen what it changes, for
\* any number of requests, other writers and tokens (configuration.ts).
THEOREM AcceptedIsSeen ==
    ASSUME ~CommandsRace
    PROVE  SettingsSpec => []NothingUnseen
<1>1. SettingsInv => NothingUnseen
  BY DEF SettingsInv
<1> QED
  BY <1>1, SettingsInvariant, PTL

\* However answers are delayed, reordered or lost, the overview never goes back
\* to what it was before (appStore.ts).
THEOREM OverviewGetsNewer ==
    ASSUME ~CommandsRace
    PROVE  SettingsSpec => ShownGetsNewer
<1> DEFINE Newer == shown # NothingRead /\ shown' # NothingRead =>
                      shown'.config.rev >= shown.config.rev /\ shown'.alerts >= shown.alerts
<1>1. SettingsInv /\ [SettingsNext]_settingsVars => [Newer]_settingsVars
  <2> SUFFICES ASSUME SettingsInv, SettingsNext, shown # NothingRead, shown' # NothingRead
               PROVE  shown'.config.rev >= shown.config.rev /\ shown'.alerts >= shown.alerts
    OBVIOUS
  <2>1. shown.config.rev \in Nat /\ shown.alerts \in Nat
    BY DEF SettingsInv, SettingsTypeOK, Overviews, Configs
  <2>2. CASE UNCHANGED shown
    BY <2>1, <2>2
  <2>3. CASE \E r \in requests : TakeOverview(r)
    BY <2>3, TakenIsNewer
  <2>4. UNCHANGED shown \/ \E r \in requests : TakeOverview(r)
    <3>1. ~ChangeToken
      BY DEF ChangeToken
    <3>2. \A r \in requests : Serve(r) \/ Lose(r) => UNCHANGED shown
      BY DEF Serve, Lose, pageVars
    <3>3. \A r \in requests : Receive(r) => UNCHANGED shown \/ TakeOverview(r)
      BY DEF Receive, TakeProfile, TakeConflict, TakeFailure, TakePresentation, pageVars
    <3>4. \A kind \in RequestKinds : Ask(kind) => UNCHANGED shown
      BY DEF Ask
    <3>5. OtherUpdate \/ CommandReads \/ CommandWrites => UNCHANGED shown
      BY DEF OtherUpdate, CommandReads, CommandWrites, pageVars
    <3> QED
      BY <3>1, <3>2, <3>3, <3>4, <3>5 DEF SettingsNext
  <2> QED
    BY <2>2, <2>3, <2>4
<1> QED
  BY <1>1, SettingsInvariant, PTL DEF SettingsSpec, ShownGetsNewer

-----------------------------------------------------------------------------
(* Explanations: the inductive invariant                                   *)

Callers == Sessions \cup {Nowhere, Reader}
CallRecords == [who : Callers, seq : Nat,
                stage : {"generating", "generated", "failed", "delivered"},
                aborted : BOOLEAN, process : BOOLEAN]

ExplainerTypeOK ==
    /\ cadence \in {"off", "session", "turn"} /\ stops \in Nat
    /\ live \subseteq Sessions /\ idle \subseteq live
    /\ latest \in [Sessions -> Nat] /\ based \in [Sessions -> Nat]
    /\ covered \in [Sessions -> Nat]
    /\ calls \subseteq CallRecords

\* A coordinator that is put away leaves none of its calls behind; a session
\* that is loaded has one call under way at most, and so has the reader.
CallsAreTheirs ==
    /\ \A c \in calls : c.who \in Sessions => c.who \in live
    /\ \A c, d \in calls :
         c.who = d.who /\ c.stage = "generating" /\ d.stage = "generating" => c = d

SlotsAreCounted == IsFiniteSet(calls) /\ SlotsAddUp

\* Off was said to every coordinator that is loaded.
OffIsTold ==
    cadence = "off" =>
        /\ idle = {}
        /\ \A c \in calls : c.who \in live /\ c.stage # "delivered" => c.aborted

ExplainerInv ==
    /\ ExplainerTypeOK
    /\ CallsAreTheirs
    /\ SlotsAreCounted
    /\ OffIsTold

-----------------------------------------------------------------------------
(* Explanations: counting slots                                            *)

Generating(cs) == {c \in cs : c.stage = "generating"}

\* Slots are counted over finitely many calls.
LEMMA HeldIsCounted ==
    ASSUME NEW cs, IsFiniteSet(cs)
    PROVE  /\ Held(cs) = Cardinality(Generating(cs)) /\ Held(cs) \in Nat
           /\ IsFiniteSet(Generating(cs))
<1>1. Generating(cs) \in SUBSET cs /\ Held(cs) = Cardinality(Generating(cs))
  BY DEF Held, Generating
<1> QED
  BY <1>1, FS_Subset, FS_CardinalityType

\* Calls that leave give their slots back, whatever they leave as.
LEMMA SlotsGivenBack ==
    ASSUME NEW cs, IsFiniteSet(cs), NEW gone \in SUBSET cs, NEW ended, IsFiniteSet(ended),
           \A c \in ended : c.stage # "generating"
    PROVE  LET after == (cs \ gone) \cup ended
           IN  IsFiniteSet(after) /\ Held(after) = Held(cs) - Held(gone)
<1> DEFINE after == (cs \ gone) \cup ended
<1>1. IsFiniteSet(gone)
  BY FS_Subset
<1>2. IsFiniteSet(cs \ gone)
  BY FS_Difference
<1>3. IsFiniteSet(after)
  BY <1>2, FS_Union
<1>4. Generating(after) = Generating(cs) \ Generating(gone)
  BY DEF Generating
<1>5. Generating(cs) \cap Generating(gone) = Generating(gone)
  BY DEF Generating
<1>6. Cardinality(Generating(after)) = Cardinality(Generating(cs)) - Cardinality(Generating(gone))
  <2>1. IsFiniteSet(Generating(cs))
    BY HeldIsCounted
  <2>2. Cardinality(Generating(cs) \ Generating(gone)) =
          Cardinality(Generating(cs)) - Cardinality(Generating(cs) \cap Generating(gone))
    BY <2>1, FS_Difference
  <2> QED
    BY <1>4, <1>5, <2>2
<1> QED
  BY <1>1, <1>3, <1>6, HeldIsCounted

\* Aborting changes finitely many calls.
LEMMA AbortedAreFinite ==
    ASSUME NEW cs, IsFiniteSet(cs), NEW who
    PROVE  IsFiniteSet({Aborted(c, who) : c \in cs})
<1> DEFINE T == {Aborted(c, who) : c \in cs}
           f == [c \in cs |-> Aborted(c, who)]
<1>1. f \in Surjection(cs, T)
  BY DEF Surjection
<1> QED
  BY <1>1, FS_Surjection

\* An aborted call holds no slot.
LEMMA AbortedIsEnded ==
    ASSUME NEW c \in CallRecords, NEW who \in Callers
    PROVE  /\ Aborted(c, who) \in CallRecords /\ Aborted(c, who).who = who
           /\ Aborted(c, who).stage # "generating" /\ Aborted(c, who).aborted
BY DEF Aborted, CallRecords

\* What is kept of a call is that call or nothing.
LEMMA KeptIsFinite ==
    ASSUME NEW d
    PROVE  IsFiniteSet(Kept(d)) /\ Kept(d) \subseteq {d}
<1>1. CASE Kept(d) = {}
  BY <1>1, FS_EmptySet
<1>2. CASE Kept(d) = {d}
  BY <1>2, FS_Singleton
<1> QED
  BY <1>1, <1>2 DEF Kept

\* A call that begins takes a slot if one is free.
LEMMA CallBegins ==
    ASSUME NEW others, IsFiniteSet(others), others \subseteq CallRecords, NEW free,
           free = Held(others), free <= MaxHelpers,
           NEW who \in Sessions \cup {Reader}, NEW seq \in Nat,
           \A c \in others : c.stage = "generating" => c.who # who,
           BeginCall(who, seq, others, free)
    PROVE  /\ IsFiniteSet(calls') /\ SlotsAddUp' /\ calls' \subseteq CallRecords
           /\ \A c \in calls' : c \in others \/ c.who = who
           /\ \A c, d \in calls' :
                c.stage = "generating" /\ d.stage = "generating" /\ c.who = who /\ d.who = who => c = d
<1> DEFINE stage == IF free < MaxHelpers THEN "generating" ELSE "failed"
           new == [who |-> who, seq |-> seq, stage |-> stage, aborted |-> FALSE,
                   process |-> stage = "generating"]
<1>1. calls' = others \cup {new} /\ active' = IF free < MaxHelpers THEN free + 1 ELSE free
  BY DEF BeginCall
<1>2. new \in CallRecords /\ new.who = who /\ new.stage = stage
  <2>1. (stage = "generating") \in BOOLEAN /\ FALSE \in BOOLEAN
    OBVIOUS
  <2>2. stage \in {"generating", "failed"}
    OBVIOUS
  <2> HIDE DEF stage
  <2> QED
    BY <2>1, <2>2 DEF CallRecords, Callers
<1>3. free \in Nat /\ MaxHelpers \in Nat
  BY HeldIsCounted, ExplainerAssumption
<1> HIDE DEF new
<1>4. IsFiniteSet(calls')
  BY <1>1, FS_AddElement
<1>5. CASE free < MaxHelpers
  <2>1. new \notin Generating(others) /\ Generating(others \cup {new}) = Generating(others) \cup {new}
    BY <1>2, <1>5 DEF Generating
  <2>2. Cardinality(Generating(others \cup {new})) = free + 1
    BY <2>1, HeldIsCounted, FS_AddElement
  <2>3. active' = Held(calls') /\ active' <= MaxHelpers
    BY <1>1, <1>3, <1>4, <1>5, <2>2, HeldIsCounted
  <2>4. SlotsAddUp'
    BY <2>3 DEF SlotsAddUp, Held
  <2> QED
    BY <1>1, <1>2, <1>4, <2>4
<1>6. CASE ~(free < MaxHelpers)
  <2>1. Generating(others \cup {new}) = Generating(others)
    BY <1>2, <1>6 DEF Generating
  <2>2. active' = Held(calls') /\ active' <= MaxHelpers
    BY <1>1, <1>3, <1>4, <1>6, <2>1, HeldIsCounted
  <2>3. SlotsAddUp'
    BY <2>2 DEF SlotsAddUp, Held
  <2> QED
    BY <1>1, <1>2, <1>4, <2>3
<1> QED
  BY <1>5, <1>6

-----------------------------------------------------------------------------
(* Explanations: the steps                                                 *)

\* A call is settled once, by whoever comes first.
LEMMA SettleKeepsExplainerInv ==
    ASSUME ExplainerInv, NEW c \in calls, Timeout(c) \/ Close(c) \/ Deliver(c)
    PROVE  ExplainerInv' /\ (cadence = "off" => based' = based)
<1> USE DEF ExplainerInv
<1>0. c \in CallRecords /\ IsFiniteSet(calls) /\ active = Held(calls) /\ active <= MaxHelpers
  BY DEF ExplainerTypeOK, SlotsAreCounted, SlotsAddUp
<1>1. SUFFICES ASSUME NEW ended, IsFiniteSet(ended), ended \subseteq CallRecords,
                      calls' = (calls \ {c}) \cup ended,
                      \A d \in ended : /\ d.stage # "generating" /\ d.who = c.who
                                       /\ d.aborted = c.aborted
                                       /\ d.stage = "delivered" \/ c.stage # "delivered",
                      active' = IF c.stage = "generating" THEN active - 1 ELSE active,
                      UNCHANGED <<cadence, stops, live, idle>>,
                      latest' \in [Sessions -> Nat], based' \in [Sessions -> Nat],
                      covered' \in [Sessions -> Nat],
                      cadence = "off" => based' = based
               PROVE  ExplainerInv'
  <2>1. CASE Timeout(c)
    <3> DEFINE d == [c EXCEPT !.stage = "failed"]
    <3>1. d \in CallRecords /\ d.stage = "failed" /\ d.who = c.who /\ d.aborted = c.aborted
      BY <1>0 DEF CallRecords
    <3>2. calls' = (calls \ {c}) \cup {d} /\ c.stage = "generating" /\ active' = active - 1
      BY <2>1 DEF Timeout, Without
    <3> HIDE DEF d
    <3>3. IsFiniteSet({d})
      BY FS_Singleton
    <3>4. UNCHANGED <<cadence, stops, live, idle, latest, based, covered>>
      BY <2>1 DEF Timeout, sessionVars, coordinatorVars
    <3> QED
      BY <1>1, <3>1, <3>2, <3>3, <3>4 DEF ExplainerTypeOK
  <2>2. CASE Close(c)
    <3>1. PICK stage \in IF c.stage = "generating" THEN {"generated", "failed"} ELSE {c.stage} :
            calls' = Without(c) \cup Kept([c EXCEPT !.stage = stage, !.process = FALSE])
      BY <2>2, Zenon DEF Close
    <3>2. PICK d : d = [c EXCEPT !.stage = stage, !.process = FALSE]
      OBVIOUS
    <3>3. /\ d \in CallRecords /\ d.stage = stage /\ d.who = c.who /\ d.aborted = c.aborted
          /\ stage # "generating"
      <4>1. stage \in {"generating", "generated", "failed", "delivered"} /\ FALSE \in BOOLEAN
            /\ stage # "generating"
        BY <1>0, <3>1 DEF CallRecords
      <4> QED
        BY <1>0, <3>2, <4>1 DEF CallRecords
    <3>5. IsFiniteSet(Kept(d)) /\ Kept(d) \subseteq {d}
      BY KeptIsFinite
    <3>6. calls' = (calls \ {c}) \cup Kept(d)
      BY <3>1, <3>2 DEF Without
    <3>4. /\ active' = IF Releases(c) THEN active - 1 ELSE active
          /\ UNCHANGED <<cadence, stops, sessionVars, coordinatorVars>>
      BY <2>2, Zenon DEF Close
    <3>7. active' = IF c.stage = "generating" THEN active - 1 ELSE active
      BY <3>4 DEF Releases
    <3>8. UNCHANGED <<cadence, stops, live, idle, latest, based, covered>>
      BY <3>4 DEF sessionVars, coordinatorVars
    <3>9. \A e \in Kept(d) : /\ e \in CallRecords /\ e.stage # "generating" /\ e.who = c.who
                             /\ e.aborted = c.aborted
                             /\ e.stage = "delivered" \/ c.stage # "delivered"
      BY <3>1, <3>3, <3>5
    <3>10. Kept(d) \subseteq CallRecords
      BY <3>9
    <3> QED
      BY <1>1, <3>5, <3>6, <3>7, <3>8, <3>9, <3>10 DEF ExplainerTypeOK
  <2>3. CASE Deliver(c)
    <3>2. PICK d : d = [c EXCEPT !.stage = "delivered"]
      OBVIOUS
    <3>3. /\ d \in CallRecords /\ d.stage = "delivered" /\ d.who = c.who /\ d.aborted = c.aborted
      BY <1>0, <3>2 DEF CallRecords
    <3>5. IsFiniteSet(Kept(d)) /\ Kept(d) \subseteq {d}
      BY KeptIsFinite
    <3>6. /\ calls' = (calls \ {c}) \cup Kept(d) /\ active' = active
          /\ c.stage \in {"generated", "failed"} /\ UNCHANGED <<cadence, stops, live, idle>>
      BY <2>3, <3>2 DEF Deliver, Without
    <3>7. /\ latest' \in [Sessions -> Nat] /\ based' \in [Sessions -> Nat]
          /\ covered' \in [Sessions -> Nat]
      <4>1. latest \in [Sessions -> Nat] /\ based \in [Sessions -> Nat] /\ covered \in [Sessions -> Nat]
        BY DEF ExplainerTypeOK
      <4>2. CASE Usable(c)
        <5>1. c.who \in Sessions /\ c.seq \in Nat
          BY <1>0, <4>2 DEF Usable, ExplainerTypeOK, CallRecords
        <5>2. latest' \in [Sessions -> Nat] /\ based' \in [Sessions -> Nat]
          BY <2>3, <4>1, <4>2, <5>1 DEF Deliver
        <5>3. covered' \in [Sessions -> Nat]
          BY <2>3, <4>1, <4>2, <5>1, <5>2 DEF Deliver
        <5> QED
          BY <5>2, <5>3
      <4>3. CASE ~Usable(c)
        BY <2>3, <4>1, <4>3 DEF Deliver
      <4> QED
        BY <4>2, <4>3
    <3>8. cadence = "off" => based' = based
      <4>1. cadence = "off" => ~Usable(c)
        BY <3>6 DEF OffIsTold, Usable
      <4> QED
        BY <2>3, <4>1 DEF Deliver
    <3>9. \A e \in Kept(d) : /\ e \in CallRecords /\ e.stage # "generating" /\ e.who = c.who
                             /\ e.aborted = c.aborted /\ e.stage = "delivered"
      BY <3>3, <3>5
    <3>10. Kept(d) \subseteq CallRecords
      BY <3>9
    <3> QED
      BY <1>1, <3>5, <3>6, <3>7, <3>8, <3>9, <3>10
  <2> QED
    BY <2>1, <2>2, <2>3
<1>2. IsFiniteSet(calls') /\ Held(calls') = Held(calls) - Held({c})
  BY <1>0, <1>1, SlotsGivenBack
<1>3. Held({c}) = IF c.stage = "generating" THEN 1 ELSE 0
  <2>1. Generating({c}) = IF c.stage = "generating" THEN {c} ELSE {}
    BY DEF Generating
  <2> QED
    BY <2>1, HeldIsCounted, FS_Singleton, FS_EmptySet
<1>4. SlotsAreCounted'
  <2>1. active \in Nat /\ MaxHelpers \in Nat
    BY <1>0, HeldIsCounted, ExplainerAssumption
  <2>2. active' = Held(calls') /\ active' <= MaxHelpers
    BY <1>0, <1>1, <1>2, <1>3, <2>1
  <2> QED
    BY <1>2, <2>2 DEF SlotsAreCounted, SlotsAddUp, Held
<1>5. ExplainerTypeOK'
  BY <1>1 DEF ExplainerTypeOK
<1>6. CallsAreTheirs'
  BY <1>1 DEF CallsAreTheirs
<1>7. OffIsTold'
  BY <1>1 DEF OffIsTold
<1> QED
  BY <1>4, <1>5, <1>6, <1>7

\* Explaining a session begins one call of it, and none while the stop is off.
LEMMA ScheduleKeepsCalls ==
    ASSUME ExplainerInv, NEW s \in live, NEW seq \in Nat, NEW begun,
           Schedule(s, seq, begun), live' = live
    PROVE  /\ calls' \subseteq CallRecords /\ CallsAreTheirs' /\ SlotsAreCounted'
           /\ cadence = "off" => calls' = calls
<1>1. /\ calls \subseteq CallRecords /\ IsFiniteSet(calls)
      /\ active = Held(calls) /\ active <= MaxHelpers /\ s \in Sessions
  BY DEF ExplainerInv, ExplainerTypeOK, SlotsAreCounted, SlotsAddUp
<1>2. CASE Explainable(s, seq, begun)
  <2>1. BeginCall(s, seq, calls, active) /\ cadence # "off"
    BY <1>2, Zenon DEF Schedule, Explainable
  <2>2. \A c \in calls : c.stage = "generating" => c.who # s
    BY <1>2 DEF Explainable, Busy
  <2>3. /\ IsFiniteSet(calls') /\ SlotsAddUp' /\ calls' \subseteq CallRecords
        /\ \A c \in calls' : c \in calls \/ c.who = s
        /\ \A c, d \in calls' :
             c.stage = "generating" /\ d.stage = "generating" /\ c.who = s /\ d.who = s => c = d
    BY <1>1, <2>1, <2>2, CallBegins
  <2>4. CallsAreTheirs'
    BY <2>3 DEF ExplainerInv, CallsAreTheirs
  <2> QED
    BY <2>1, <2>3, <2>4 DEF SlotsAreCounted
<1>3. CASE ~Explainable(s, seq, begun)
  <2>1. calls' = calls /\ active' = active
    BY <1>3, Zenon DEF Schedule, callVars
  <2> QED
    BY <1>1, <2>1 DEF ExplainerInv, CallsAreTheirs, SlotsAreCounted, SlotsAddUp, Held
<1> QED
  BY <1>2, <1>3

\* What a session does, and the explanation its end of turn asks for.
LEMMA SessionsKeepExplainerInv ==
    ASSUME ExplainerInv, NEW s \in Sessions, NEW ended \in BOOLEAN,
           Load(s) \/ Event(s) \/ FallSilent(s) \/ EndTurn(s, ended)
    PROVE  ExplainerInv' /\ based' = based
<1>0. /\ live \subseteq Sessions /\ idle \subseteq live /\ latest \in [Sessions -> Nat]
      /\ based \in [Sessions -> Nat] /\ covered \in [Sessions -> Nat]
      /\ calls \subseteq CallRecords /\ cadence \in {"off", "session", "turn"} /\ stops \in Nat
  BY DEF ExplainerInv, ExplainerTypeOK
<1>1. SUFFICES ASSUME UNCHANGED <<cadence, stops, based, covered>>,
                      latest' \in [Sessions -> Nat],
                      live' \in SUBSET Sessions, live \subseteq live', idle' \subseteq live',
                      cadence = "off" => idle' \subseteq idle /\ calls' = calls,
                      calls' \subseteq CallRecords, CallsAreTheirs', SlotsAreCounted'
               PROVE  ExplainerInv'
  <2>1. CASE Load(s)
    <3>1. /\ live' = live \cup {s}
          /\ UNCHANGED <<cadence, stops, latest, based, covered, idle, calls, active>>
      BY <2>1 DEF Load, sessionVars, callVars
    <3>2. CallsAreTheirs' /\ SlotsAreCounted'
      BY <3>1 DEF ExplainerInv, CallsAreTheirs, SlotsAreCounted, SlotsAddUp, Held
    <3> QED
      BY <1>0, <1>1, <3>1, <3>2
  <2>2. CASE Event(s)
    <3>1. /\ latest' = [latest EXCEPT ![s] = @ + 1]
          /\ UNCHANGED <<cadence, stops, based, live, covered, idle, calls, active>>
      BY <2>2 DEF Event, coordinatorVars, callVars
    <3>2. CallsAreTheirs' /\ SlotsAreCounted'
      BY <3>1 DEF ExplainerInv, CallsAreTheirs, SlotsAreCounted, SlotsAddUp, Held
    <3>3. latest' \in [Sessions -> Nat]
      BY <1>0, <3>1
    <3> QED
      BY <1>0, <1>1, <3>1, <3>2, <3>3
  <2>3. CASE FallSilent(s)
    <3>1. /\ s \in idle /\ idle' = idle \ {s} /\ Schedule(s, latest[s], turn[s])
          /\ UNCHANGED <<cadence, stops, latest, based, live, covered>>
      BY <2>3, Zenon DEF FallSilent, sessionVars
    <3>2. s \in live /\ latest[s] \in Nat /\ live' = live
      BY <1>0, <3>1
    <3>3. /\ calls' \subseteq CallRecords /\ CallsAreTheirs' /\ SlotsAreCounted'
          /\ cadence = "off" => calls' = calls
      BY <3>1, <3>2, ScheduleKeepsCalls
    <3> QED
      BY <1>0, <1>1, <3>1, <3>3
  <2>4. CASE EndTurn(s, ended)
    <3>1. /\ s \in live /\ latest' = [latest EXCEPT ![s] = @ + 1]
          /\ UNCHANGED <<cadence, stops, based, live, covered>>
      BY <2>4, Zenon DEF EndTurn
    <3>2. latest' \in [Sessions -> Nat] /\ latest'[s] \in Nat
      BY <1>0, <3>1
    <3>3. CASE cadence # "off" /\ (ended \/ cadence = "turn")
      <4>1. idle' = idle \ {s} /\ Schedule(s, latest'[s], "ended")
        BY <2>4, <3>3, Zenon DEF EndTurn
      <4>2. live' = live
        BY <3>1
      <4>3. calls' \subseteq CallRecords /\ CallsAreTheirs' /\ SlotsAreCounted'
        BY <3>1, <3>2, <4>1, <4>2, ScheduleKeepsCalls
      <4> QED
        BY <1>0, <1>1, <3>1, <3>2, <3>3, <4>1, <4>3
    <3>4. CASE cadence = "off" \/ ~(ended \/ cadence = "turn")
      <4>1. /\ calls' = calls /\ active' = active
            /\ idle' \subseteq live /\ (cadence = "off" => idle' = idle)
        <5>1. CASE cadence = "off"
          BY <1>0, <2>4, <5>1 DEF EndTurn, callVars
        <5>2. CASE cadence # "off"
          <6>1. idle' = idle \cup {s} /\ UNCHANGED <<status, callVars>>
            BY <2>4, <3>4, <5>2, Zenon DEF EndTurn
          <6> QED
            BY <1>0, <3>1, <5>2, <6>1 DEF callVars
        <5> QED
          BY <5>1, <5>2
      <4>2. CallsAreTheirs' /\ SlotsAreCounted'
        BY <3>1, <4>1 DEF ExplainerInv, CallsAreTheirs, SlotsAreCounted, SlotsAddUp, Held
      <4> QED
        BY <1>0, <1>1, <3>1, <3>2, <4>1, <4>2
    <3> QED
      BY <3>3, <3>4
  <2> QED
    BY <2>1, <2>2, <2>3, <2>4
<1>2. ExplainerTypeOK'
  BY <1>0, <1>1 DEF ExplainerTypeOK
<1>3. OffIsTold'
  BY <1>0, <1>1 DEF ExplainerInv, OffIsTold, CallsAreTheirs
<1> QED
  BY <1>1, <1>2, <1>3 DEF ExplainerInv

\* Aborting some calls gives their slots back.
LEMMA AbortKeepsCalls ==
    ASSUME ExplainerInv, NEW gone \in SUBSET calls, NEW ended,
           IsFiniteSet(ended), ended \subseteq CallRecords,
           \A c \in ended : c.stage # "generating"
    PROVE  LET after == (calls \ gone) \cup ended IN
           /\ IsFiniteSet(after) /\ after \subseteq CallRecords
           /\ Held(after) = active - Held(gone) /\ Held(after) <= MaxHelpers
<1> DEFINE after == (calls \ gone) \cup ended
<1>1. /\ calls \subseteq CallRecords /\ IsFiniteSet(calls)
      /\ active = Held(calls) /\ active <= MaxHelpers
  BY DEF ExplainerInv, ExplainerTypeOK, SlotsAreCounted, SlotsAddUp
<1>2. IsFiniteSet(after) /\ Held(after) = Held(calls) - Held(gone)
  BY <1>1, SlotsGivenBack
<1>3. IsFiniteSet(gone)
  BY <1>1, FS_Subset
<1>4. active \in Nat /\ Held(gone) \in Nat /\ MaxHelpers \in Nat
  BY <1>1, <1>3, HeldIsCounted, ExplainerAssumption
<1> QED
  BY <1>1, <1>2, <1>4

\* A coordinator put away aborts its call and leaves none behind.
LEMMA EvictKeepsExplainerInv ==
    ASSUME ExplainerInv, NEW s \in Sessions, Evict(s)
    PROVE  ExplainerInv' /\ based' = based
<1> DEFINE gone == {c \in calls : c.who = s}
           ended == {Aborted(c, Nowhere) : c \in gone}
<1>0. /\ live \subseteq Sessions /\ idle \subseteq live /\ latest \in [Sessions -> Nat]
      /\ based \in [Sessions -> Nat] /\ covered \in [Sessions -> Nat]
      /\ calls \subseteq CallRecords /\ cadence \in {"off", "session", "turn"} /\ stops \in Nat
      /\ IsFiniteSet(calls)
  BY DEF ExplainerInv, ExplainerTypeOK, SlotsAreCounted
<1>1. /\ live' = live \ {s} /\ idle' = idle \ {s} /\ covered' = [covered EXCEPT ![s] = 0]
      /\ calls' = (calls \ gone) \cup ended /\ active' = active - Held(gone)
      /\ UNCHANGED <<cadence, stops, latest, based>>
  BY DEF Evict, sessionVars
<1>2. gone \in SUBSET calls /\ IsFiniteSet(ended)
  <2>1. gone \in SUBSET calls
    OBVIOUS
  <2>2. IsFiniteSet(gone)
    BY <1>0, <2>1, FS_Subset
  <2> HIDE DEF gone
  <2> QED
    BY <2>1, <2>2, AbortedAreFinite
<1>3. \A c \in ended : /\ c \in CallRecords /\ c.who = Nowhere
                       /\ c.stage # "generating" /\ c.aborted
  <2> SUFFICES ASSUME NEW c \in gone
               PROVE  LET a == Aborted(c, Nowhere)
                      IN  /\ a \in CallRecords /\ a.who = Nowhere
                          /\ a.stage # "generating" /\ a.aborted
    OBVIOUS
  <2> QED
    BY <1>0, AbortedIsEnded DEF Callers
<1>4. /\ IsFiniteSet(calls') /\ calls' \subseteq CallRecords
      /\ Held(calls') = active' /\ active' <= MaxHelpers
  BY <1>1, <1>2, <1>3, AbortKeepsCalls
<1>5. Nowhere \notin Sessions
  BY ExplainerAssumption
<1>6. CallsAreTheirs'
  BY <1>0, <1>1, <1>3, <1>5 DEF ExplainerInv, CallsAreTheirs
<1>7. SlotsAreCounted'
  BY <1>4 DEF SlotsAreCounted, SlotsAddUp, Held
<1>8. ExplainerTypeOK'
  <2>1. covered' \in [Sessions -> Nat]
    BY <1>0, <1>1
  <2> QED
    BY <1>0, <1>1, <1>4, <2>1 DEF ExplainerTypeOK
<1>9. OffIsTold'
  BY <1>0, <1>1, <1>3, <1>5 DEF ExplainerInv, OffIsTold
<1> QED
  BY <1>1, <1>6, <1>7, <1>8, <1>9 DEF ExplainerInv

\* Choosing off aborts every call of a loaded session.
LEMMA SetCadenceKeepsExplainerInv ==
    ASSUME ExplainerInv, NEW stop \in {"off", "session", "turn"}, SetCadence(stop)
    PROVE  ExplainerInv' /\ based' = based
<1> DEFINE ended == {Aborted(c, c.who) : c \in Cancelled}
<1>0. /\ live \subseteq Sessions /\ idle \subseteq live /\ latest \in [Sessions -> Nat]
      /\ based \in [Sessions -> Nat] /\ covered \in [Sessions -> Nat]
      /\ calls \subseteq CallRecords /\ cadence \in {"off", "session", "turn"} /\ stops \in Nat
      /\ IsFiniteSet(calls)
  BY DEF ExplainerInv, ExplainerTypeOK, SlotsAreCounted
<1>1. /\ cadence' = stop /\ stops' = stops + 1 /\ stop # cadence
      /\ UNCHANGED <<latest, based, live, covered>>
  BY DEF SetCadence, sessionVars
<1>2. CASE stop = "off"
  <2>1. /\ idle' = {} /\ calls' = (calls \ Cancelled) \cup ended
        /\ active' = active - Held(Cancelled)
    BY <1>2 DEF SetCadence
  <2>2. Cancelled \in SUBSET calls
    BY DEF Cancelled
  <2>3. IsFiniteSet(ended)
    <3> DEFINE f == [c \in Cancelled |-> Aborted(c, c.who)]
    <3>1. f \in Surjection(Cancelled, ended)
      BY DEF Surjection
    <3>2. IsFiniteSet(Cancelled)
      BY <1>0, <2>2, FS_Subset
    <3> QED
      BY <3>1, <3>2, FS_Surjection
  <2>4. \A a \in ended : /\ a \in CallRecords /\ a.who \in live
                         /\ a.stage # "generating" /\ a.aborted
    <3> SUFFICES ASSUME NEW c \in Cancelled
                 PROVE  LET a == Aborted(c, c.who)
                        IN  /\ a \in CallRecords /\ a.who \in live
                            /\ a.stage # "generating" /\ a.aborted
      OBVIOUS
    <3>1. c \in CallRecords /\ c.who \in live /\ c.who \in Callers
      BY <1>0 DEF Cancelled, Callers
    <3> QED
      BY <3>1, AbortedIsEnded
  <2> HIDE DEF ended
  <2>5. /\ IsFiniteSet(calls') /\ calls' \subseteq CallRecords
        /\ Held(calls') = active' /\ active' <= MaxHelpers
    BY <2>1, <2>2, <2>3, <2>4, AbortKeepsCalls
  <2>6. CallsAreTheirs'
    BY <1>1, <2>1, <2>4 DEF ExplainerInv, CallsAreTheirs
  <2>7. SlotsAreCounted'
    BY <2>5 DEF SlotsAreCounted, SlotsAddUp, Held
  <2>8. ExplainerTypeOK'
    BY <1>0, <1>1, <2>1, <2>5 DEF ExplainerTypeOK
  <2>9. OffIsTold'
    BY <1>1, <2>1, <2>4 DEF OffIsTold, Cancelled
  <2> QED
    BY <1>1, <2>6, <2>7, <2>8, <2>9 DEF ExplainerInv
<1>3. CASE stop # "off"
  <2>1. UNCHANGED <<idle, calls, active>>
    BY <1>3 DEF SetCadence, callVars
  <2>2. CallsAreTheirs' /\ SlotsAreCounted'
    BY <1>1, <2>1 DEF ExplainerInv, CallsAreTheirs, SlotsAreCounted, SlotsAddUp, Held
  <2>3. ExplainerTypeOK'
    BY <1>0, <1>1, <2>1 DEF ExplainerTypeOK
  <2>4. OffIsTold'
    BY <1>1, <1>3 DEF OffIsTold
  <2> QED
    BY <1>1, <2>2, <2>3, <2>4 DEF ExplainerInv
<1> QED
  BY <1>2, <1>3

\* A presentation aborts the one under way.
LEMMA PresentKeepsExplainerInv ==
    ASSUME ExplainerInv, Present
    PROVE  ExplainerInv' /\ based' = based
<1> DEFINE previous == {c \in calls : c.who = Reader}
           ended == {Aborted(c, Nowhere) : c \in previous}
           others == (calls \ previous) \cup ended
<1>0. /\ live \subseteq Sessions /\ calls \subseteq CallRecords /\ IsFiniteSet(calls)
  BY DEF ExplainerInv, ExplainerTypeOK, SlotsAreCounted
<1>1. /\ BeginCall(Reader, 0, others, active - Held(previous))
      /\ UNCHANGED <<cadence, stops, latest, based, live, covered, idle>>
  BY DEF Present, sessionVars, coordinatorVars
<1>2. previous \in SUBSET calls /\ IsFiniteSet(ended)
  <2>1. previous \in SUBSET calls
    OBVIOUS
  <2>2. IsFiniteSet(previous)
    BY <1>0, <2>1, FS_Subset
  <2> HIDE DEF previous
  <2> QED
    BY <2>1, <2>2, AbortedAreFinite
<1>3. \A a \in ended : /\ a \in CallRecords /\ a.who = Nowhere
                       /\ a.stage # "generating" /\ a.aborted
  <2> SUFFICES ASSUME NEW c \in previous
               PROVE  LET a == Aborted(c, Nowhere)
                      IN  /\ a \in CallRecords /\ a.who = Nowhere
                          /\ a.stage # "generating" /\ a.aborted
    OBVIOUS
  <2> QED
    BY <1>0, AbortedIsEnded DEF Callers
<1> HIDE DEF ended
<1>4. /\ IsFiniteSet(others) /\ others \subseteq CallRecords
      /\ Held(others) = active - Held(previous) /\ Held(others) <= MaxHelpers
  BY <1>2, <1>3, AbortKeepsCalls
<1>5. \A c \in others : c.who # Reader
  BY <1>3, ExplainerAssumption
<1>6. \A c \in others : c \in calls \/ (c.who = Nowhere /\ c.stage # "generating")
  BY <1>3
<1> HIDE DEF others
<1>7. /\ IsFiniteSet(calls') /\ SlotsAddUp' /\ calls' \subseteq CallRecords
      /\ \A c \in calls' : c \in others \/ c.who = Reader
      /\ \A c, d \in calls' :
           c.stage = "generating" /\ d.stage = "generating" /\ c.who = Reader /\ d.who = Reader => c = d
  <2>1. Reader \in Sessions \cup {Reader} /\ 0 \in Nat
    OBVIOUS
  <2>2. \A c \in others : c.stage = "generating" => c.who # Reader
    BY <1>5
  <2> QED
    BY <1>1, <1>4, <2>1, <2>2, CallBegins
<1>8. \A c \in calls' : c.who \in Sessions => c \in calls
  BY <1>6, <1>7, ExplainerAssumption
<1>9. CallsAreTheirs'
  <2>1. \A c \in calls' : c.stage = "generating" => c \in calls \/ c.who = Reader
    BY <1>6, <1>7
  <2>2. \A c \in calls' : c.who # Reader => c \in others
    BY <1>7
  <2>3. \A c, d \in calls' :
          c.who = d.who /\ c.stage = "generating" /\ d.stage = "generating" => c = d
    BY <1>7, <2>1 DEF ExplainerInv, CallsAreTheirs
  <2> QED
    BY <1>1, <1>8, <2>3 DEF ExplainerInv, CallsAreTheirs
<1>10. ExplainerTypeOK'
  BY <1>1, <1>7 DEF ExplainerInv, ExplainerTypeOK
<1>11. OffIsTold'
  BY <1>0, <1>1, <1>8 DEF ExplainerInv, OffIsTold
<1> QED
  BY <1>1, <1>7, <1>9, <1>10, <1>11 DEF ExplainerInv, SlotsAreCounted

\* Every step keeps the invariant, and no answer is taken while the stop is off.
LEMMA StepKeepsExplainerInv ==
    ASSUME ExplainerInv, [ExplainerNext]_explainerVars
    PROVE  ExplainerInv' /\ (cadence = "off" => based' = based)
<1>1. ASSUME NEW s \in Sessions, Load(s) \/ Event(s) \/ FallSilent(s)
      PROVE  ExplainerInv' /\ based' = based
  <2>1. TRUE \in BOOLEAN
    OBVIOUS
  <2> QED
    BY <1>1, <2>1, SessionsKeepExplainerInv
<1>2. ASSUME NEW s \in Sessions, NEW ended \in BOOLEAN, EndTurn(s, ended)
      PROVE  ExplainerInv' /\ based' = based
  BY <1>2, SessionsKeepExplainerInv
<1>3. ASSUME NEW s \in Sessions, Evict(s)
      PROVE  ExplainerInv' /\ based' = based
  BY <1>3, EvictKeepsExplainerInv
<1>4. ASSUME NEW c \in calls, Timeout(c) \/ Close(c) \/ Deliver(c)
      PROVE  ExplainerInv' /\ (cadence = "off" => based' = based)
  BY <1>4, SettleKeepsExplainerInv
<1>5. ASSUME NEW stop \in {"off", "session", "turn"}, SetCadence(stop)
      PROVE  ExplainerInv' /\ based' = based
  BY <1>5, SetCadenceKeepsExplainerInv
<1>6. CASE Present
  BY <1>6, PresentKeepsExplainerInv
<1>7. CASE UNCHANGED explainerVars
  <2>1. UNCHANGED <<cadence, stops, latest, based, live, covered, idle, calls, active>>
    BY <1>7 DEF explainerVars, sessionVars, coordinatorVars, callVars
  <2> QED
    BY <2>1 DEF ExplainerInv, ExplainerTypeOK, CallsAreTheirs, SlotsAreCounted,
                SlotsAddUp, Held, OffIsTold
<1> QED
  BY <1>1, <1>2, <1>3, <1>4, <1>5, <1>6, <1>7, Zenon DEF ExplainerNext

\* A daemon that starts has called nobody.
LEMMA ExplainerStarts == ExplainerInit => ExplainerInv
<1> SUFFICES ASSUME ExplainerInit PROVE ExplainerInv
  OBVIOUS
<1> USE DEF ExplainerInit
<1>1. ExplainerTypeOK
  BY DEF ExplainerTypeOK
<1>2. SlotsAreCounted
  <2>1. IsFiniteSet(calls)
    BY FS_EmptySet
  <2>2. {c \in calls : c.stage = "generating"} = {}
    OBVIOUS
  <2>3. Held(calls) = 0
    BY <2>2, FS_EmptySet DEF Held
  <2> QED
    BY <2>1, <2>3, ExplainerAssumption DEF SlotsAreCounted, SlotsAddUp
<1> QED
  BY <1>1, <1>2 DEF ExplainerInv, CallsAreTheirs, OffIsTold

\* A loaded session has one call at most, no call of a session outlives its
\* coordinator, and off was said to all of them (sessionCoordinator.ts).
THEOREM ExplainerInvariant == ExplainerSpec => []ExplainerInv
<1>1. ExplainerInit => ExplainerInv
  BY ExplainerStarts
<1>2. ExplainerInv /\ [ExplainerNext]_explainerVars => ExplainerInv'
  BY StepKeepsExplainerInv
<1> QED
  BY <1>1, <1>2, PTL DEF ExplainerSpec

\* The slots taken are the calls that generate, two at most, whoever ends a
\* call and however often (explainerCapacity.ts).
THEOREM HelpersNeverExceed == ExplainerSpec => []SlotsAddUp
<1>1. ExplainerInv => SlotsAddUp
  BY DEF ExplainerInv, SlotsAreCounted
<1> QED
  BY <1>1, ExplainerInvariant, PTL

\* While the stop is off no explanation arrives for any session, whatever was
\* under way when it was chosen (setExplainerCadence).
THEOREM OffExplainsNothing == ExplainerSpec => OffMeansOff
<1>1. ExplainerInv /\ [ExplainerNext]_explainerVars
      => [cadence = "off" => based' = based]_explainerVars
  BY StepKeepsExplainerInv
<1> QED
  BY <1>1, ExplainerInvariant, PTL DEF ExplainerSpec, OffMeansOff

-----------------------------------------------------------------------------
(* The change feed                                                         *)

Labels == {"none", "disabled", "generating", "generated", "failed"}
\* What is told of a session, what the store and a coordinator hold, and what
\* is sent.
Summaries == [seq : Nat, explanation : Labels]
Tellings == Summaries \cup {Nothing}
Rows == [seq : Nat, covers : Nat, row : Labels, forgotten : BOOLEAN]
LoadedOnes ==
    [loaded : BOOLEAN, call : {"none", "running", "aborted"}, status : Labels, tried : Nat]
Messages ==
    [type : {"resync"}] \cup [type : {"changed", "removed"}, of : Observed]

\* Types of the sessions, their coordinators, the stream and what the consumer
\* holds.
FeedTypeOK ==
    /\ session \in [Observed -> Rows]
    /\ coordinator \in [Observed -> LoadedOnes]
    /\ due \in SUBSET Observed
    /\ late \in SUBSET [of : Observed, summary : Summaries]
    /\ explains \in BOOLEAN
    /\ listCache \in [Observed -> [of : Tellings, entry : Tellings]]
    /\ told \in [Observed -> Tellings]
    /\ stream \in Seq(Messages)
    /\ connected \in BOOLEAN
    /\ view \in [Observed -> Tellings]

\* A message that makes the consumer read s again.
About(m, s) == m.type = "resync" \/ m = Changed(s) \/ m = Removed(s)
Pending(s) == \E i \in 1 .. Len(stream) : About(stream[i], s)

\* What the contract serves of s.
Served(s) == IF Known(s) THEN session[s].seq ELSE 0

\* What of s is neither read nor pending was told, and what was told was read
\* since.
ReadOrTold(s) ==
    connected = TRUE /\ ~Pending(s) =>
        /\ s \in due \/ view[s].seq = Served(s)
        /\ Known(s) => told[s].seq <= view[s].seq

\* A coordinator is of a session that is there, and so is what its timer says.
LoadedIsKnown(s) ==
    /\ Loaded(s) => Known(s)
    /\ s \in due \/ coordinator[s].call # "none" => Loaded(s)

\* Nothing was told or read that is newer than the session.
NoneNewer(s) ==
    /\ told[s].seq <= session[s].seq /\ view[s].seq <= session[s].seq
    /\ \A l \in late : l.of = s => l.summary.seq <= session[s].seq

CacheIsBuilt(s) == listCache[s].entry = listCache[s].of

Followed(s) == ReadOrTold(s) /\ LoadedIsKnown(s) /\ NoneNewer(s) /\ CacheIsBuilt(s)

FeedInv == FeedTypeOK /\ \A s \in Observed : Followed(s)

-----------------------------------------------------------------------------
\* What the types say of one session.
LEMMA FeedTypes ==
    ASSUME FeedTypeOK, NEW s \in Observed
    PROVE  /\ session[s].seq \in Nat /\ session[s].covers \in Nat /\ session[s].row \in Labels
           /\ session[s].forgotten \in BOOLEAN
           /\ coordinator[s].status \in Labels /\ coordinator[s].tried \in Nat
           /\ coordinator[s].loaded \in BOOLEAN
           /\ coordinator[s].call \in {"none", "running", "aborted"}
           /\ told[s].seq \in Nat /\ view[s].seq \in Nat
BY DEF FeedTypeOK, Rows, LoadedOnes, Tellings, Summaries, Nothing

\* A summary tells the evidence there is.
LEMMA SummaryTypes ==
    ASSUME FeedTypeOK, NEW s \in Observed
    PROVE  SummaryOf(s) \in Summaries /\ SummaryOf(s).seq = session[s].seq
<1>1. Explained(s, coordinator[s].status) \in Labels
  BY FeedTypes DEF Explained, Labels
<1> QED BY <1>1, FeedTypes DEF SummaryOf, Summaries

\* A coordinator that is closed, one that is new, and the values for nothing
\* told and nothing cached.
LEMMA LoadedTypes ==
    /\ Unloaded \in LoadedOnes /\ ~Unloaded.loaded
    /\ \A b \in BOOLEAN : explains = b => Fresh \in LoadedOnes /\ Fresh.loaded
    /\ Nothing \in Tellings /\ Nothing.seq = 0 /\ Summaries \subseteq Tellings
    /\ NoEntry \in [of : Tellings, entry : Tellings] /\ NoEntry.of = NoEntry.entry
BY DEF Unloaded, Fresh, LoadedOnes, Labels, Nothing, Tellings, NoEntry

\* What the feed says of a session are messages.
LEMMA MessageTypes ==
    ASSUME NEW s \in Observed
    PROVE  Changed(s) \in Messages /\ Removed(s) \in Messages
BY DEF Changed, Removed, Messages

\* A sequence of messages and one more.
LEMMA OneMore ==
    ASSUME NEW before \in Seq(Messages), NEW m \in Messages
    PROVE  /\ before \o <<m>> \in Seq(Messages) /\ Len(before \o <<m>>) = Len(before) + 1
           /\ \A i \in 1 .. Len(before) : (before \o <<m>>)[i] = before[i]
           /\ (before \o <<m>>)[Len(before) + 1] = m
<1>1. PICK one : one = <<m>>
  OBVIOUS
<1>2. one \in Seq(Messages) /\ Len(one) = 1 /\ one[1] = m /\ Len(before) \in Nat
  BY <1>1, LenProperties
<1>3. PICK all : all = before \o one
  OBVIOUS
<1>4. /\ all \in Seq(Messages) /\ Len(all) = Len(before) + Len(one)
      /\ \A i \in 1 .. Len(before) + Len(one) :
           all[i] = (IF i <= Len(before) THEN before[i] ELSE one[i - Len(before)])
  BY <1>2, <1>3, ConcatProperties
<1>5. /\ Len(all) = Len(before) + 1
      /\ \A i \in 1 .. Len(before) + 1 :
           all[i] = (IF i <= Len(before) THEN before[i] ELSE one[i - Len(before)])
  BY <1>2, <1>4
<1>6. \A i \in 1 .. Len(before) : all[i] = before[i]
  BY <1>2, <1>5
<1>7. all[Len(before) + 1] = m
  <2>1. Len(before) + 1 \in 1 .. Len(before) + 1 /\ ~(Len(before) + 1 <= Len(before))
        /\ Len(before) + 1 - Len(before) = 1
    BY <1>2
  <2> QED BY <1>2, <1>5, <2>1
<1> QED BY <1>1, <1>3, <1>4, <1>5, <1>6, <1>7

\* What is sent is appended, unless nobody is connected or the reader is too
\* far behind.
LEMMA SendSteps ==
    ASSUME FeedTypeOK, NEW messages \in Seq(Messages), Send(messages)
    PROVE  /\ stream' \in Seq(Messages) /\ connected' \in BOOLEAN
           /\ connected' = TRUE => connected = TRUE /\ stream' = stream \o messages
<1>1. stream \in Seq(Messages) /\ connected \in BOOLEAN
  BY DEF FeedTypeOK
<1>2. CASE ~connected \/ messages = <<>>
  <2>1. stream' = stream /\ connected' = connected
    BY <1>2 DEF Send
  <2>2. messages = <<>> => stream \o messages = stream
    BY <1>1, EmptySeq, ConcatEmptySeq
  <2> QED BY <1>1, <1>2, <2>1, <2>2
<1>3. CASE ~(~connected \/ messages = <<>>) /\ Len(stream) + Len(messages) > MaxBuffered
  <2>1. stream' = <<>> /\ connected' = FALSE
    BY <1>3 DEF Send
  <2> QED BY <2>1, EmptySeq
<1>4. CASE ~(~connected \/ messages = <<>>) /\ ~(Len(stream) + Len(messages) > MaxBuffered)
  <2>1. stream' = stream \o messages /\ connected' = connected
    BY <1>4 DEF Send
  <2> QED BY <1>1, <1>4, <2>1, ConcatProperties
<1> QED BY <1>2, <1>3, <1>4

\* What is pending stays so when messages are appended, and what is appended is
\* pending.
LEMMA PendingGrows ==
    ASSUME FeedTypeOK, NEW messages \in Seq(Messages), stream' = stream \o messages, NEW s
    PROVE  /\ Pending(s) => Pending(s)'
           /\ \A i \in 1 .. Len(messages) : About(messages[i], s) => Pending(s)'
<1>1. stream \in Seq(Messages) /\ Len(stream) \in Nat /\ Len(messages) \in Nat
  BY LenProperties DEF FeedTypeOK
<1>2. /\ Len(stream') = Len(stream) + Len(messages)
      /\ \A i \in 1 .. Len(stream) + Len(messages) :
           stream'[i] = (IF i <= Len(stream) THEN stream[i] ELSE messages[i - Len(stream)])
  BY <1>1, ConcatProperties
<1>3. ASSUME NEW i \in 1 .. Len(stream), About(stream[i], s)
      PROVE  Pending(s)'
  <2>1. i \in 1 .. Len(stream') /\ stream'[i] = stream[i]
    BY <1>1, <1>2
  <2> QED BY <1>3, <2>1 DEF Pending, About, Changed, Removed
<1>4. ASSUME NEW i \in 1 .. Len(messages), About(messages[i], s)
      PROVE  Pending(s)'
  <2>1. /\ Len(stream) + i \in 1 .. Len(stream')
        /\ stream'[Len(stream) + i] = messages[i]
    <3>1. Len(stream) + i \in 1 .. Len(stream) + Len(messages) /\ ~(Len(stream) + i <= Len(stream))
          /\ Len(stream) + i - Len(stream) = i
      BY <1>1
    <3> QED BY <1>2, <3>1
  <2> QED BY <1>4, <2>1 DEF Pending, About, Changed, Removed
<1> QED BY <1>3, <1>4 DEF Pending

\* The steps that touch one session.
Elsewhere(s) ==
    /\ \A t \in Observed \ {s} :
         /\ session'[t] = session[t] /\ coordinator'[t] = coordinator[t]
         /\ told'[t] = told[t] /\ view'[t] = view[t] /\ listCache'[t] = listCache[t]
         /\ t \in due' <=> t \in due
    /\ \A l \in late' : l \in late \/ l.of = s

\* A step that touches one session keeps what is known of the others, if
\* nothing pending is lost while the reader stays connected.
LEMMA OthersFollow ==
    ASSUME FeedInv, FeedTypeOK', NEW s \in Observed, Elsewhere(s), Followed(s)',
           connected' = TRUE => connected = TRUE /\ \A t \in Observed : Pending(t) => Pending(t)'
    PROVE  FeedInv'
<1> SUFFICES ASSUME NEW t \in Observed, t # s PROVE Followed(t)'
  BY DEF FeedInv
<1>1. Followed(t)
  BY DEF FeedInv
<1>2. ReadOrTold(t)'
  BY <1>1 DEF Followed, ReadOrTold, Elsewhere, Known, Served
<1>3. LoadedIsKnown(t)' /\ NoneNewer(t)' /\ CacheIsBuilt(t)'
  BY <1>1 DEF Followed, LoadedIsKnown, NoneNewer, CacheIsBuilt, Elsewhere, Known, Loaded
<1> QED BY <1>2, <1>3 DEF Followed

\* A loaded session grows or changes its call, and will say so.
Speaking(s, row, c) ==
    /\ session' = [session EXCEPT ![s] = row] /\ coordinator' = [coordinator EXCEPT ![s] = c]
    /\ row \in Rows /\ c \in LoadedOnes
    /\ row.seq >= session[s].seq /\ row.seq > 0
    /\ row.forgotten = FALSE /\ session[s].forgotten = FALSE /\ c.loaded = TRUE
    /\ due' = due \cup {s} \/ (due' = due /\ row = session[s])
    /\ FeedUnmoved /\ UNCHANGED <<late, explains, readerVars>>

\* It keeps the invariant: the timer that will tell is armed.
LEMMA SpeakingSteps ==
    ASSUME FeedInv, NEW s \in Observed, NEW row, NEW c, Speaking(s, row, c)
    PROVE  FeedInv'
<1> USE DEF Speaking
<1>1. FeedTypeOK /\ Followed(s)
  BY DEF FeedInv
<1>2. /\ session'[s] = row /\ coordinator'[s] = c
      /\ UNCHANGED <<told, stream, connected, late, listCache, view>>
      /\ \A t \in Observed \ {s} : session'[t] = session[t] /\ coordinator'[t] = coordinator[t]
  BY <1>1 DEF FeedTypeOK, FeedUnmoved, readerVars
<1>3. FeedTypeOK'
  BY <1>1, <1>2 DEF FeedTypeOK
<1>4. Elsewhere(s)
  BY <1>2 DEF Elsewhere
<1>5. \A t \in Observed : Pending(t)' = Pending(t)
  BY <1>2 DEF Pending, About, Changed, Removed
<1>6. row.seq \in Nat /\ session[s].seq \in Nat /\ told[s].seq \in Nat /\ view[s].seq \in Nat
  BY <1>1, FeedTypes DEF Rows
<1>7. ReadOrTold(s)'
  BY <1>1, <1>2, <1>5, <1>6 DEF Followed, ReadOrTold, NoneNewer, Known, Served
<1>8. LoadedIsKnown(s)' /\ CacheIsBuilt(s)'
  BY <1>1, <1>2 DEF Followed, LoadedIsKnown, CacheIsBuilt, Known, Loaded
<1>9. NoneNewer(s)'
  <2>1. \A l \in late : l.of = s => l.summary.seq \in Nat
    BY <1>1 DEF FeedTypeOK, Summaries
  <2> QED BY <1>1, <1>2, <1>6, <2>1 DEF Followed, NoneNewer
<1> QED BY <1>2, <1>3, <1>4, <1>5, <1>7, <1>8, <1>9, OthersFollow DEF Followed

\* Evidence and labels are written into a row.
LEMMA RowGrows ==
    ASSUME NEW r \in Rows, NEW n \in Nat, NEW m \in Nat, NEW label \in Labels
    PROVE  /\ [r EXCEPT !.seq = n, !.row = label] \in Rows
           /\ [r EXCEPT !.seq = n, !.covers = m, !.row = label] \in Rows
           /\ [r EXCEPT !.row = label] \in Rows
           /\ [r EXCEPT !.seq = n, !.row = label].seq = n
           /\ [r EXCEPT !.seq = n, !.covers = m, !.row = label].seq = n
           /\ [r EXCEPT !.row = label].seq = r.seq
           /\ [r EXCEPT !.seq = n, !.row = label].forgotten = r.forgotten
           /\ [r EXCEPT !.seq = n, !.covers = m, !.row = label].forgotten = r.forgotten
           /\ [r EXCEPT !.row = label].forgotten = r.forgotten
BY DEF Rows

\* The steps of a loaded session that its timer will tell.
LEMMA CallSteps ==
    ASSUME FeedInv, NEW s \in Observed,
           Ingest(s) \/ Open(s) \/ StartCall(s) \/ CallAnswers(s) \/ CallAborted(s)
    PROVE  FeedInv'
<1>1. /\ FeedTypeOK /\ explains \in BOOLEAN /\ session[s] \in Rows /\ coordinator[s] \in LoadedOnes
      /\ session = [session EXCEPT ![s] = session[s]]
      /\ session[s].seq \in Nat /\ session[s].row \in Labels /\ session[s].forgotten \in BOOLEAN
      /\ Loaded(s) => Known(s)
      /\ Known(s) => session[s].forgotten = FALSE /\ session[s].seq > 0
      /\ Loaded(s) => coordinator[s].loaded = TRUE
      /\ Fresh \in LoadedOnes /\ Fresh.loaded = TRUE
  <2>1. FeedTypeOK /\ Followed(s)
    BY DEF FeedInv
  <2>2. /\ explains \in BOOLEAN /\ session[s] \in Rows /\ coordinator[s] \in LoadedOnes
        /\ session = [session EXCEPT ![s] = session[s]]
    BY <2>1 DEF FeedTypeOK
  <2>3. Loaded(s) => coordinator[s].loaded = TRUE
    BY <2>2 DEF Loaded, LoadedOnes
  <2>4. Known(s) => session[s].forgotten = FALSE /\ session[s].seq > 0
    BY <2>2 DEF Known, Rows
  <2> QED BY <2>1, <2>2, <2>3, <2>4, FeedTypes, LoadedTypes DEF Followed, LoadedIsKnown
<1>2. CASE Ingest(s)
  <2>1. PICK c : c = (IF Loaded(s) THEN coordinator[s] ELSE Fresh)
    OBVIOUS
  <2>2. c \in LoadedOnes /\ c.loaded = TRUE /\ c.status \in Labels
    BY <1>1, <2>1 DEF Loaded, LoadedOnes
  <2>3. PICK row : row = [session[s] EXCEPT !.seq = @ + 1, !.row = c.status]
    OBVIOUS
  <2>4. /\ row \in Rows /\ row.seq = session[s].seq + 1 /\ row.forgotten = session[s].forgotten
    <3>1. PICK n \in Nat : n = session[s].seq + 1
      BY <1>1
    <3>2. PICK label \in Labels : label = c.status
      BY <2>2
    <3>3. row = [session[s] EXCEPT !.seq = n, !.row = label]
      BY <2>3, <3>1, <3>2
    <3> QED BY <1>1, <3>1, <3>3 DEF Rows
  <2>5. /\ session' = [session EXCEPT ![s] = row] /\ coordinator' = [coordinator EXCEPT ![s] = c]
        /\ due' = due \cup {s} /\ session[s].forgotten = FALSE
        /\ FeedUnmoved /\ UNCHANGED <<late, explains, readerVars>>
    BY <1>1, <1>2, <2>1, <2>3 DEF Ingest, Speaks
  <2>9. Speaking(s, row, c)
    BY <1>1, <2>2, <2>4, <2>5 DEF Speaking
  <2> QED BY <2>9, SpeakingSteps
<1>3. CASE Open(s)
  <2>1. /\ session' = session /\ coordinator' = [coordinator EXCEPT ![s] = Fresh] /\ due' = due
        /\ Known(s) /\ FeedUnmoved /\ UNCHANGED <<late, explains, readerVars>>
    BY <1>3 DEF Open
  <2>9. Speaking(s, session[s], Fresh)
    BY <1>1, <2>1 DEF Speaking
  <2> QED BY <2>9, SpeakingSteps
<1>4. CASE StartCall(s)
  <2>1. PICK c : c = [coordinator[s] EXCEPT !.call = "running", !.status = "generating"]
    OBVIOUS
  <2>2. c \in LoadedOnes /\ c.loaded = coordinator[s].loaded
    BY <1>1, <2>1 DEF LoadedOnes, Labels
  <2>3. /\ session' = session /\ coordinator' = [coordinator EXCEPT ![s] = c]
        /\ due' = due \cup {s} /\ Known(s) /\ coordinator[s].loaded = TRUE
        /\ FeedUnmoved /\ UNCHANGED <<late, explains, readerVars>>
    BY <1>1, <1>4, <2>1 DEF StartCall, Speaks, Loaded
  <2>9. Speaking(s, session[s], c)
    BY <1>1, <2>2, <2>3 DEF Speaking
  <2> QED BY <2>9, SpeakingSteps
<1>5. CASE CallAnswers(s)
  <2>1. Known(s) /\ coordinator[s].loaded = TRUE
    BY <1>1, <1>5 DEF CallAnswers, FeedInv, Followed, LoadedIsKnown, Loaded
  <2>2. PICK row \in Rows : /\ session' = [session EXCEPT ![s] = row]
                            /\ row.seq >= session[s].seq /\ row.forgotten = session[s].forgotten
    <3>1. CASE session' = [session EXCEPT ![s].seq = @ + 1, ![s].covers = session[s].seq + 1,
                                          ![s].row = "generated"]
      <4>1. PICK row : row = [session[s] EXCEPT !.seq = @ + 1, !.covers = session[s].seq + 1,
                                                !.row = "generated"]
        OBVIOUS
      <4>2. row \in Rows /\ row.seq = session[s].seq + 1 /\ row.forgotten = session[s].forgotten
        <5>1. PICK n \in Nat : n = session[s].seq + 1
          BY <1>1
        <5>2. row = [session[s] EXCEPT !.seq = n, !.covers = n, !.row = "generated"]
          BY <4>1, <5>1
        <5>3. "generated" \in Labels
          BY DEF Labels
        <5> QED BY <1>1, <5>1, <5>2, <5>3 DEF Rows
      <4>3. session' = [session EXCEPT ![s] = row]
        BY <3>1, <4>1
      <4>4. row.seq >= session[s].seq
        BY <1>1, <4>2
      <4> QED BY <4>2, <4>3, <4>4
    <3>2. CASE session' = [session EXCEPT ![s].row = "failed"]
      <4>1. PICK row : row = [session[s] EXCEPT !.row = "failed"]
        OBVIOUS
      <4>2. row \in Rows /\ row.seq = session[s].seq /\ row.forgotten = session[s].forgotten
        BY <1>1, <4>1, RowGrows DEF Labels
      <4>3. session' = [session EXCEPT ![s] = row]
        BY <3>2, <4>1
      <4>4. row.seq >= session[s].seq
        BY <1>1, <4>2
      <4> QED BY <4>2, <4>3, <4>4
    <3> QED BY <1>5, <3>1, <3>2 DEF CallAnswers
  <2>3. session'[s] = row /\ row.row \in Labels /\ row.seq \in Nat
    BY <1>1, <2>2 DEF FeedTypeOK, Rows
  <2>4. PICK c : c = [coordinator[s] EXCEPT !.call = "none", !.status = row.row, !.tried = row.seq]
    OBVIOUS
  <2>5. c \in LoadedOnes /\ c.loaded = coordinator[s].loaded
    BY <1>1, <2>3, <2>4 DEF LoadedOnes
  <2>6. /\ coordinator' = [coordinator EXCEPT ![s] = c] /\ due' = due \cup {s}
        /\ FeedUnmoved /\ UNCHANGED <<late, explains, readerVars>>
    BY <1>5, <2>3, <2>4 DEF CallAnswers, Speaks
  <2>7. row.seq > 0 /\ session[s].forgotten = FALSE
    BY <1>1, <2>1, <2>2, <2>3 DEF Known
  <2>9. Speaking(s, row, c)
    BY <1>1, <2>1, <2>2, <2>5, <2>6, <2>7 DEF Speaking
  <2> QED BY <2>9, SpeakingSteps
<1>6. CASE CallAborted(s)
  <2>1. coordinator[s].loaded = TRUE /\ Known(s)
    BY <1>1, <1>6 DEF CallAborted, FeedInv, Followed, LoadedIsKnown, Loaded
  <2>2. PICK c : c = [coordinator[s] EXCEPT !.call = "none"]
    OBVIOUS
  <2>3. c \in LoadedOnes /\ c.loaded = coordinator[s].loaded
    BY <1>1, <2>2 DEF LoadedOnes
  <2>4. /\ session' = session /\ coordinator' = [coordinator EXCEPT ![s] = c]
        /\ due' = due \cup {s} /\ FeedUnmoved /\ UNCHANGED <<late, explains, readerVars>>
    BY <1>6, <2>2 DEF CallAborted, Speaks
  <2>9. Speaking(s, session[s], c)
    BY <1>1, <2>1, <2>3, <2>4 DEF Speaking
  <2> QED BY <2>9, SpeakingSteps
<1> QED BY <1>2, <1>3, <1>4, <1>5, <1>6

\* The setting changes every loaded session, and all of them will tell.
LEMMA SettingSteps ==
    ASSUME FeedInv, SetExplains
    PROVE  FeedInv'
<1>1. /\ due' = due \cup {s \in Observed : Loaded(s)} /\ explains' = ~explains
      /\ UNCHANGED <<session, late, listCache, view, told, stream, connected>>
  BY DEF SetExplains, FeedUnmoved, readerVars
<1>2. \A s \in Observed :
        /\ coordinator'[s] \in LoadedOnes
        /\ coordinator'[s].loaded = coordinator[s].loaded
        /\ coordinator'[s].call # "none" => coordinator'[s].loaded
  <2> SUFFICES ASSUME NEW s \in Observed
               PROVE  /\ coordinator'[s] \in LoadedOnes
                      /\ coordinator'[s].loaded = coordinator[s].loaded
                      /\ coordinator'[s].call # "none" => coordinator'[s].loaded
    OBVIOUS
  <2>1. coordinator[s] \in LoadedOnes
    BY DEF FeedInv, FeedTypeOK
  <2>2. CASE ~Loaded(s)
    <3>1. coordinator'[s] = Unloaded /\ coordinator[s].loaded = FALSE
      BY <2>1, <2>2 DEF SetExplains, Loaded, LoadedOnes
    <3>2. Unloaded \in LoadedOnes /\ Unloaded.loaded = FALSE /\ Unloaded.call = "none"
      BY LoadedTypes DEF Unloaded
    <3> QED BY <3>1, <3>2
  <2>3. CASE Loaded(s)
    <3>1. PICK label \in Labels : label = IF explains THEN "disabled" ELSE "none"
      BY DEF Labels
    <3>2. PICK call \in {"none", "running", "aborted"} :
             call = IF coordinator[s].call = "running" THEN "aborted" ELSE coordinator[s].call
      BY <2>1 DEF LoadedOnes
    <3>3. coordinator'[s] = [coordinator[s] EXCEPT !.call = call, !.status = label]
      BY <2>3, <3>1, <3>2 DEF SetExplains
    <3> QED BY <2>1, <2>3, <3>3 DEF LoadedOnes, Loaded
  <2> QED BY <2>2, <2>3
<1>3. coordinator' \in [Observed -> LoadedOnes]
  BY <1>2 DEF SetExplains
<1>4. FeedTypeOK'
  BY <1>1, <1>3 DEF FeedInv, FeedTypeOK
<1>5. \A s \in Observed : Pending(s)' = Pending(s)
  BY <1>1 DEF Pending, About, Changed, Removed
<1>6. ASSUME NEW s \in Observed
      PROVE  Followed(s)'
  <2>1. Followed(s)
    BY DEF FeedInv
  <2>2. ReadOrTold(s)' /\ NoneNewer(s)' /\ CacheIsBuilt(s)'
    BY <1>1, <1>5, <2>1 DEF Followed, ReadOrTold, NoneNewer, CacheIsBuilt, Known, Served
  <2>3. LoadedIsKnown(s)'
    BY <1>1, <1>2, <2>1 DEF Followed, LoadedIsKnown, Loaded, Known
  <2> QED BY <2>2, <2>3 DEF Followed
<1> QED BY <1>4, <1>6 DEF FeedInv

\* A summary of the session is announced: it was told already, or is sent.
LEMMA AnnounceSteps ==
    ASSUME FeedInv, NEW s \in Observed, NEW summary \in Summaries, Announce(s, summary)
    PROVE  /\ stream' \in Seq(Messages) /\ connected' \in BOOLEAN /\ told' \in [Observed -> Tellings]
           /\ connected' = TRUE => connected = TRUE /\ \A t \in Observed : Pending(t) => Pending(t)'
           /\ connected' = TRUE => told'[s] = summary /\ (told[s] = summary \/ Pending(s)')
           /\ told'[s] \in {told[s], summary}
           /\ \A t \in Observed \ {s} : told'[t] = told[t]
<1>1. PICK messages : messages = (IF IsNews(s, summary) THEN <<Changed(s)>> ELSE <<>>)
  OBVIOUS
<1>2. /\ messages \in Seq(Messages)
      /\ IsNews(s, summary) => 1 \in 1 .. Len(messages) /\ messages[1] = Changed(s)
  BY <1>1, MessageTypes, EmptySeq
<1>3. Send(messages) /\ told' = [told EXCEPT ![s] = IF connected THEN summary ELSE told[s]]
  BY <1>1 DEF Announce
<1>4. /\ FeedTypeOK /\ told \in [Observed -> Tellings] /\ summary \in Tellings
      /\ told[s] \in Tellings
  BY DEF FeedInv, FeedTypeOK, Tellings
<1>5. /\ stream' \in Seq(Messages) /\ connected' \in BOOLEAN
      /\ connected' = TRUE => connected = TRUE /\ stream' = stream \o messages
  BY <1>2, <1>3, <1>4, SendSteps
<1>6. connected' = TRUE => \A t \in Observed : Pending(t) => Pending(t)'
  BY <1>2, <1>4, <1>5, PendingGrows
<1>7. connected' = TRUE => told[s] = summary \/ Pending(s)'
  <2> SUFFICES ASSUME connected' = TRUE, told[s] # summary PROVE Pending(s)'
    OBVIOUS
  <2>1. IsNews(s, summary)
    BY <1>5 DEF IsNews
  <2>2. 1 \in 1 .. Len(messages) /\ About(messages[1], s)
    BY <1>2, <2>1 DEF About
  <2> QED BY <1>2, <1>4, <1>5, <2>2, PendingGrows
<1>8. /\ told' \in [Observed -> Tellings] /\ told'[s] \in {told[s], summary}
      /\ connected = TRUE => told'[s] = summary
      /\ \A t \in Observed \ {s} : told'[t] = told[t]
  BY <1>3, <1>4
<1> QED BY <1>5, <1>6, <1>7, <1>8

\* The timer tells what the session is now, unless that was told already.
LEMMA TimerSteps ==
    ASSUME FeedInv, NEW s \in Observed, SummaryTimer(s)
    PROVE  FeedInv'
<1>1. /\ s \in due /\ due' = due \ {s} /\ Announce(s, SummaryOf(s))
      /\ UNCHANGED <<session, coordinator, late, explains, listCache, view>>
  BY DEF SummaryTimer, readerVars
<1>2. FeedTypeOK /\ Followed(s) /\ SummaryOf(s) \in Summaries /\ SummaryOf(s).seq = session[s].seq
  BY SummaryTypes DEF FeedInv
<1>3. /\ stream' \in Seq(Messages) /\ connected' \in BOOLEAN /\ told' \in [Observed -> Tellings]
      /\ connected' = TRUE => connected = TRUE /\ \A t \in Observed : Pending(t) => Pending(t)'
      /\ connected' = TRUE => told'[s] = SummaryOf(s) /\ (told[s] = SummaryOf(s) \/ Pending(s)')
      /\ told'[s] \in {told[s], SummaryOf(s)}
      /\ \A t \in Observed \ {s} : told'[t] = told[t]
  BY <1>1, <1>2, AnnounceSteps
<1>4. FeedTypeOK'
  BY <1>1, <1>2, <1>3 DEF FeedTypeOK
<1>5. Known(s) /\ session[s].seq \in Nat /\ view[s].seq \in Nat /\ told[s].seq \in Nat
  BY <1>1, <1>2, FeedTypes DEF Followed, LoadedIsKnown
<1>6. ReadOrTold(s)'
  <2> SUFFICES ASSUME connected' = TRUE, ~Pending(s)'
               PROVE  view[s].seq = Served(s)' /\ told'[s].seq <= view[s].seq
    BY <1>1 DEF ReadOrTold
  <2>1. told'[s] = SummaryOf(s) /\ told[s] = SummaryOf(s) /\ connected = TRUE /\ ~Pending(s)
    BY <1>3
  <2>2. told[s].seq <= view[s].seq /\ view[s].seq <= session[s].seq
    BY <1>2, <1>5, <2>1 DEF Followed, ReadOrTold, NoneNewer
  <2> QED BY <1>1, <1>2, <1>5, <2>1, <2>2 DEF Served, Known
<1>7. LoadedIsKnown(s)' /\ NoneNewer(s)' /\ CacheIsBuilt(s)'
  BY <1>1, <1>2, <1>3, <1>5 DEF Followed, LoadedIsKnown, NoneNewer, CacheIsBuilt, Loaded, Known
<1>8. Elsewhere(s)
  BY <1>1, <1>3 DEF Elsewhere
<1> QED BY <1>3, <1>4, <1>6, <1>7, <1>8, OthersFollow DEF Followed

\* A closed coordinator announces what its session was.
LEMMA LateSteps ==
    ASSUME FeedInv, LateSummary
    PROVE  FeedInv'
<1>1. PICK l \in late : late' = late \ {l} /\ Announce(l.of, l.summary)
  BY DEF LateSummary
<1>2. UNCHANGED <<session, coordinator, due, explains, listCache, view>>
  BY DEF LateSummary, readerVars
<1>3. PICK s \in Observed : s = l.of
  BY DEF FeedInv, FeedTypeOK
<1>4. PICK summary \in Summaries : summary = l.summary
  BY DEF FeedInv, FeedTypeOK
<1>5. FeedTypeOK /\ Followed(s)
  BY DEF FeedInv
<1>6. /\ stream' \in Seq(Messages) /\ connected' \in BOOLEAN /\ told' \in [Observed -> Tellings]
      /\ connected' = TRUE => connected = TRUE /\ \A t \in Observed : Pending(t) => Pending(t)'
      /\ connected' = TRUE => told'[s] = summary /\ (told[s] = summary \/ Pending(s)')
      /\ told'[s] \in {told[s], summary}
      /\ \A t \in Observed \ {s} : told'[t] = told[t]
  BY <1>1, <1>3, <1>4, AnnounceSteps
<1>7. FeedTypeOK'
  BY <1>1, <1>2, <1>5, <1>6 DEF FeedTypeOK
<1>8. summary.seq <= session[s].seq
  BY <1>3, <1>4, <1>5 DEF Followed, NoneNewer
<1>9. ReadOrTold(s)'
  BY <1>2, <1>5, <1>6 DEF Followed, ReadOrTold, Known, Served
<1>10. LoadedIsKnown(s)' /\ NoneNewer(s)' /\ CacheIsBuilt(s)'
  BY <1>1, <1>2, <1>5, <1>6, <1>8
     DEF Followed, LoadedIsKnown, NoneNewer, CacheIsBuilt, Loaded, Known
<1>11. Elsewhere(s)
  BY <1>1, <1>2, <1>6 DEF Elsewhere
<1> QED BY <1>6, <1>7, <1>9, <1>10, <1>11, OthersFollow DEF Followed

\* The coordinator is closed, and a call it had may announce the session later.
LEMMA ClosingSteps ==
    ASSUME FeedInv, NEW s \in Observed, Closes(s)
    PROVE  /\ coordinator' \in [Observed -> LoadedOnes] /\ due' = due \ {s}
           /\ coordinator'[s].loaded = FALSE /\ coordinator'[s].call = "none"
           /\ \A t \in Observed \ {s} : coordinator'[t] = coordinator[t]
           /\ late' \in SUBSET [of : Observed, summary : Summaries]
           /\ \A l \in late' : l \in late \/ (l.of = s /\ l.summary.seq = session[s].seq)
<1>1. FeedTypeOK /\ SummaryOf(s) \in Summaries /\ SummaryOf(s).seq = session[s].seq
  BY SummaryTypes DEF FeedInv
<1>2. coordinator' = [coordinator EXCEPT ![s] = Unloaded] /\ due' = due \ {s}
  BY DEF Closes
<1>3. Unloaded \in LoadedOnes /\ Unloaded.loaded = FALSE /\ Unloaded.call = "none"
  BY LoadedTypes DEF Unloaded
<1>4. PICK l : l = [of |-> s, summary |-> SummaryOf(s)]
  OBVIOUS
<1>5. l \in [of : Observed, summary : Summaries] /\ l.of = s /\ l.summary = SummaryOf(s)
  BY <1>1, <1>4
<1>6. late' = late \/ late' = late \cup {l}
  BY <1>4 DEF Closes
<1> QED BY <1>1, <1>2, <1>3, <1>5, <1>6 DEF FeedTypeOK

\* An evicted session tells what it was, and the row says the same of its
\* evidence.
LEMMA EvictSteps ==
    ASSUME FeedInv, NEW s \in Observed, EvictSession(s)
    PROVE  FeedInv'
<1>1. /\ Loaded(s) /\ Closes(s) /\ Announce(s, SummaryOf(s))
      /\ UNCHANGED <<session, explains, listCache, view>>
  BY DEF EvictSession, readerVars
<1>2. FeedTypeOK /\ Followed(s) /\ SummaryOf(s) \in Summaries /\ SummaryOf(s).seq = session[s].seq
  BY SummaryTypes DEF FeedInv
<1>3. /\ stream' \in Seq(Messages) /\ connected' \in BOOLEAN /\ told' \in [Observed -> Tellings]
      /\ connected' = TRUE => connected = TRUE /\ \A t \in Observed : Pending(t) => Pending(t)'
      /\ connected' = TRUE => told'[s] = SummaryOf(s) /\ (told[s] = SummaryOf(s) \/ Pending(s)')
      /\ told'[s] \in {told[s], SummaryOf(s)}
      /\ \A t \in Observed \ {s} : told'[t] = told[t]
  BY <1>1, <1>2, AnnounceSteps
<1>4. /\ coordinator' \in [Observed -> LoadedOnes] /\ due' = due \ {s}
      /\ coordinator'[s].loaded = FALSE /\ coordinator'[s].call = "none"
      /\ \A t \in Observed \ {s} : coordinator'[t] = coordinator[t]
      /\ late' \in SUBSET [of : Observed, summary : Summaries]
      /\ \A l \in late' : l \in late \/ (l.of = s /\ l.summary.seq = session[s].seq)
  BY <1>1, ClosingSteps
<1>5. FeedTypeOK'
  BY <1>1, <1>2, <1>3, <1>4 DEF FeedTypeOK
<1>6. Known(s) /\ session[s].seq \in Nat /\ view[s].seq \in Nat /\ told[s].seq \in Nat
  BY <1>1, <1>2, FeedTypes DEF Followed, LoadedIsKnown
<1>7. ReadOrTold(s)'
  <2> SUFFICES ASSUME connected' = TRUE, ~Pending(s)'
               PROVE  view[s].seq = Served(s)' /\ told'[s].seq <= view[s].seq
    BY <1>1 DEF ReadOrTold
  <2>1. told'[s] = SummaryOf(s) /\ told[s] = SummaryOf(s) /\ connected = TRUE /\ ~Pending(s)
    BY <1>3
  <2>2. told[s].seq <= view[s].seq /\ view[s].seq <= session[s].seq
    BY <1>2, <1>6, <2>1 DEF Followed, ReadOrTold, NoneNewer
  <2> QED BY <1>1, <1>2, <1>6, <2>1, <2>2 DEF Served, Known
<1>8. LoadedIsKnown(s)' /\ CacheIsBuilt(s)'
  BY <1>1, <1>2, <1>4 DEF Followed, LoadedIsKnown, CacheIsBuilt, Loaded
<1>9. NoneNewer(s)'
  BY <1>1, <1>2, <1>3, <1>4, <1>6 DEF Followed, NoneNewer
<1>10. Elsewhere(s)
  BY <1>1, <1>3, <1>4 DEF Elsewhere
<1> QED BY <1>3, <1>5, <1>7, <1>8, <1>9, <1>10, OthersFollow DEF Followed

\* The removal of a session is told, whatever was told of it before.
LEMMA RemovalSteps ==
    ASSUME FeedInv, NEW s \in Observed, NEW summary,
           \/ AnnounceRemoval(s, summary)
           \/ Send(<<Removed(s)>>) /\ told' = [told EXCEPT ![s] = Nothing]
    PROVE  /\ stream' \in Seq(Messages) /\ connected' \in BOOLEAN /\ told' \in [Observed -> Tellings]
           /\ connected' = TRUE => /\ connected = TRUE /\ Pending(s)'
                                   /\ \A t \in Observed : Pending(t) => Pending(t)'
           /\ told'[s] = Nothing
           /\ \A t \in Observed \ {s} : told'[t] = told[t]
<1>1. Changed(s) \in Messages /\ Removed(s) \in Messages
  BY MessageTypes
<1>2. PICK messages \in Seq(Messages) :
        /\ Send(messages)
        /\ \E i \in 1 .. Len(messages) : messages[i] = Removed(s)
  <2>1. PICK one : one = <<Removed(s)>>
    OBVIOUS
  <2>2. one \in Seq(Messages) /\ Len(one) = 1 /\ one[1] = Removed(s)
    BY <1>1, <2>1
  <2>3. CASE Send(one)
    <3>1. 1 \in 1 .. Len(one)
      BY <2>2
    <3> QED BY <2>2, <2>3, <3>1
  <2>4. CASE AnnounceRemoval(s, summary)
    <3>1. PICK before : before = (IF IsNews(s, summary) THEN <<Changed(s)>> ELSE <<>>)
      OBVIOUS
    <3>2. before \in Seq(Messages) /\ Len(before) \in Nat
      BY <1>1, <3>1, EmptySeq, LenProperties
    <3>3. PICK all : all = before \o one
      OBVIOUS
    <3>4. /\ all \in Seq(Messages) /\ Len(all) = Len(before) + 1
          /\ \A i \in 1 .. Len(before) : all[i] = before[i]
          /\ all[Len(before) + 1] = Removed(s)
      BY <1>1, <2>1, <3>2, <3>3, OneMore
    <3>5. Len(before) + 1 \in 1 .. Len(all)
      BY <3>2, <3>4
    <3>6. Send(all)
      BY <2>1, <2>4, <3>1, <3>3 DEF AnnounceRemoval
    <3> QED BY <3>4, <3>5, <3>6
  <2> QED BY <2>1, <2>3, <2>4
<1>3. FeedTypeOK /\ told' = [told EXCEPT ![s] = Nothing]
  BY DEF AnnounceRemoval, FeedInv
<1>4. /\ stream' \in Seq(Messages) /\ connected' \in BOOLEAN
      /\ connected' = TRUE => connected = TRUE /\ stream' = stream \o messages
  BY <1>2, <1>3, SendSteps
<1>5. PICK i \in 1 .. Len(messages) : messages[i] = Removed(s)
  BY <1>2
<1>6. About(messages[i], s)
  BY <1>5 DEF About
<1>7. connected' = TRUE => Pending(s)' /\ \A t \in Observed : Pending(t) => Pending(t)'
  BY <1>3, <1>4, <1>6, PendingGrows
<1>8. /\ told' \in [Observed -> Tellings] /\ told'[s] = Nothing
      /\ \A t \in Observed \ {s} : told'[t] = told[t]
  BY <1>3, LoadedTypes DEF FeedTypeOK
<1> QED BY <1>4, <1>7, <1>8

\* A session is forgotten and its removal told.
LEMMA ForgettingSteps ==
    ASSUME FeedInv, NEW s \in Observed, ForgetSession(s)
    PROVE  FeedInv'
<1>1. /\ Known(s) /\ session' = [session EXCEPT ![s].forgotten = TRUE]
      /\ UNCHANGED <<explains, listCache, view>>
  BY DEF ForgetSession, readerVars
<1>2. FeedTypeOK /\ Followed(s)
  BY DEF FeedInv
<1>3. /\ stream' \in Seq(Messages) /\ connected' \in BOOLEAN /\ told' \in [Observed -> Tellings]
      /\ connected' = TRUE => /\ connected = TRUE /\ Pending(s)'
                              /\ \A t \in Observed : Pending(t) => Pending(t)'
      /\ told'[s] = Nothing
      /\ \A t \in Observed \ {s} : told'[t] = told[t]
  BY RemovalSteps DEF ForgetSession
<1>4. /\ coordinator' \in [Observed -> LoadedOnes] /\ due' \in {due, due \ {s}}
      /\ coordinator'[s].call # "none" \/ s \in due' => Loaded(s)'
      /\ ~coordinator'[s].loaded
      /\ \A t \in Observed \ {s} : coordinator'[t] = coordinator[t]
      /\ late' \in SUBSET [of : Observed, summary : Summaries]
      /\ \A l \in late' : l \in late \/ (l.of = s /\ l.summary.seq = session[s].seq)
  <2>1. CASE Loaded(s)
    <3>1. Closes(s)
      BY <2>1 DEF ForgetSession
    <3> QED BY <3>1, ClosingSteps
  <2>2. CASE ~Loaded(s)
    <3>1. UNCHANGED <<coordinator, due, late>>
      BY <2>2 DEF ForgetSession
    <3> QED BY <1>2, <2>2, <3>1 DEF FeedTypeOK, Followed, LoadedIsKnown, Loaded
  <2> QED BY <2>1, <2>2
<1>5. /\ session' \in [Observed -> Rows] /\ session'[s].seq = session[s].seq
      /\ session'[s].forgotten = TRUE
      /\ \A t \in Observed \ {s} : session'[t] = session[t]
  <2>1. session[s] \in Rows
    BY <1>2 DEF FeedTypeOK
  <2>2. PICK row : row = [session[s] EXCEPT !.forgotten = TRUE]
    OBVIOUS
  <2>3. row \in Rows /\ row.seq = session[s].seq /\ row.forgotten = TRUE
    BY <2>1, <2>2 DEF Rows
  <2>4. session' = [session EXCEPT ![s] = row]
    BY <1>1, <2>2
  <2> QED BY <1>2, <2>3, <2>4 DEF FeedTypeOK
<1>6. FeedTypeOK'
  BY <1>1, <1>2, <1>3, <1>4, <1>5 DEF FeedTypeOK
<1>7. session[s].seq \in Nat /\ view[s].seq \in Nat /\ Nothing.seq = 0
  BY <1>2, FeedTypes, LoadedTypes
<1>8. ReadOrTold(s)' /\ LoadedIsKnown(s)' /\ CacheIsBuilt(s)'
  BY <1>1, <1>2, <1>3, <1>4, <1>5
     DEF Followed, ReadOrTold, LoadedIsKnown, CacheIsBuilt, Loaded, Known
<1>9. NoneNewer(s)'
  BY <1>1, <1>2, <1>3, <1>4, <1>5, <1>7 DEF Followed, NoneNewer
<1>10. Elsewhere(s)
  BY <1>1, <1>3, <1>4, <1>5 DEF Elsewhere
<1> QED BY <1>3, <1>6, <1>8, <1>9, <1>10, OthersFollow DEF Followed

\* A connection begins with a message to read everything; without one nothing
\* is promised.
LEMMA ConnectionSteps ==
    ASSUME FeedInv, Connect \/ Disconnect
    PROVE  FeedInv'
<1>1. /\ UNCHANGED <<session, coordinator, due, late, explains, listCache, view>>
      /\ connected' \in BOOLEAN
      /\ \/ connected' = FALSE /\ stream' = <<>> /\ told' = told
         \/ stream' = << [type |-> "resync"] >> /\ told' = [s \in Observed |-> Nothing]
  BY DEF Connect, Disconnect, readerVars
<1>2. stream' \in Seq(Messages) /\ told' \in [Observed -> Tellings]
  <2>1. PICK m \in Messages : m = [type |-> "resync"]
    BY DEF Messages
  <2>2. <<m>> \in Seq(Messages) /\ <<>> \in Seq(Messages)
    BY EmptySeq
  <2>3. stream' \in {<<m>>, <<>>}
    BY <1>1, <2>1
  <2>4. told' = told \/ told' = [s \in Observed |-> Nothing]
    BY <1>1
  <2>5. told' \in [Observed -> Tellings]
    BY <2>4, LoadedTypes DEF FeedInv, FeedTypeOK
  <2> QED BY <2>2, <2>3, <2>5
<1>3. FeedTypeOK'
  BY <1>1, <1>2 DEF FeedInv, FeedTypeOK
<1>4. \A s \in Observed : connected' = TRUE => Pending(s)'
  <2> SUFFICES ASSUME NEW s \in Observed, connected' = TRUE PROVE Pending(s)'
    OBVIOUS
  <2>1. stream' = << [type |-> "resync"] >>
    BY <1>1
  <2>2. 1 \in 1 .. Len(stream') /\ stream'[1].type = "resync"
    BY <2>1
  <2> QED BY <2>2 DEF Pending, About
<1>5. ASSUME NEW s \in Observed
      PROVE  Followed(s)'
  <2>1. Followed(s) /\ told'[s].seq <= session[s].seq
    BY <1>1, LoadedTypes, FeedTypes DEF FeedInv, Followed, NoneNewer
  <2> QED BY <1>1, <1>4, <2>1
          DEF Followed, ReadOrTold, LoadedIsKnown, NoneNewer, CacheIsBuilt, Loaded, Known
<1> QED BY <1>3, <1>5 DEF FeedInv
-----------------------------------------------------------------------------
\* Who is told to be removed is gone.
Gone(t) == (\E i \in 1 .. Len(stream) : stream[i] = Removed(t)) => session[t].forgotten = TRUE

\* A message in the stream was there before or has been sent.
LEMMA SentOrThere ==
    ASSUME FeedTypeOK, NEW messages \in Seq(Messages), Send(messages),
           NEW i \in 1 .. Len(stream')
    PROVE  \/ \E j \in 1 .. Len(stream) : stream[j] = stream'[i]
           \/ \E j \in 1 .. Len(messages) : messages[j] = stream'[i]
<1>1. stream \in Seq(Messages) /\ Len(stream) \in Nat /\ Len(messages) \in Nat
  BY LenProperties DEF FeedTypeOK
<1>2. CASE stream' = stream
  BY <1>2
<1>3. CASE stream' = <<>>
  BY <1>3, EmptySeq
<1>4. CASE stream' = stream \o messages
  <2>1. /\ Len(stream') = Len(stream) + Len(messages)
        /\ stream'[i] = (IF i <= Len(stream) THEN stream[i] ELSE messages[i - Len(stream)])
    BY <1>1, <1>4, ConcatProperties
  <2>2. CASE i <= Len(stream)
    <3>1. i \in 1 .. Len(stream)
      BY <1>1, <2>1, <2>2
    <3> QED BY <2>1, <2>2, <3>1
  <2>3. CASE ~(i <= Len(stream))
    <3>1. i - Len(stream) \in 1 .. Len(messages)
      BY <1>1, <2>1, <2>3
    <3> QED BY <2>1, <2>3, <3>1
  <2> QED BY <2>2, <2>3
<1> QED BY <1>2, <1>3, <1>4 DEF Send

\* An announcement is no removal.
LEMMA AnnouncedAreNoRemovals ==
    ASSUME FeedTypeOK, NEW s \in Observed, NEW summary, Announce(s, summary), NEW t \in Observed,
           \E i \in 1 .. Len(stream') : stream'[i] = Removed(t)
    PROVE  \E i \in 1 .. Len(stream) : stream[i] = Removed(t)
<1>1. PICK messages : messages = (IF IsNews(s, summary) THEN <<Changed(s)>> ELSE <<>>)
  OBVIOUS
<1>2. Changed(s).type = "changed" /\ Removed(t).type = "removed" /\ Changed(s) \in Messages
  BY MessageTypes DEF Changed, Removed
<1>3. /\ messages \in Seq(Messages) /\ Send(messages)
      /\ \A j \in 1 .. Len(messages) : messages[j] = Changed(s)
  <2>1. Send(messages)
    BY <1>1 DEF Announce
  <2>2. CASE IsNews(s, summary)
    <3>1. messages = <<Changed(s)>>
      BY <1>1, <2>2
    <3>2. Len(messages) = 1 /\ messages[1] = Changed(s) /\ messages \in Seq(Messages)
      BY <1>2, <3>1
    <3> QED BY <2>1, <3>2
  <2>3. CASE ~IsNews(s, summary)
    <3>1. messages = <<>>
      BY <1>1, <2>3
    <3> QED BY <2>1, <3>1, EmptySeq
  <2> QED BY <2>2, <2>3
<1>4. PICK i \in 1 .. Len(stream') : stream'[i] = Removed(t)
  OBVIOUS
<1> QED BY <1>2, <1>3, <1>4, SentOrThere

\* Only the session that is forgotten is told to be removed.
LEMMA RemovedAreForgotten ==
    ASSUME FeedTypeOK, NEW s \in Observed, NEW summary, NEW t \in Observed,
           \/ AnnounceRemoval(s, summary)
           \/ Send(<<Removed(s)>>) /\ told' = [told EXCEPT ![s] = Nothing],
           \E i \in 1 .. Len(stream') : stream'[i] = Removed(t), t # s
    PROVE  \E i \in 1 .. Len(stream) : stream[i] = Removed(t)
<1>1. /\ Changed(s) # Removed(t) /\ Removed(s) # Removed(t)
      /\ Changed(s) \in Messages /\ Removed(s) \in Messages
  <2>1. Changed(s).type = "changed" /\ Removed(t).type = "removed"
        /\ Removed(s).of = s /\ Removed(t).of = t
    BY DEF Changed, Removed
  <2> QED BY <2>1, MessageTypes
<1>2. PICK messages \in Seq(Messages) :
        Send(messages) /\ \A j \in 1 .. Len(messages) : messages[j] \in {Changed(s), Removed(s)}
  <2>1. PICK one : one = <<Removed(s)>>
    OBVIOUS
  <2>2. one \in Seq(Messages) /\ Len(one) = 1 /\ one[1] = Removed(s)
    BY <1>1, <2>1
  <2>3. CASE Send(one)
    <3>1. \A j \in 1 .. Len(one) : one[j] \in {Changed(s), Removed(s)}
      BY <2>2
    <3> QED BY <2>2, <2>3, <3>1
  <2>4. CASE AnnounceRemoval(s, summary)
    <3>1. PICK before : before = (IF IsNews(s, summary) THEN <<Changed(s)>> ELSE <<>>)
      OBVIOUS
    <3>2. /\ before \in Seq(Messages) /\ Len(before) \in Nat
          /\ \A j \in 1 .. Len(before) : before[j] = Changed(s)
      <4>1. CASE before = <<Changed(s)>>
        <5>1. Len(before) = 1 /\ before[1] = Changed(s) /\ before \in Seq(Messages)
          BY <1>1, <4>1
        <5> QED BY <5>1
      <4>2. CASE before = <<>>
        BY <4>2, EmptySeq
      <4> QED BY <3>1, <4>1, <4>2
    <3>3. PICK all : all = before \o one
      OBVIOUS
    <3>4. /\ all \in Seq(Messages) /\ Len(all) = Len(before) + 1
          /\ \A i \in 1 .. Len(before) : all[i] = before[i]
          /\ all[Len(before) + 1] = Removed(s)
      BY <1>1, <2>1, <3>2, <3>3, OneMore
    <3>5. ASSUME NEW j \in 1 .. Len(all)
          PROVE  all[j] \in {Changed(s), Removed(s)}
      <4>1. CASE j <= Len(before)
        <5>1. j \in 1 .. Len(before)
          BY <3>2, <3>4, <4>1
        <5> QED BY <3>2, <3>4, <4>1, <5>1
      <4>2. CASE ~(j <= Len(before))
        <5>1. j = Len(before) + 1
          BY <3>2, <3>4, <4>2
        <5> QED BY <3>4, <5>1
      <4> QED BY <4>1, <4>2
    <3>6. Send(all)
      BY <2>1, <2>4, <3>1, <3>3 DEF AnnounceRemoval
    <3> QED BY <3>4, <3>5, <3>6
  <2> QED BY <2>1, <2>3, <2>4
<1>3. PICK i \in 1 .. Len(stream') : stream'[i] = Removed(t)
  OBVIOUS
<1> QED BY <1>1, <1>2, <1>3, SentOrThere

\* A message is read, and the rest is pending.
LEMMA TailIsPending ==
    ASSUME FeedTypeOK, stream # <<>>, stream' = Tail(stream)
    PROVE  /\ stream' \in Seq(Messages) /\ Head(stream) \in Messages
           /\ \A t \in Observed : Pending(t) => Pending(t)' \/ About(Head(stream), t)
           /\ \A m : (\E i \in 1 .. Len(stream') : stream'[i] = m)
                     => \E i \in 1 .. Len(stream) : stream[i] = m
           /\ \E i \in 1 .. Len(stream) : stream[i] = Head(stream)
<1>1. stream \in Seq(Messages) /\ Len(stream) \in Nat /\ Len(stream) > 0
  BY LenProperties, EmptySeq DEF FeedTypeOK
<1>2. /\ stream' \in Seq(Messages) /\ Len(stream') = Len(stream) - 1
      /\ \A i \in 1 .. Len(stream) - 1 : stream'[i] = stream[i + 1]
      /\ Head(stream) = stream[1] /\ Head(stream) \in Messages
  BY <1>1, HeadTailProperties, ElementOfSeq
<1>3. 1 \in 1 .. Len(stream)
  BY <1>1
<1>4. ASSUME NEW t \in Observed, NEW i \in 1 .. Len(stream), About(stream[i], t)
      PROVE  Pending(t)' \/ About(Head(stream), t)
  <2>1. CASE i = 1
    BY <1>2, <1>4, <2>1
  <2>2. CASE i # 1
    <3>1. i - 1 \in 1 .. Len(stream') /\ i - 1 + 1 = i
      BY <1>1, <1>2, <2>2
    <3>2. stream'[i - 1] = stream[i]
      BY <1>2, <3>1
    <3> QED BY <1>4, <3>1, <3>2 DEF Pending, About, Changed, Removed
  <2> QED BY <2>1, <2>2
<1>5. ASSUME NEW m, NEW i \in 1 .. Len(stream'), stream'[i] = m
      PROVE  \E j \in 1 .. Len(stream) : stream[j] = m
  <2>1. i + 1 \in 1 .. Len(stream) /\ stream'[i] = stream[i + 1]
    BY <1>1, <1>2
  <2> QED BY <1>5, <2>1
<1> QED BY <1>2, <1>3, <1>4, <1>5 DEF Pending
\* A message is handled by reading what is served, and a removal only concerns
\* who is gone.
LEMMA ReadingSteps ==
    ASSUME FeedInv, ReadMessage, \A t \in Observed : Gone(t)
    PROVE  FeedInv' /\ \A t \in Observed : Gone(t)'
<1>1. /\ stream # <<>> /\ stream' = Tail(stream) /\ FeedTypeOK
      /\ UNCHANGED <<session, coordinator, due, late, explains, told, connected>>
  BY DEF ReadMessage, FeedInv
<1>2. /\ stream' \in Seq(Messages) /\ Head(stream) \in Messages
      /\ \A t \in Observed : Pending(t) => Pending(t)' \/ About(Head(stream), t)
      /\ \A m : (\E i \in 1 .. Len(stream') : stream'[i] = m)
                => \E i \in 1 .. Len(stream) : stream[i] = m
      /\ \E i \in 1 .. Len(stream) : stream[i] = Head(stream)
  BY <1>1, TailIsPending
<1>3. ASSUME NEW t \in Observed
      PROVE  Gone(t)'
  <2>1. Gone(t)
    OBVIOUS
  <2>2. (\E i \in 1 .. Len(stream') : stream'[i] = Removed(t))
        => \E i \in 1 .. Len(stream) : stream[i] = Removed(t)
    BY <1>2
  <2> QED BY <1>1, <2>1, <2>2 DEF Gone, Removed
<1>4. ASSUME NEW s \in Observed
      PROVE  /\ SummaryOf(s) \in Tellings /\ SummaryOf(s).seq = session[s].seq
             /\ ListEntry(s).of = SummaryOf(s) /\ ListEntry(s).entry = SummaryOf(s)
             /\ ListEntry(s) \in [of : Tellings, entry : Tellings]
  <2>1. SummaryOf(s) \in Tellings /\ SummaryOf(s).seq = session[s].seq
    BY <1>1, SummaryTypes, LoadedTypes
  <2>2. listCache[s] \in [of : Tellings, entry : Tellings] /\ CacheIsBuilt(s)
    BY DEF FeedInv, FeedTypeOK, Followed
  <2> QED BY <2>1, <2>2 DEF ListEntry, EntryIsGood, CacheIsBuilt
<1>5. Nothing \in Tellings /\ Nothing.seq = 0 /\ NoEntry \in [of : Tellings, entry : Tellings]
      /\ NoEntry.of = NoEntry.entry /\ NoEntry.entry.seq = 0
  BY LoadedTypes DEF NoEntry
\* What a session's entry and view become.
<1>6. /\ listCache' \in [Observed -> [of : Tellings, entry : Tellings]]
      /\ view' \in [Observed -> Tellings]
      /\ \A s \in Observed :
           /\ listCache'[s].entry = listCache'[s].of
           /\ view'[s].seq = Served(s) \/ (view'[s] = view[s] /\ ~About(Head(stream), s))
  <2>1. CASE Head(stream).type = "resync"
    <3>1. /\ listCache' = [s \in Observed |-> IF Known(s) THEN ListEntry(s) ELSE NoEntry]
          /\ view' = [s \in Observed |-> listCache'[s].entry]
      BY <2>1 DEF ReadMessage, ReadList
    <3>2. ASSUME NEW s \in Observed
          PROVE  /\ listCache'[s] \in [of : Tellings, entry : Tellings]
                 /\ listCache'[s].entry = listCache'[s].of
                 /\ listCache'[s].entry.seq = Served(s)
      BY <1>4, <1>5, <3>1 DEF Served
    <3>3. ASSUME NEW s \in Observed
          PROVE  view'[s] \in Tellings /\ view'[s].seq = Served(s)
      BY <3>1, <3>2
    <3>4. listCache' \in [Observed -> [of : Tellings, entry : Tellings]]
      BY <3>1, <3>2
    <3>5. view' \in [Observed -> Tellings]
      BY <3>1, <3>3
    <3> QED BY <3>2, <3>3, <3>4, <3>5
  <2>2. CASE Head(stream).type # "resync"
    <3>1. Head(stream) \in [type : {"changed", "removed"}, of : Observed]
      BY <1>2, <2>2 DEF Messages
    <3>2. PICK s \in Observed : s = Head(stream).of
      BY <3>1
    <3>3. listCache' = listCache
      BY <2>2 DEF ReadMessage
    <3>4. \A t \in Observed \ {s} : ~About(Head(stream), t)
      BY <2>2, <3>2 DEF About, Changed, Removed
    <3>5. PICK held \in Tellings : view' = [view EXCEPT ![s] = held] /\ held.seq = Served(s)
      <4>1. CASE Head(stream).type = "changed"
        <5>1. view' = [view EXCEPT ![s] = IF Known(s) THEN SummaryOf(s) ELSE Nothing]
          BY <3>2, <4>1 DEF ReadMessage
        <5> QED BY <1>4, <1>5, <5>1 DEF Served
      <4>2. CASE Head(stream).type = "removed"
        <5>1. view' = [view EXCEPT ![s] = Nothing]
          BY <3>2, <4>2 DEF ReadMessage
        <5>2. Head(stream) = Removed(s)
          BY <3>1, <3>2, <4>2 DEF Removed
        <5>3. session[s].forgotten = TRUE
          BY <1>2, <5>2 DEF Gone
        <5> QED BY <1>5, <5>1, <5>3 DEF Served, Known
      <4> QED BY <3>1, <4>1, <4>2
    <3>6. view \in [Observed -> Tellings] /\ listCache \in [Observed -> [of : Tellings, entry : Tellings]]
      BY <1>1 DEF FeedTypeOK
    <3>7. \A t \in Observed : listCache[t].entry = listCache[t].of
      BY DEF FeedInv, Followed, CacheIsBuilt
    <3> QED BY <3>3, <3>4, <3>5, <3>6, <3>7
  <2> QED BY <2>1, <2>2
<1>7. FeedTypeOK'
  BY <1>1, <1>2, <1>6 DEF FeedTypeOK
<1>8. ASSUME NEW s \in Observed
      PROVE  Followed(s)'
  <2>1. Followed(s) /\ session[s].seq \in Nat /\ told[s].seq \in Nat /\ view[s].seq \in Nat
    BY <1>1, FeedTypes DEF FeedInv
  <2>2. Served(s)' = Served(s) /\ Known(s)' = Known(s)
    BY <1>1 DEF Served, Known
  <2>3. view'[s].seq = Served(s) \/ (view'[s] = view[s] /\ ~About(Head(stream), s))
    BY <1>6
  <2>4. Served(s) <= session[s].seq /\ (Known(s) => Served(s) = session[s].seq)
    BY <2>1 DEF Served
  <2>5. LoadedIsKnown(s)' /\ CacheIsBuilt(s)'
    BY <1>1, <1>6, <2>1, <2>2 DEF Followed, LoadedIsKnown, CacheIsBuilt, Loaded
  <2>6. NoneNewer(s)'
    BY <1>1, <2>1, <2>3, <2>4 DEF Followed, NoneNewer
  <2>7. ReadOrTold(s)'
    <3> SUFFICES ASSUME connected' = TRUE, ~Pending(s)'
                 PROVE  /\ s \in due' \/ view'[s].seq = Served(s)'
                        /\ Known(s)' => told'[s].seq <= view'[s].seq
      BY DEF ReadOrTold
    <3>1. CASE view'[s].seq = Served(s)
      BY <1>1, <2>1, <2>2, <2>4, <3>1 DEF Followed, NoneNewer
    <3>2. CASE view'[s] = view[s] /\ ~About(Head(stream), s)
      <4>1. ~Pending(s)
        BY <1>2, <3>2
      <4> QED BY <1>1, <2>1, <2>2, <3>2, <4>1 DEF Followed, ReadOrTold
    <3> QED BY <2>3, <3>1, <3>2
  <2> QED BY <2>5, <2>6, <2>7 DEF Followed
<1> QED BY <1>3, <1>7, <1>8 DEF FeedInv
\* The inductive invariant.
FeedInvariantHolds == FeedInv /\ \A t \in Observed : Gone(t)

\* No step other than a reading tells the removal of a session that is there,
\* and none brings a session back.
LEMMA RemovalsAreOfForgotten ==
    ASSUME FeedInv, \A t \in Observed : Gone(t), FeedNext, ~ReadMessage
    PROVE  \A t \in Observed : Gone(t)'
<1>1. FeedTypeOK
  BY DEF FeedInv
<1> SUFFICES ASSUME NEW t \in Observed, NEW i \in 1 .. Len(stream'), stream'[i] = Removed(t)
             PROVE  session'[t].forgotten = TRUE
  BY DEF Gone, Removed
<1>2. \E j \in 1 .. Len(stream') : stream'[j] = Removed(t)
  OBVIOUS
<1>3. Gone(t)
  OBVIOUS
<1>4. session'[t].forgotten = session[t].forgotten \/ session'[t].forgotten = TRUE
  <2>1. session[t] \in Rows /\ session \in [Observed -> Rows]
    BY <1>1 DEF FeedTypeOK
  <2>2. CASE \E s \in Observed : Ingest(s)
    <3>1. PICK s \in Observed : Ingest(s)
      BY <2>2
    <3>2. PICK label : label = (IF Loaded(s) THEN coordinator[s] ELSE Fresh).status
      OBVIOUS
    <3>3. session' = [session EXCEPT ![s].seq = @ + 1, ![s].row = label]
      BY <3>1, <3>2 DEF Ingest
    <3>4. session'[s].forgotten = session[s].forgotten
      <4>1. PICK n : n = session[s].seq + 1
        OBVIOUS
      <4>2. session' = [session EXCEPT ![s] = [session[s] EXCEPT !.seq = n, !.row = label]]
        BY <3>3, <4>1
      <4> QED BY <1>1, <4>2 DEF FeedTypeOK, Rows
    <3>5. t # s => session'[t] = session[t]
      BY <2>1, <3>3
    <3> QED BY <3>4, <3>5
  <2>3. CASE \E s \in Observed : CallAnswers(s)
    <3>1. PICK s \in Observed : CallAnswers(s)
      BY <2>3
    <3>2. \/ session' = [session EXCEPT ![s].seq = @ + 1, ![s].covers = session[s].seq + 1,
                                        ![s].row = "generated"]
          \/ session' = [session EXCEPT ![s].row = "failed"]
      BY <3>1 DEF CallAnswers
    <3>3. session'[s].forgotten = session[s].forgotten
      <4>1. PICK n : n = session[s].seq + 1
        OBVIOUS
      <4>2. \/ session' = [session EXCEPT ![s] =
                 [session[s] EXCEPT !.seq = n, !.covers = n, !.row = "generated"]]
            \/ session' = [session EXCEPT ![s] = [session[s] EXCEPT !.row = "failed"]]
        BY <3>2, <4>1
      <4> QED BY <1>1, <4>2 DEF FeedTypeOK, Rows
    <3>4. t # s => session'[t] = session[t]
      BY <2>1, <3>2
    <3> QED BY <3>3, <3>4
  <2>4. CASE \E s \in Observed : ForgetSession(s)
    <3>1. PICK s \in Observed : session' = [session EXCEPT ![s].forgotten = TRUE]
      BY <2>4 DEF ForgetSession
    <3>2. session[s] \in Rows
      BY <1>1 DEF FeedTypeOK
    <3>3. session'[s].forgotten = TRUE
      <4>1. session' = [session EXCEPT ![s] = [session[s] EXCEPT !.forgotten = TRUE]]
        BY <3>1
      <4> QED BY <1>1, <3>2, <4>1 DEF FeedTypeOK, Rows
    <3>4. t # s => session'[t] = session[t]
      BY <2>1, <3>1
    <3> QED BY <3>3, <3>4
  <2>5. CASE ~(\E s \in Observed : Ingest(s) \/ CallAnswers(s) \/ ForgetSession(s))
    <3>1. session' = session
      BY <2>5 DEF FeedNext, Open, StartCall, CallAborted, SummaryTimer, EvictSession, SetExplains,
                  LateSummary, Connect, Disconnect, ReadMessage
    <3> QED BY <3>1
  <2> QED BY <2>2, <2>3, <2>4, <2>5
<1>5. CASE UNCHANGED stream
  BY <1>2, <1>3, <1>4, <1>5 DEF Gone, Removed
<1>6. CASE \E s \in Observed : \E summary : Announce(s, summary)
  <2>1. \E j \in 1 .. Len(stream) : stream[j] = Removed(t)
    BY <1>1, <1>2, <1>6, AnnouncedAreNoRemovals
  <2> QED BY <1>3, <1>4, <2>1 DEF Gone
<1>7. CASE \E s \in Observed : ForgetSession(s)
  <2>1. PICK s \in Observed : ForgetSession(s)
    BY <1>7
  <2>2. CASE t = s
    <3>1. session[s] \in Rows /\ session' = [session EXCEPT ![s] = [session[s] EXCEPT !.forgotten = TRUE]]
      BY <1>1, <2>1 DEF ForgetSession, FeedTypeOK
    <3> QED BY <1>1, <2>2, <3>1 DEF FeedTypeOK, Rows
  <2>3. CASE t # s
    <3>1. \/ AnnounceRemoval(s, SummaryOf(s))
          \/ Send(<<Removed(s)>>) /\ told' = [told EXCEPT ![s] = Nothing]
      BY <2>1 DEF ForgetSession
    <3>2. \E j \in 1 .. Len(stream) : stream[j] = Removed(t)
      BY <1>1, <1>2, <2>3, <3>1, RemovedAreForgotten
    <3> QED BY <1>3, <1>4, <3>2 DEF Gone
  <2> QED BY <2>2, <2>3
<1>8. CASE Connect \/ Disconnect
  <2>1. stream' = <<>> \/ stream' = << [type |-> "resync"] >>
    BY <1>8 DEF Connect, Disconnect
  <2>2. stream' # <<>>
    BY EmptySeq
  <2>3. i = 1 /\ stream'[1].type = "resync"
    BY <2>1, <2>2
  <2>4. stream'[1].type = "removed"
    BY <2>3 DEF Removed
  <2> QED BY <2>3, <2>4
<1>9. CASE LateSummary
  <2>1. \E l \in late : Announce(l.of, l.summary)
    BY <1>9 DEF LateSummary
  <2>2. \E s \in Observed : \E summary : Announce(s, summary)
    BY <1>1, <2>1 DEF FeedTypeOK
  <2> QED BY <1>6, <2>2
<1>10. ASSUME NEW s \in Observed, SummaryTimer(s) \/ EvictSession(s)
       PROVE  session'[t].forgotten = TRUE
  <2>1. Announce(s, SummaryOf(s))
    BY <1>10 DEF SummaryTimer, EvictSession
  <2> QED BY <1>6, <2>1
<1>11. ASSUME \/ SetExplains
              \/ \E s \in Observed : Ingest(s) \/ Open(s) \/ StartCall(s) \/ CallAnswers(s)
                                     \/ CallAborted(s)
       PROVE  UNCHANGED stream
  BY <1>11 DEF SetExplains, Ingest, Open, StartCall, CallAnswers, CallAborted, FeedUnmoved
<1> QED BY <1>5, <1>7, <1>8, <1>9, <1>10, <1>11 DEF FeedNext

\* Every step keeps the invariant.
LEMMA FeedStep == FeedInvariantHolds /\ [FeedNext]_feedVars => FeedInvariantHolds'
<1> SUFFICES ASSUME FeedInv, \A t \in Observed : Gone(t), [FeedNext]_feedVars
             PROVE  FeedInv' /\ \A t \in Observed : Gone(t)'
  BY DEF FeedInvariantHolds
<1>1. CASE ReadMessage
  BY <1>1, ReadingSteps
<1>2. CASE FeedNext /\ ~ReadMessage
  <2>1. \A t \in Observed : Gone(t)'
    BY <1>2, RemovalsAreOfForgotten
  <2>2. FeedInv'
    BY <1>2, CallSteps, SettingSteps, TimerSteps, LateSteps, EvictSteps, ForgettingSteps,
       ConnectionSteps DEF FeedNext
  <2> QED BY <2>1, <2>2
<1>3. CASE UNCHANGED feedVars
  <2> USE <1>3 DEF feedVars
  <2>1. FeedTypeOK'
    BY DEF FeedInv, FeedTypeOK
  <2>2. \A t \in Observed : Pending(t)' = Pending(t)
    BY DEF Pending, About, Changed, Removed
  <2>3. ASSUME NEW s \in Observed
        PROVE  Followed(s)'
    BY <2>2 DEF FeedInv, Followed, ReadOrTold, LoadedIsKnown, NoneNewer, CacheIsBuilt, Served,
                Known, Loaded
  <2>4. \A t \in Observed : Gone(t)'
    BY DEF Gone, Removed
  <2> QED BY <2>1, <2>3, <2>4 DEF FeedInv
<1> QED BY <1>1, <1>2, <1>3

\* It holds at the start.
LEMMA FeedStart == FeedInit => FeedInvariantHolds
<1> SUFFICES ASSUME FeedInit PROVE FeedInv /\ \A t \in Observed : Gone(t)
  BY DEF FeedInvariantHolds
<1>1. /\ Nothing \in Tellings /\ Nothing.seq = 0 /\ NoEntry \in [of : Tellings, entry : Tellings]
      /\ NoEntry.of = NoEntry.entry /\ Unloaded \in LoadedOnes /\ Unloaded.loaded = FALSE
      /\ Unloaded.call = "none"
  BY LoadedTypes DEF Unloaded
<1>2. FeedTypeOK
  <2>1. PICK row : row = [seq |-> 0, covers |-> MaxEvidence + 1, row |-> "none", forgotten |-> FALSE]
    OBVIOUS
  <2>2. row \in Rows
    BY <2>1, FeedAssumption DEF Rows, Labels
  <2>3. session = [s \in Observed |-> row]
    BY <2>1 DEF FeedInit
  <2>4. session \in [Observed -> Rows]
    BY <2>2, <2>3
  <2> QED BY <1>1, <2>4, EmptySeq DEF FeedInit, FeedTypeOK
<1>3. ASSUME NEW s \in Observed
      PROVE  Followed(s)
  <2>1. session[s].seq = 0 /\ coordinator[s] = Unloaded /\ listCache[s] = NoEntry
        /\ told[s] = Nothing /\ view[s] = Nothing /\ connected = FALSE /\ due = {} /\ late = {}
    BY <1>3 DEF FeedInit
  <2> QED BY <1>1, <2>1
          DEF Followed, ReadOrTold, LoadedIsKnown, NoneNewer, CacheIsBuilt, Loaded, Known
<1>4. \A t \in Observed : Gone(t)
  BY EmptySeq DEF FeedInit, Gone
<1> QED BY <1>2, <1>3, <1>4 DEF FeedInv

\* Of every session a connected consumer has read the latest evidence, or the
\* message that makes it read is pending, or the timer that sends it is armed
\* (sessionCoordinator.ts, httpServer.ts, feed.ts).
THEOREM FeedInvariant == FeedSpec => []FeedInvariantHolds
BY FeedStart, FeedStep, PTL DEF FeedSpec

\* A consumer that has read everything it was sent holds the sessions there
\* are, each with its latest evidence, and a list served now is what each
\* session would say, for any number of sessions, events and connections
\* (consumer contract).
THEOREM ConsumersConverge == FeedSpec => []ConsumerConverges
<1>1. FeedInvariantHolds => ConsumerConverges
  <2> SUFFICES ASSUME FeedInv PROVE ConsumerConverges
    BY DEF FeedInvariantHolds
  <2>1. ASSUME connected, stream = <<>>, NEW s \in Observed \ due
        PROVE  view[s].seq = IF Known(s) THEN session[s].seq ELSE 0
    <3>1. ~Pending(s) /\ connected = TRUE
      BY <2>1, EmptySeq DEF Pending, FeedInv, FeedTypeOK
    <3> QED BY <2>1, <3>1 DEF FeedInv, Followed, ReadOrTold, Served
  <2>2. ASSUME NEW s \in Observed
        PROVE  ListEntry(s).entry = SummaryOf(s)
    BY DEF FeedInv, Followed, CacheIsBuilt, ListEntry, EntryIsGood
  <2> QED BY <2>1, <2>2 DEF ConsumerConverges
<1> QED BY <1>1, FeedInvariant, PTL
=============================================================================
