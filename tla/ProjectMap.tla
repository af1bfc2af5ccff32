------------------------------ MODULE ProjectMap ------------------------------
(* Maps of one repository, built from its committed objects while a person's *)
(* commands allow it, revoke it and allow it again.  Requests wait in one    *)
(* queue, a build reads over many turns of the event loop, and what it read  *)
(* is kept in memory and on disk.                                            *)
EXTENDS Naturals, Sequences, FiniteSets

CONSTANTS
    GitDirs,       \* git directories the repository's root may resolve to
    Commits,       \* commits that are asked for
    MaxGrants,     \* bound: how often the repository is allowed
    MaxQueued,     \* 4 in the code
    MaxMoves       \* bound: changes of what the root resolves to, or of its commits

None == [at |-> 0, dir |-> "none"]

ASSUME MapAssumption ==
    /\ IsFiniteSet(GitDirs) /\ IsFiniteSet(Commits)
    /\ "none" \notin GitDirs
    /\ MaxGrants \in Nat /\ MaxQueued \in Nat \ {0} /\ MaxMoves \in Nat

VARIABLES
    grant,         \* the opt-in file: when it was allowed, and for which directory
    grants,        \* how often it was allowed
    forgetting,    \* the grant whose cached maps a revocation has still to delete
    resolves,      \* the git directory the root resolves to
    objects,       \* objects[d]: the commits in the object store of d
    moves,         \* changes of the two so far
    queue,         \* requests waiting, the first one running
    memory,        \* maps kept in memory: grant, commit, and where it was read
    disk,          \* maps kept on disk
    checkedCommits,  \* commit checks remembered: grant, commit, whether it exists
    said           \* what the last step answered

mapVars == <<grant, grants, forgetting, resolves, objects, moves, queue, memory,
             disk, checkedCommits, said>>

NoAnswer == [kind |-> "nothing", at |-> 0, dir |-> "none"]

Task(kind, c) == [kind |-> kind, grant |-> grant, commit |-> c, phase |-> "waiting",
                  dir |-> "none"]

Entry(at, c, d) == [at |-> at, commit |-> c, dir |-> d]

Found(maps, c) == {m \in maps : m.at = grant.at /\ m.commit = c}

-----------------------------------------------------------------------------
\* The person's commands, in processes of their own, one at a time.

\* Allowed again, unless for the same directory: that changes nothing.
Allow ==
    /\ forgetting = 0 /\ grants < MaxGrants
    /\ grant.dir # resolves
    /\ grant' = [at |-> grants + 1, dir |-> resolves]
    /\ grants' = grants + 1
    /\ said' = NoAnswer
    /\ UNCHANGED <<forgetting, resolves, objects, moves, queue, memory, disk, checkedCommits>>

Revoke ==
    /\ grant # None
    /\ grant' = None
    /\ forgetting' = grant.at
    /\ said' = NoAnswer
    /\ UNCHANGED <<grants, resolves, objects, moves, queue, memory, disk, checkedCommits>>

DeleteCached ==
    /\ forgetting # 0
    /\ disk' = {m \in disk : m.at # forgetting}
    /\ forgetting' = 0
    /\ said' = NoAnswer
    /\ UNCHANGED <<grant, grants, resolves, objects, moves, queue, memory, checkedCommits>>

\* The root is made to resolve elsewhere, or a commit is fetched or collected.
RepositoryChanges ==
    /\ moves < MaxMoves
    /\ moves' = moves + 1
    /\ \/ \E d \in GitDirs \ {resolves} : resolves' = d /\ UNCHANGED objects
       \/ \E d \in GitDirs, c \in Commits :
            /\ objects' = [objects EXCEPT ![d] = IF c \in @ THEN @ \ {c} ELSE @ \cup {c}]
            /\ UNCHANGED resolves
    /\ said' = NoAnswer
    /\ UNCHANGED <<grant, grants, forgetting, queue, memory, disk, checkedCommits>>

-----------------------------------------------------------------------------
\* Requests.

\* The same map is being read or built under the same grant already.
InFlight(c) == \E i \in DOMAIN queue : /\ queue[i].kind = "map" /\ queue[i].commit = c
                                       /\ queue[i].grant.at = grant.at

\* Served from memory, shared with a build under way, refused, or queued.
GetMap(c) ==
    /\ grant # None
    /\ \/ \E m \in Found(memory, c) :
            said' = [kind |-> "map", at |-> grant.at, dir |-> m.dir] /\ UNCHANGED queue
       \/ /\ Found(memory, c) = {} /\ ~InFlight(c) /\ Len(queue) < MaxQueued
          /\ queue' = Append(queue, Task("map", c))
          /\ said' = NoAnswer
    /\ UNCHANGED <<grant, grants, forgetting, resolves, objects, moves, memory, disk,
                   checkedCommits>>

\* A commit found stays found under its grant; a missing one is believed for
\* half a minute.
CommitExists(c) ==
    /\ grant # None
    /\ LET remembered == {k \in checkedCommits : k.at = grant.at /\ k.commit = c} IN
       \/ /\ remembered # {}
          /\ said' = [kind |-> "commit", at |-> grant.at, dir |-> grant.dir]
          /\ UNCHANGED queue
       \/ /\ \A k \in remembered : ~k.exists
          /\ Len(queue) < MaxQueued
          /\ queue' = Append(queue, Task("commit", c))
          /\ said' = NoAnswer
    /\ UNCHANGED <<grant, grants, forgetting, resolves, objects, moves, memory, disk,
                   checkedCommits>>

-----------------------------------------------------------------------------
\* The head of the queue, one turn of the event loop at a time.

Running == Head(queue)

\* Mutant: any grant that is in force will do.
GrantHoldsMutant(task) == grant # None

GrantHolds(task) == grant.at = task.grant.at

Done == queue' = Tail(queue)
MoveOn(phase, d) == queue' = <<[Running EXCEPT !.phase = phase, !.dir = d]>> \o Tail(queue)

Remember(exists) ==
    checkedCommits' = {k \in checkedCommits : k.at # Running.grant.at \/ k.commit # Running.commit}
             \cup {[at |-> Running.grant.at, commit |-> Running.commit, exists |-> exists]}

\* Maps of other grants go when one is remembered, or written to disk.
UnderGrant(maps) == {m \in maps : m.at = grant.at}

ServeMap(entry) ==
    /\ memory' = UnderGrant(memory \cup {entry})
    /\ said' = [kind |-> "map", at |-> entry.at, dir |-> entry.dir]

\* Its turn has come: checked again, then from disk, or to be read.
TakeTurn ==
    /\ queue # <<>> /\ Running.phase = "waiting"
    /\ LET cached == {m \in disk : m.at = Running.grant.at /\ m.commit = Running.commit} IN
       \/ /\ ~GrantHolds(Running)
          /\ Done /\ said' = NoAnswer /\ UNCHANGED memory
       \/ /\ GrantHolds(Running) /\ Running.kind = "map" /\ cached # {}
          /\ \E m \in cached : ServeMap(m)
          /\ Done
       \/ /\ GrantHolds(Running) /\ (Running.kind = "commit" \/ cached = {})
          /\ MoveOn("locating", "none") /\ said' = NoAnswer /\ UNCHANGED memory
    /\ UNCHANGED <<grant, grants, forgetting, resolves, objects, moves, disk, checkedCommits>>

IsGranted(d) == d = Running.grant.dir

\* Only the directory the grant was given for is opened.
Locate ==
    /\ queue # <<>> /\ Running.phase = "locating"
    /\ IF IsGranted(resolves) THEN MoveOn("reading", resolves) ELSE Done
    /\ said' = NoAnswer
    /\ UNCHANGED <<grant, grants, forgetting, resolves, objects, moves, memory, disk,
                   checkedCommits>>

HasCommit == Running.commit \in objects[Running.dir]

\* A build ends: refused when its grant went, else kept and served.
FinishMap ==
    /\ queue # <<>> /\ Running.phase = "reading" /\ Running.kind = "map"
    /\ \/ /\ ~GrantHolds(Running)
          /\ said' = NoAnswer /\ UNCHANGED <<memory, disk, checkedCommits>>
       \/ /\ ~HasCommit
          /\ Remember(FALSE)
          /\ said' = NoAnswer /\ UNCHANGED <<memory, disk>>
       \/ /\ GrantHolds(Running) /\ HasCommit
          /\ LET entry == Entry(Running.grant.at, Running.commit, Running.dir) IN
             /\ disk' = UnderGrant(disk \cup {entry})
             /\ ServeMap(entry)
          /\ UNCHANGED checkedCommits
       \/ \* over a bound, timed out, or not representable
          said' = NoAnswer /\ UNCHANGED <<memory, disk, checkedCommits>>
    /\ Done
    /\ UNCHANGED <<grant, grants, forgetting, resolves, objects, moves>>

FinishCheck ==
    /\ queue # <<>> /\ Running.phase = "reading" /\ Running.kind = "commit"
    /\ \/ /\ Remember(HasCommit)
          /\ said' = [kind |-> "commit", at |-> Running.grant.at, dir |-> Running.dir]
       \/ said' = NoAnswer /\ UNCHANGED checkedCommits
    /\ Done
    /\ UNCHANGED <<grant, grants, forgetting, resolves, objects, moves, memory, disk>>

-----------------------------------------------------------------------------
MapInit ==
    /\ grant = None /\ grants = 0 /\ forgetting = 0
    /\ resolves \in GitDirs
    /\ objects = [d \in GitDirs |-> Commits] /\ moves = 0
    /\ queue = <<>> /\ memory = {} /\ disk = {} /\ checkedCommits = {}
    /\ said = NoAnswer

MapNext ==
    \/ Allow \/ Revoke \/ DeleteCached \/ RepositoryChanges
    \/ TakeTurn \/ Locate \/ FinishMap \/ FinishCheck
    \/ \E c \in Commits : GetMap(c) \/ CommitExists(c)

MapSpec == MapInit /\ [][MapNext]_mapVars

-----------------------------------------------------------------------------
\* A map that is served was read under the grant in force as it is served, and
\* from the directory that grant names: neither a build that outlived its
\* grant nor a map kept from before is ever served under a later one
\* (cache.ts 13-19, optIn.ts 35-39).
ServedUnderGrant ==
    said.kind = "map" => grant = [at |-> said.at, dir |-> said.dir]
=============================================================================
