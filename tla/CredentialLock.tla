--------------------------- MODULE CredentialLock ---------------------------
(***************************************************************************)
(* The lock that serializes changes of consumer-credentials.json between   *)
(* processes, and the two commands that run under it.                      *)
(*                                                                         *)
(* Each action is one system call, so any number of processes interleave   *)
(* between any two of them, stall for as long as they like, or die.  A     *)
(* command takes the lock with one ticket and then exits, so a process     *)
(* stands for its ticket and for the owner and claim files linked to it.   *)
(***************************************************************************)
EXTENDS Naturals, FiniteSets, Sequences

CONSTANTS
    Processes,       \* the commands, one process each
    Creators,        \* those that create a credential; the others revoke one
    Target,          \* Target[p]: the credential p revokes
    MaxCredentials,  \* 32 in the code
    Inodes,          \* inode numbers; a freed one may be used again
    NoOne            \* no process, no directory

Holders == Processes \cup {NoOne}

ASSUME CredentialLockAssumption ==
    /\ IsFiniteSet(Processes)
    /\ NoOne \notin Processes
    /\ NoOne \notin Inodes
    /\ Creators \subseteq Processes
    /\ Target \in [Processes \ Creators -> Processes]
    /\ MaxCredentials \in Nat

VARIABLES
    at,           \* at[p]: the system call p makes next
    lock,         \* the directory at the lock's path
    seen,         \* seen[p]: the lock p last judged abandoned
    credentials,  \* consumer-credentials.json
    copy,         \* copy[p]: the list p has read
    answer        \* answer[p]: what the command reported

vars == <<at, lock, seen, credentials, copy, answer>>

-----------------------------------------------------------------------------
(* The lock directory: an owner, and claims named after the holder before  *)

\* claims[h] is the process that linked the file reclaimed-<h>.
NoLock == [ino |-> NoOne, owner |-> NoOne, claims |-> [h \in Holders |-> NoOne]]

Exists == lock.ino # NoOne

\* The holder before the i-th claim of a chain.
Before(owner, chain, i) == IF i = 1 THEN owner ELSE chain[i - 1]

\* The holder a chain of claims leads to.
HolderOf(owner, chain) == Before(owner, chain, Len(chain) + 1)

Linked(claims, owner, chain) ==
    \A i \in 1 .. Len(chain) : chain[i] = claims[Before(owner, chain, i)]

\* Mutant: only the owner is read, as earlier releases did.
ChainsMutant(dir) == {<<>>}

\* readLockState follows the claims from the owner to the last one.  Its
\* two lstat calls make the reading one snapshot.
Chains(dir) ==
    LET claimers == {dir.claims[h] : h \in Holders} \ {NoOne} IN
    {chain \in UNION {[1 .. n -> claimers] : n \in 0 .. Cardinality(claimers)} :
        /\ Linked(dir.claims, dir.owner, chain)
        /\ dir.claims[HolderOf(dir.owner, chain)] = NoOne}

Dead(p) == at[p] = "dead"
Gone == {q \in Processes : Dead(q)}

\* Mutant: any holder is given up after a grace period.
MayBeAbandonedMutant(h) == h \in Holders

\* A holder with a pid is gone when its process is; a lock that no one has
\* named is taken for abandoned after a grace period, however early that is.
MayBeAbandoned(h) == h \in Gone \cup {NoOne}

MayBeHeld(h) == h \notin Gone

\* A reading is given up when the lock changes under it five times over.
MayBeUnread(p) == \E q \in Processes \ {p} : at[q] \notin {"done", "dead"}

Goto(p, call) == at' = [at EXCEPT ![p] = call]

-----------------------------------------------------------------------------
(* Taking a free lock                                                      *)

MakeDirectory(p) ==
    /\ at[p] = "mkdir"
    /\ IF Exists
       THEN Goto(p, "look") /\ UNCHANGED lock
       ELSE /\ Goto(p, "name")
            /\ \E i \in Inodes : lock' = [NoLock EXCEPT !.ino = i]
    /\ UNCHANGED <<seen, credentials, copy, answer>>

\* Link the ticket as the owner, in whatever directory is at the path.
NameOwner(p) ==
    /\ at[p] = "name"
    /\ IF Exists /\ lock.owner = NoOne
       THEN Goto(p, "check") /\ lock' = [lock EXCEPT !.owner = p]
       ELSE Goto(p, "look") /\ UNCHANGED lock
    /\ UNCHANGED <<seen, credentials, copy, answer>>

\* Give way to a reclaimer that judged the lock ownerless.
CheckClaim(p) ==
    /\ at[p] = "check"
    /\ Goto(p, IF lock.claims[NoOne] = NoOne THEN "read" ELSE "look")
    /\ UNCHANGED <<lock, seen, credentials, copy, answer>>

-----------------------------------------------------------------------------
(* Taking over an abandoned lock                                           *)

LookAgain(p) ==
    /\ at[p] = "look"
    /\ \/ ~Exists
       \/ MayBeUnread(p)
       \/ \E chain \in Chains(lock) : MayBeHeld(HolderOf(lock.owner, chain))
    /\ Goto(p, "mkdir")
    /\ UNCHANGED <<lock, seen, credentials, copy, answer>>

Judge(p) ==
    /\ at[p] = "look"
    /\ Exists
    /\ \E chain \in Chains(lock) :
         /\ MayBeAbandoned(HolderOf(lock.owner, chain))
         /\ seen' = [seen EXCEPT ![p] = [ino |-> lock.ino, owner |-> lock.owner,
                                         chain |-> chain]]
    /\ Goto(p, "claim")
    /\ UNCHANGED <<lock, credentials, copy, answer>>

Judged(p) == HolderOf(seen[p].owner, seen[p].chain)

\* Link the ticket as the claim on the judged holder, in whatever directory
\* is at the path; a name that exists refuses.
Claim(p) ==
    /\ at[p] = "claim"
    /\ IF Exists /\ lock.claims[Judged(p)] = NoOne
       THEN Goto(p, "confirm") /\ lock' = [lock EXCEPT !.claims[Judged(p)] = p]
       ELSE Goto(p, "mkdir") /\ UNCHANGED lock
    /\ UNCHANGED <<seen, credentials, copy, answer>>

\* The lock that p judged, and p's claim the only one added.
SameHolders(p) ==
    /\ Exists
    /\ lock.ino = seen[p].ino
    /\ lock.owner = seen[p].owner
    /\ Append(seen[p].chain, p) \in Chains(lock)

Confirm(p) ==
    /\ at[p] = "confirm"
    /\ \/ SameHolders(p) /\ Goto(p, "own")
       \/ (~SameHolders(p) \/ MayBeUnread(p)) /\ Goto(p, "mkdir")
    /\ UNCHANGED <<lock, seen, credentials, copy, answer>>

\* Mutant: an absent owner is overwritten, not linked.
OwnMutant(p) ==
    /\ at[p] = "own"
    /\ IF Exists
       THEN Goto(p, "read") /\ lock' = [lock EXCEPT !.owner = p]
       ELSE Goto(p, "mkdir") /\ UNCHANGED lock
    /\ UNCHANGED <<seen, credentials, copy, answer>>

\* A dead owner is replaced by a rename; an absent one is linked.
Own(p) ==
    /\ at[p] = "own"
    /\ IF Exists /\ (seen[p].owner # NoOne \/ lock.owner = NoOne)
       THEN Goto(p, "read") /\ lock' = [lock EXCEPT !.owner = p]
       ELSE Goto(p, "mkdir") /\ UNCHANGED lock
    /\ UNCHANGED <<seen, credentials, copy, answer>>

-----------------------------------------------------------------------------
(* Under the lock: createConsumerCredential, revokeConsumerCredential      *)

Report(p, word) == answer' = [answer EXCEPT ![p] = word]

ReadFile(p) ==
    /\ at[p] = "read"
    /\ copy' = [copy EXCEPT ![p] = credentials]
    /\ CASE p \in Creators /\ Cardinality(credentials) >= MaxCredentials ->
              Goto(p, "release") /\ Report(p, "full")
         [] p \notin Creators /\ Target[p] \notin credentials ->
              Goto(p, "release") /\ Report(p, "absent")
         [] OTHER -> Goto(p, "write") /\ UNCHANGED answer
    /\ UNCHANGED <<lock, seen, credentials>>

\* The list that was read, changed, replaces the file, unless the
\* reading or the writing fails.
WriteFile(p) ==
    /\ at[p] = "write"
    /\ Goto(p, "release")
    /\ \/ /\ p \in Creators
          /\ credentials' = copy[p] \cup {p}
          /\ Report(p, "created")
       \/ /\ p \notin Creators
          /\ credentials' = copy[p] \ {Target[p]}
          /\ Report(p, "revoked")
       \/ UNCHANGED <<credentials, answer>>
    /\ UNCHANGED <<lock, seen, copy>>

-----------------------------------------------------------------------------
(* Release, failure, death                                                 *)

\* A lock that is no longer its own is left alone; one that cannot be read
\* is left too, as SetAside also leaves it.
Release(p) ==
    /\ at[p] = "release"
    /\ Goto(p, IF Exists /\ \E chain \in Chains(lock) : HolderOf(lock.owner, chain) = p
               THEN "aside" ELSE "done")
    /\ UNCHANGED <<lock, seen, credentials, copy, answer>>

\* The lock is renamed aside; a lock that cannot be renamed stays.
SetAside(p) ==
    /\ at[p] = "aside"
    /\ Goto(p, "done")
    /\ lock' \in {NoLock, lock}
    /\ UNCHANGED <<seen, credentials, copy, answer>>

\* Out of attempts, or a system call failed for another reason, the sweep of
\* leftovers after the lock is taken included.
GiveUp(p) ==
    /\ at[p] \in {"mkdir", "name", "check", "look", "claim", "confirm", "own", "read"}
    /\ Goto(p, "done")
    /\ UNCHANGED <<lock, seen, credentials, copy, answer>>

Die(p) ==
    /\ ~Dead(p)
    /\ Goto(p, "dead")
    /\ UNCHANGED <<lock, seen, credentials, copy, answer>>

-----------------------------------------------------------------------------
Init ==
    /\ at = [p \in Processes |-> "mkdir"]
    /\ lock = NoLock
    /\ seen = [p \in Processes |-> [ino |-> NoOne, owner |-> NoOne, chain |-> <<>>]]
    /\ credentials = {}
    /\ copy = [p \in Processes |-> {}]
    /\ answer = [p \in Processes |-> "none"]

Take(p) ==
    \/ MakeDirectory(p)
    \/ NameOwner(p)
    \/ CheckClaim(p)
    \/ LookAgain(p)
    \/ Judge(p)
    \/ Claim(p)
    \/ Confirm(p)
    \/ Own(p)

Work(p) ==
    \/ ReadFile(p)
    \/ WriteFile(p)
    \/ Release(p)
    \/ SetAside(p)

Next == \E p \in Processes : Take(p) \/ Work(p) \/ GiveUp(p) \/ Die(p)

Spec == Init /\ [][Next]_vars

\* A process that is neither stopped nor killed makes its next call.
FairSpec == Spec /\ \A p \in Processes : WF_vars(Take(p)) /\ WF_vars(Work(p))

-----------------------------------------------------------------------------
(* Properties                                                              *)

Calls == {"mkdir", "name", "check", "look", "claim", "confirm", "own", "read",
          "write", "release", "aside", "done", "dead"}
Answers == {"none", "created", "full", "revoked", "absent"}

\* Every variable has its type: the lock names processes only, and what was
\* judged is a directory, an owner and a sequence of claims.
LockTypeOK ==
    /\ at \in [Processes -> Calls]
    /\ lock \in [ino : Inodes \cup {NoOne}, owner : Holders,
                 claims : [Holders -> Holders]]
    /\ seen \in [Processes -> [ino : Inodes \cup {NoOne}, owner : Holders,
                               chain : Seq(Processes)]]
    /\ credentials \in SUBSET Processes
    /\ copy \in [Processes -> SUBSET Processes]
    /\ answer \in [Processes -> Answers]

Holding(p) == at[p] \in {"read", "write", "release", "aside"}

\* Two processes never hold the lock at once, whatever dies or stalls
\* between two system calls (acquireCredentialLock).
MutualExclusion ==
    \A p, q \in Processes : Holding(p) /\ Holding(q) => p = q

\* A revoked credential never comes back: no command writes a list it read
\* before the revocation (createConsumerCredential).
RevokedStaysRevoked ==
    \A p \in Processes : answer[p] = "revoked" => Target[p] \notin credentials

File == INSTANCE CredentialFile

\* The commands change the file as if each ran alone: the cap on credentials
\* holds, and no change is lost.
ActsAtomically == File!Spec

\* The lock is free, or its last holder is dead and known.
Recoverable ==
    Exists => \E chain \in Chains(lock) :
                HolderOf(lock.owner, chain) \in Gone

\* No crash leaves a lock that cannot be recovered: a process that comes
\* when the others are dead gets the lock (the chain of claims in tryTake).
Recovers ==
    \A p \in Processes :
        (/\ at[p] = "mkdir" /\ Recoverable
         /\ \A q \in Processes \ {p} : Dead(q))
          ~> (Holding(p) \/ at[p] \in {"done", "dead"})
=============================================================================
