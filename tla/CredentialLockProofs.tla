------------------------ MODULE CredentialLockProofs ------------------------
(***************************************************************************)
(* The theorems about CredentialLock, for any number of processes, inode   *)
(* numbers and credentials.                                                *)
(***************************************************************************)
EXTENDS CredentialLock, FiniteSetTheorems, WellFoundedInduction, TLAPS

-----------------------------------------------------------------------------
(* The inductive invariant                                                 *)

\* Between naming itself the owner and setting the lock aside.
Inside(p) == at[p] \in {"check", "read", "write", "release", "aside"}

\* The lock is there and names whoever is inside: no one replaces a live owner.
InsideIsOwner ==
    \A p \in Processes : Inside(p) => Exists /\ lock.owner = p

\* Only the claim named after no one may be on a holder that lives.
OnlyTheDeadAreClaimed ==
    \A h \in Processes : lock.claims[h] # NoOne => Dead(h)

\* A reclaimer judged dead the holder it claims, and the owner it replaces.
OnlyTheDeadAreJudged ==
    \A p \in Processes : at[p] \in {"claim", "confirm", "own"} =>
        /\ Judged(p) \in Gone \cup {NoOne}
        /\ seen[p].owner \in Gone \cup {NoOne}

\* p is about to replace a dead owner.
Replacing(p) == at[p] = "own" /\ seen[p].owner # NoOne

\* The lock is still the one that p judged: its owner, and the chain of
\* claims that leads to p.
ReplacingIsPinned ==
    \A p \in Processes : Replacing(p) =>
        /\ Exists
        /\ lock.owner = seen[p].owner
        /\ Linked(lock.claims, lock.owner, Append(seen[p].chain, p))

\* Whoever is about to write has read the file as it is, and may write.
CopyIsFresh ==
    \A p \in Processes : at[p] = "write" =>
        /\ copy[p] = credentials
        /\ IF p \in Creators THEN Cardinality(credentials) < MaxCredentials
                             ELSE Target[p] \in credentials

\* Nothing is reported before the work is done.
NothingReported ==
    \A p \in Processes :
        at[p] \notin {"release", "aside", "done", "dead"} => answer[p] = "none"

LockInv ==
    /\ LockTypeOK
    /\ InsideIsOwner
    /\ OnlyTheDeadAreClaimed
    /\ OnlyTheDeadAreJudged
    /\ ReplacingIsPinned
    /\ CopyIsFresh
    /\ NothingReported

-----------------------------------------------------------------------------
(* What the actions have in common                                         *)

Step(p) == Take(p) \/ Work(p) \/ GiveUp(p) \/ Die(p)

\* A chain of claims names processes, each of them linked in the lock.
LEMMA ChainsAreClaims ==
    ASSUME LockTypeOK, NEW chain \in Chains(lock)
    PROVE  /\ chain \in Seq(Processes)
           /\ Linked(lock.claims, lock.owner, chain)
           /\ \A i \in 1 .. Len(chain) :
                /\ chain[i] \in Processes
                /\ lock.claims[Before(lock.owner, chain, i)] # NoOne
<1> DEFINE claimers == {lock.claims[h] : h \in Holders} \ {NoOne}
<1>1. claimers \subseteq Processes
  BY DEF LockTypeOK, Holders
<1>2. Cardinality(claimers) \in Nat
  BY <1>1, FS_Subset, FS_CardinalityType, CredentialLockAssumption
<1>3. PICK n \in 0 .. Cardinality(claimers) : chain \in [1 .. n -> claimers]
  BY DEF Chains
<1>4. Linked(lock.claims, lock.owner, chain)
  BY DEF Chains
<1> HIDE DEF claimers
<1>5. chain \in Seq(Processes)
  BY <1>1, <1>2, <1>3
<1>6. Len(chain) = n
  BY <1>2, <1>3, <1>5
<1>7. \A i \in 1 .. Len(chain) : chain[i] \in claimers
  BY <1>3, <1>6
<1>8. \A i \in 1 .. Len(chain) :
        lock.claims[Before(lock.owner, chain, i)] = chain[i]
  BY <1>4 DEF Linked
<1>9. NoOne \notin claimers
  BY DEF claimers
<1> QED
  BY <1>1, <1>4, <1>5, <1>7, <1>8, <1>9

\* A step is a live process's own: it moves no other, and judges for no other.
LEMMA StepFrame ==
    ASSUME LockTypeOK, NEW p \in Processes, Step(p)
    PROVE  /\ ~Dead(p)
           /\ at' = [at EXCEPT ![p] = at'[p]]
           /\ seen' = [seen EXCEPT ![p] = seen'[p]]
<1> USE DEF LockTypeOK, Goto
<1>1. CASE Take(p)
  <2>1. CASE MakeDirectory(p) \/ NameOwner(p) \/ CheckClaim(p)
    BY <2>1 DEF MakeDirectory, NameOwner, CheckClaim, Dead
  <2>2. CASE LookAgain(p) \/ Judge(p) \/ Claim(p)
    BY <2>2 DEF LookAgain, Judge, Claim, Dead
  <2>3. CASE Confirm(p) \/ Own(p)
    BY <2>3 DEF Confirm, Own, Dead
  <2> QED
    BY <1>1, <2>1, <2>2, <2>3 DEF Take
<1>2. CASE Work(p)
  <2>1. CASE ReadFile(p)
    BY <2>1 DEF ReadFile, Dead
  <2>2. CASE WriteFile(p) \/ Release(p) \/ SetAside(p)
    BY <2>2 DEF WriteFile, Release, SetAside, Dead
  <2> QED
    BY <1>2, <2>1, <2>2 DEF Work
<1>3. CASE GiveUp(p) \/ Die(p)
  BY <1>3 DEF GiveUp, Die, Dead
<1> QED
  BY <1>1, <1>2, <1>3 DEF Step

\* The dead stay dead.
LEMMA DeadStayDead ==
    ASSUME LockTypeOK, NEW p \in Processes, Step(p)
    PROVE  Gone \subseteq Gone'
BY StepFrame DEF LockTypeOK, Gone, Dead

-----------------------------------------------------------------------------
(* Type correctness                                                        *)

\* Every step leaves every variable in its type.
LEMMA TypeStep ==
    ASSUME LockTypeOK, [Next]_vars
    PROVE  LockTypeOK'
<1> USE CredentialLockAssumption DEF LockTypeOK, Goto, Calls, Answers, Report
<1>1. CASE UNCHANGED vars
  BY <1>1 DEF vars
<1>2. ASSUME NEW p \in Processes, Take(p)
      PROVE  LockTypeOK'
  <2>1. CASE MakeDirectory(p)
    <3>1. CASE Exists
      BY <2>1, <3>1 DEF MakeDirectory
    <3>2. CASE ~Exists
      <4>1. PICK i \in Inodes : lock' = [NoLock EXCEPT !.ino = i]
        BY <2>1, <3>2 DEF MakeDirectory
      <4>2. lock' = [ino |-> i, owner |-> NoOne, claims |-> [h \in Holders |-> NoOne]]
        BY <4>1 DEF NoLock
      <4> QED
        BY <2>1, <3>2, <4>2 DEF MakeDirectory, Holders
    <3> QED
      BY <3>1, <3>2
  <2>2. CASE NameOwner(p)
    BY <2>2 DEF NameOwner, Exists, Holders
  <2>3. CASE CheckClaim(p)
    BY <2>3 DEF CheckClaim
  <2>4. CASE LookAgain(p)
    BY <2>4 DEF LookAgain
  <2>5. CASE Judge(p)
    <3>1. PICK chain \in Chains(lock) :
            seen' = [seen EXCEPT ![p] = [ino |-> lock.ino, owner |-> lock.owner,
                                         chain |-> chain]]
      BY <2>5 DEF Judge
    <3>2. chain \in Seq(Processes)
      BY ChainsAreClaims
    <3> QED
      BY <2>5, <3>1, <3>2 DEF Judge
  <2>6. CASE Claim(p)
    <3>1. CASE Exists /\ lock.claims[Judged(p)] = NoOne
      <4>1. lock' = [lock EXCEPT !.claims = [@ EXCEPT ![Judged(p)] = p]]
        BY <2>6, <3>1 DEF Claim
      <4>2. [lock.claims EXCEPT ![Judged(p)] = p] \in [Holders -> Holders]
        BY DEF Holders
      <4>3. lock' = [ino |-> lock.ino, owner |-> lock.owner,
                     claims |-> [lock.claims EXCEPT ![Judged(p)] = p]]
        BY <4>1
      <4>4. lock' \in [ino : Inodes \cup {NoOne}, owner : Holders,
                       claims : [Holders -> Holders]]
        BY <4>2, <4>3
      <4>5. at' = [at EXCEPT ![p] = "confirm"] /\ UNCHANGED <<seen, credentials, copy, answer>>
        BY <2>6, <3>1 DEF Claim
      <4> QED
        BY <4>4, <4>5
    <3>2. CASE ~(Exists /\ lock.claims[Judged(p)] = NoOne)
      BY <2>6, <3>2 DEF Claim
    <3> QED
      BY <3>1, <3>2
  <2>7. CASE Confirm(p)
    BY <2>7 DEF Confirm
  <2>8. CASE Own(p)
    BY <2>8 DEF Own, Exists, Holders
  <2> QED
    BY <1>2, <2>1, <2>2, <2>3, <2>4, <2>5, <2>6, <2>7, <2>8 DEF Take
<1>3. ASSUME NEW p \in Processes, Work(p)
      PROVE  LockTypeOK'
  <2>1. CASE ReadFile(p)
    BY <2>1 DEF ReadFile
  <2>2. CASE WriteFile(p)
    BY <2>2 DEF WriteFile
  <2>3. CASE Release(p)
    BY <2>3 DEF Release
  <2>4. CASE SetAside(p)
    BY <2>4 DEF SetAside, NoLock, Holders
  <2> QED
    BY <1>3, <2>1, <2>2, <2>3, <2>4 DEF Work
<1>4. ASSUME NEW p \in Processes, GiveUp(p) \/ Die(p)
      PROVE  LockTypeOK'
  BY <1>4 DEF GiveUp, Die
<1> QED
  BY <1>1, <1>2, <1>3, <1>4 DEF Next

LEMMA TypeInit == Init => LockTypeOK
BY DEF Init, LockTypeOK, Calls, Answers, NoLock, Holders

\* Every variable keeps its type.
THEOREM LockTypeCorrect == Spec => []LockTypeOK
BY TypeInit, TypeStep, PTL DEF Spec

-----------------------------------------------------------------------------
(* Claims lead to one process                                              *)

\* A set of numbers that is not empty has a least.
LEMMA LeastOf ==
    ASSUME NEW S \in SUBSET Nat, S # {}
    PROVE  \E j \in S : \A k \in S : ~(k < j)
<1> DEFINE R == {ss \in Nat \X Nat : ss[1] < ss[2]}
<1>1. IsWellFoundedOn(R, Nat)
  BY NatLessThanWellFounded DEF OpToRel
<1>2. \E j \in S : \A k \in S : ~(<<k, j>> \in R)
  BY <1>1, WFMin
<1> QED
  BY <1>2

\* Two chains of claims on the same owner agree as far as both go.
LEMMA ChainsAgree ==
    ASSUME NEW claims, NEW owner,
           NEW a \in Seq(Processes), Linked(claims, owner, a),
           NEW b \in Seq(Processes), Linked(claims, owner, b),
           NEW i \in 1 .. Len(a), i <= Len(b)
    PROVE  a[i] = b[i]
<1> DEFINE differ == {j \in Nat : j \in 1 .. Len(a) /\ j <= Len(b) /\ a[j] # b[j]}
<1>1. SUFFICES ASSUME differ # {}
               PROVE  FALSE
  BY <1>1
<1>2. PICK j \in differ : \A k \in differ : ~(k < j)
  BY <1>1, LeastOf
<1>4. a[j] = claims[Before(owner, a, j)] /\ b[j] = claims[Before(owner, b, j)]
  BY DEF Linked
<1>5. CASE j = 1
  BY <1>4, <1>5 DEF Before
<1>6. CASE j # 1
  <2>1. j - 1 \in Nat /\ j - 1 \in 1 .. Len(a) /\ j - 1 <= Len(b) /\ j - 1 < j
    BY <1>6
  <2>2. j - 1 \notin differ
    BY <1>2, <2>1
  <2>3. a[j - 1] = b[j - 1]
    BY <2>1, <2>2
  <2>4. Before(owner, a, j) = a[j - 1] /\ Before(owner, b, j) = b[j - 1]
    BY <1>6 DEF Before
  <2> QED
    BY <1>4, <2>3, <2>4
<1> QED
  BY <1>5, <1>6

\* The chain that leads to p, when p is about to replace a dead owner.
ChainTo(p) == Append(seen[p].chain, p)

LEMMA ChainToTyping ==
    ASSUME LockTypeOK, NEW p \in Processes
    PROVE  /\ ChainTo(p) \in Seq(Processes)
           /\ Len(ChainTo(p)) \in Nat \ {0}
           /\ ChainTo(p)[Len(ChainTo(p))] = p
BY DEF LockTypeOK, ChainTo

\* Of two processes about to replace the owner, the one with the shorter
\* chain is the other: had it been claimed, it would be dead.
LEMMA OneReplaces ==
    ASSUME LockInv, NEW p \in Processes, NEW q \in Processes,
           Replacing(p), Replacing(q), Len(ChainTo(p)) <= Len(ChainTo(q))
    PROVE  p = q
<1> DEFINE a == ChainTo(p)
           b == ChainTo(q)
           n == Len(a)
<1>1. /\ Linked(lock.claims, lock.owner, a)
      /\ Linked(lock.claims, lock.owner, b)
  BY DEF LockInv, ReplacingIsPinned, ChainTo
<1>2. /\ a \in Seq(Processes) /\ b \in Seq(Processes)
      /\ n \in Nat \ {0} /\ a[n] = p
      /\ Len(b) \in Nat \ {0} /\ b[Len(b)] = q
  BY ChainToTyping DEF LockInv
<1> HIDE DEF a, b
<1>3. n <= Len(b)
  BY DEF a, b
<1>4. b[n] = p
  BY <1>1, <1>2, <1>3, ChainsAgree
<1>5. CASE n = Len(b)
  BY <1>2, <1>4, <1>5
<1>6. CASE n < Len(b)
  <2>1. n + 1 \in 1 .. Len(b)
    BY <1>2, <1>6
  <2>2. b[n + 1] = lock.claims[Before(lock.owner, b, n + 1)]
    BY <1>1, <2>1 DEF Linked
  <2>3. Before(lock.owner, b, n + 1) = p
    BY <1>2, <1>4 DEF Before
  <2>4. b[n + 1] \in Processes
    BY <1>2, <2>1
  <2>5. lock.claims[p] # NoOne
    BY <2>2, <2>3, <2>4, CredentialLockAssumption
  <2>6. Dead(p)
    BY <2>5 DEF LockInv, OnlyTheDeadAreClaimed
  <2> QED
    BY <2>6 DEF Replacing, Dead
<1> QED
  BY <1>2, <1>3, <1>5, <1>6

\* At most one process is inside or about to replace the owner.
LEMMA OneHolds ==
    ASSUME LockInv, NEW p \in Processes, NEW q \in Processes,
           Inside(p) \/ Replacing(p), Inside(q) \/ Replacing(q)
    PROVE  p = q
<1>1. CASE Inside(p) /\ Inside(q)
  BY <1>1 DEF LockInv, InsideIsOwner
<1>2. ASSUME NEW r \in Processes, NEW s \in Processes, Inside(r), Replacing(s)
      PROVE  FALSE
  <2>1. lock.owner = r /\ lock.owner = seen[s].owner
    BY <1>2 DEF LockInv, InsideIsOwner, ReplacingIsPinned
  <2>2. seen[s].owner \in Gone
    BY <1>2 DEF LockInv, OnlyTheDeadAreJudged, Replacing
  <2> QED
    BY <1>2, <2>1, <2>2 DEF Gone, Dead, Inside
<1>3. CASE Replacing(p) /\ Replacing(q)
  <2>1. Len(ChainTo(p)) \in Nat /\ Len(ChainTo(q)) \in Nat
    BY ChainToTyping DEF LockInv
  <2>2. Len(ChainTo(p)) <= Len(ChainTo(q)) \/ Len(ChainTo(q)) <= Len(ChainTo(p))
    BY <2>1
  <2> QED
    BY <1>3, <2>2, OneReplaces
<1> QED
  BY <1>1, <1>2, <1>3

-----------------------------------------------------------------------------
(* The steps                                                               *)

\* A step of another process leaves the lock of whoever is inside or about
\* to replace the owner: its owner, and its claims.
LEMMA LockStays ==
    ASSUME LockInv, NEW p \in Processes, Step(p),
           NEW q \in Processes, q # p, Inside(q) \/ Replacing(q)
    PROVE  /\ Exists /\ Exists'
           /\ lock'.owner = lock.owner
           /\ \A h \in Holders : lock.claims[h] # NoOne => lock'.claims[h] = lock.claims[h]
<1> USE DEF Exists
<1>1. Exists /\ lock.owner # NoOne
  BY CredentialLockAssumption DEF LockInv, InsideIsOwner, ReplacingIsPinned, Replacing
<1>2. CASE UNCHANGED lock
  BY <1>1, <1>2
<1>3. CASE MakeDirectory(p) \/ NameOwner(p)
  BY <1>1, <1>2, <1>3 DEF MakeDirectory, NameOwner
<1>4. CASE Claim(p) /\ ~UNCHANGED lock
  <2>1. lock.claims[Judged(p)] = NoOne
    BY <1>4 DEF Claim
  <2>2. lock' = [lock EXCEPT !.claims = [@ EXCEPT ![Judged(p)] = p]]
    BY <1>4 DEF Claim
  <2>3. lock' = [ino |-> lock.ino, owner |-> lock.owner,
                 claims |-> [lock.claims EXCEPT ![Judged(p)] = p]]
    BY <2>2 DEF LockInv, LockTypeOK
  <2>4. lock.claims \in [Holders -> Holders]
    BY DEF LockInv, LockTypeOK
  <2> DEFINE j == Judged(p)
  <2> HIDE DEF j
  <2>5. \A h \in Holders : h # j =>
          [lock.claims EXCEPT ![j] = p][h] = lock.claims[h]
    BY <2>4
  <2> QED
    BY <1>1, <2>1, <2>3, <2>5 DEF j
<1>5. CASE Own(p)
  <2>1. ~Replacing(p)
    BY OneHolds
  <2> QED
    BY <1>1, <1>5, <2>1 DEF Own, Replacing
<1>6. CASE SetAside(p)
  <2>1. Inside(p)
    BY <1>6 DEF SetAside, Inside
  <2> QED
    BY <2>1, OneHolds
<1>7. CASE CheckClaim(p) \/ LookAgain(p) \/ Judge(p) \/ Confirm(p)
  BY <1>2, <1>7 DEF CheckClaim, LookAgain, Judge, Confirm
<1>8. CASE ReadFile(p) \/ WriteFile(p) \/ Release(p) \/ GiveUp(p) \/ Die(p)
  BY <1>2, <1>8 DEF ReadFile, WriteFile, Release, GiveUp, Die
<1> QED
  BY <1>2, <1>3, <1>4, <1>5, <1>6, <1>7, <1>8 DEF Step, Take, Work

LEMMA InsideIsOwnerStep ==
    ASSUME LockInv, NEW p \in Processes, Step(p)
    PROVE  InsideIsOwner'
<1> SUFFICES ASSUME NEW q \in Processes, Inside(q)'
             PROVE  Exists' /\ lock'.owner = q
  BY DEF InsideIsOwner
<1>1. LockTypeOK
  BY DEF LockInv
<1>2. CASE q # p
  <2>1. Inside(q)
    BY <1>1, <1>2, StepFrame DEF Inside, LockTypeOK
  <2> QED
    BY <1>2, <2>1, LockStays DEF LockInv, InsideIsOwner
<1>3. CASE q = p
  <2> USE <1>1 DEF LockTypeOK, Inside, Goto, Exists
  <2>1. CASE NameOwner(p)
    BY <1>3, <2>1 DEF NameOwner
  <2>2. CASE Own(p)
    BY <1>3, <2>2 DEF Own
  <2>3. CASE Inside(p) /\ UNCHANGED lock
    BY <1>3, <2>3 DEF LockInv, InsideIsOwner
  <2>4. CASE CheckClaim(p) \/ ReadFile(p)
    BY <2>3, <2>4 DEF CheckClaim, ReadFile
  <2>5. CASE WriteFile(p) \/ Release(p)
    BY <2>3, <2>5 DEF WriteFile, Release
  <2>6. CASE SetAside(p)
    BY <1>3, <2>6 DEF SetAside
  <2>7. CASE MakeDirectory(p) \/ LookAgain(p) \/ Judge(p) \/ Claim(p) \/ Confirm(p)
    BY <1>3, <2>7 DEF MakeDirectory, LookAgain, Judge, Claim, Confirm
  <2>8. CASE GiveUp(p) \/ Die(p)
    BY <1>3, <2>8 DEF GiveUp, Die
  <2> QED
    BY <2>1, <2>2, <2>4, <2>5, <2>6, <2>7, <2>8 DEF Step, Take, Work
<1> QED
  BY <1>2, <1>3

LEMMA OnlyTheDeadAreClaimedStep ==
    ASSUME LockInv, NEW p \in Processes, Step(p)
    PROVE  OnlyTheDeadAreClaimed'
<1>1. LockTypeOK
  BY DEF LockInv
<1>2. Gone \subseteq Gone'
  BY <1>1, DeadStayDead
<1>3. CASE lock'.claims = lock.claims
  BY <1>2, <1>3 DEF LockInv, OnlyTheDeadAreClaimed, Gone
<1>4. CASE lock'.claims = [h \in Holders |-> NoOne]
  BY <1>4 DEF OnlyTheDeadAreClaimed, Holders
<1>5. CASE Claim(p) /\ ~UNCHANGED lock
  <2>1. lock' = [lock EXCEPT !.claims = [@ EXCEPT ![Judged(p)] = p]]
    BY <1>5 DEF Claim
  <2>2. lock'.claims = [lock.claims EXCEPT ![Judged(p)] = p]
    BY <1>1, <2>1 DEF LockTypeOK
  <2>3. Judged(p) \in Gone \cup {NoOne}
    BY <1>5 DEF Claim, LockInv, OnlyTheDeadAreJudged
  <2>4. lock.claims \in [Holders -> Holders]
    BY <1>1 DEF LockTypeOK
  <2> DEFINE j == Judged(p)
  <2> HIDE DEF j
  <2>5. \A h \in Processes : h # j => lock'.claims[h] = lock.claims[h]
    BY <2>2, <2>4 DEF j, Holders
  <2>6. \A h \in Processes : lock'.claims[h] # NoOne => h \in Gone
    BY <2>3, <2>5, CredentialLockAssumption DEF j, LockInv, OnlyTheDeadAreClaimed, Gone
  <2> QED
    BY <1>2, <2>6 DEF OnlyTheDeadAreClaimed, Gone
<1>6. CASE MakeDirectory(p)
  BY <1>1, <1>3, <1>4, <1>6 DEF MakeDirectory, NoLock
<1>7. CASE NameOwner(p) \/ Own(p)
  BY <1>1, <1>3, <1>7 DEF NameOwner, Own, LockTypeOK
<1>8. CASE SetAside(p)
  BY <1>3, <1>4, <1>8 DEF SetAside, NoLock
<1>9. CASE UNCHANGED lock
  BY <1>3, <1>9
<1>10. CASE CheckClaim(p) \/ LookAgain(p) \/ Judge(p) \/ Confirm(p)
  BY <1>9, <1>10 DEF CheckClaim, LookAgain, Judge, Confirm
<1>11. CASE ReadFile(p) \/ WriteFile(p) \/ Release(p) \/ GiveUp(p) \/ Die(p)
  BY <1>9, <1>11 DEF ReadFile, WriteFile, Release, GiveUp, Die
<1> QED
  BY <1>5, <1>6, <1>7, <1>8, <1>9, <1>10, <1>11 DEF Step, Take, Work

LEMMA OnlyTheDeadAreJudgedStep ==
    ASSUME LockInv, NEW p \in Processes, Step(p)
    PROVE  OnlyTheDeadAreJudged'
<1> SUFFICES ASSUME NEW q \in Processes, at'[q] \in {"claim", "confirm", "own"}
             PROVE  /\ Judged(q)' \in Gone' \cup {NoOne}
                    /\ seen'[q].owner \in Gone' \cup {NoOne}
  BY DEF OnlyTheDeadAreJudged
<1>1. LockTypeOK
  BY DEF LockInv
<1>2. Gone \subseteq Gone'
  BY <1>1, DeadStayDead
<1>3. CASE at[q] \in {"claim", "confirm", "own"} /\ seen'[q] = seen[q]
  BY <1>2, <1>3 DEF LockInv, OnlyTheDeadAreJudged, Judged
<1>4. CASE q # p
  BY <1>1, <1>3, <1>4, StepFrame DEF LockTypeOK
<1>5. CASE q = p /\ Judge(p)
  <2>1. PICK chain \in Chains(lock) :
          /\ MayBeAbandoned(HolderOf(lock.owner, chain))
          /\ seen' = [seen EXCEPT ![p] = [ino |-> lock.ino, owner |-> lock.owner,
                                          chain |-> chain]]
    BY <1>5 DEF Judge
  <2>2. seen'[q].owner = lock.owner /\ seen'[q].chain = chain
    BY <1>1, <1>5, <2>1 DEF LockTypeOK
  <2>3. Judged(q)' \in Gone \cup {NoOne}
    BY <2>1, <2>2 DEF Judged, MayBeAbandoned
  <2>4. lock.owner \in Gone \cup {NoOne}
    <3>1. chain \in Seq(Processes)
      BY <1>1, ChainsAreClaims
    <3>2. CASE Len(chain) = 0
      BY <2>1, <3>2 DEF MayBeAbandoned, HolderOf, Before
    <3>3. CASE Len(chain) # 0
      <4>1. 1 \in 1 .. Len(chain)
        BY <3>1, <3>3
      <4>2. lock.claims[Before(lock.owner, chain, 1)] # NoOne
        BY <1>1, <4>1, ChainsAreClaims
      <4>3. Before(lock.owner, chain, 1) = lock.owner
        BY DEF Before
      <4>4. lock.owner \in Holders
        BY <1>1 DEF LockTypeOK
      <4> QED
        BY <4>2, <4>3, <4>4 DEF Holders, LockInv, OnlyTheDeadAreClaimed, Gone
    <3> QED
      BY <3>2, <3>3
  <2> QED
    BY <1>2, <2>2, <2>3, <2>4
<1>6. CASE q = p /\ (Claim(p) \/ Confirm(p))
  BY <1>1, <1>3, <1>6 DEF Claim, Confirm, LockTypeOK, Goto
<1>7. CASE q = p /\ ~(Judge(p) \/ Claim(p) \/ Confirm(p))
  <2> USE <1>1 DEF LockTypeOK, Goto
  <2>1. CASE MakeDirectory(p) \/ NameOwner(p) \/ CheckClaim(p) \/ LookAgain(p) \/ Own(p)
    BY <1>7, <2>1 DEF MakeDirectory, NameOwner, CheckClaim, LookAgain, Own
  <2>2. CASE ReadFile(p)
    BY <1>7, <2>2 DEF ReadFile
  <2>3. CASE WriteFile(p) \/ Release(p) \/ SetAside(p) \/ GiveUp(p) \/ Die(p)
    BY <1>7, <2>3 DEF WriteFile, Release, SetAside, GiveUp, Die
  <2> QED
    BY <1>7, <2>1, <2>2, <2>3 DEF Step, Take, Work
<1> QED
  BY <1>4, <1>5, <1>6, <1>7

LEMMA ReplacingIsPinnedStep ==
    ASSUME LockInv, NEW p \in Processes, Step(p)
    PROVE  ReplacingIsPinned'
<1> SUFFICES ASSUME NEW q \in Processes, Replacing(q)'
             PROVE  /\ Exists'
                    /\ lock'.owner = seen'[q].owner
                    /\ Linked(lock'.claims, lock'.owner, Append(seen'[q].chain, q))
  BY DEF ReplacingIsPinned
<1>1. LockTypeOK
  BY DEF LockInv
<1>2. CASE q # p
  <2>1. Replacing(q) /\ seen'[q] = seen[q]
    BY <1>1, <1>2, StepFrame DEF Replacing, LockTypeOK
  <2>2. /\ Exists /\ Exists' /\ lock'.owner = lock.owner
        /\ \A h \in Holders : lock.claims[h] # NoOne => lock'.claims[h] = lock.claims[h]
    BY <1>2, <2>1, LockStays
  <2>3. /\ lock.owner = seen[q].owner
        /\ Linked(lock.claims, lock.owner, ChainTo(q))
    BY <2>1 DEF LockInv, ReplacingIsPinned, ChainTo
  <2>4. ChainTo(q) \in Seq(Processes)
    BY <1>1, ChainToTyping
  <2>5. ASSUME NEW i \in 1 .. Len(ChainTo(q))
        PROVE  ChainTo(q)[i] = lock'.claims[Before(lock.owner, ChainTo(q), i)]
    <3>1. ChainTo(q)[i] = lock.claims[Before(lock.owner, ChainTo(q), i)]
      BY <2>3 DEF Linked
    <3>2. ChainTo(q)[i] # NoOne
      BY <2>4, CredentialLockAssumption
    <3>3. lock.owner \in Holders
      BY <1>1 DEF LockTypeOK
    <3>4. Before(lock.owner, ChainTo(q), i) \in Holders
      BY <2>4, <3>3 DEF Before, Holders
    <3> QED
      BY <2>2, <3>1, <3>2, <3>4
  <2>6. Linked(lock'.claims, lock'.owner, ChainTo(q))
    BY <2>2, <2>5 DEF Linked
  <2> QED
    BY <2>1, <2>2, <2>3, <2>6 DEF ChainTo
<1>3. CASE q = p /\ Confirm(p)
  <2>1. SameHolders(p) /\ UNCHANGED <<lock, seen>>
    BY <1>1, <1>3 DEF Confirm, Replacing, Goto, LockTypeOK
  <2>2. Linked(lock.claims, lock.owner, Append(seen[p].chain, p))
    BY <2>1 DEF SameHolders, Chains
  <2> QED
    BY <1>3, <2>1, <2>2 DEF SameHolders, Exists
<1>4. CASE q = p /\ ~Confirm(p)
  <2> USE <1>1 DEF LockTypeOK, Goto, Replacing
  <2>1. CASE MakeDirectory(p) \/ NameOwner(p) \/ CheckClaim(p) \/ LookAgain(p)
    BY <1>4, <2>1 DEF MakeDirectory, NameOwner, CheckClaim, LookAgain
  <2>2. CASE Judge(p) \/ Claim(p) \/ Own(p)
    BY <1>4, <2>2 DEF Judge, Claim, Own
  <2>3. CASE ReadFile(p)
    BY <1>4, <2>3 DEF ReadFile
  <2>4. CASE WriteFile(p) \/ Release(p) \/ SetAside(p) \/ GiveUp(p) \/ Die(p)
    BY <1>4, <2>4 DEF WriteFile, Release, SetAside, GiveUp, Die
  <2> QED
    BY <1>4, <2>1, <2>2, <2>3, <2>4 DEF Step, Take, Work
<1> QED
  BY <1>2, <1>3, <1>4

\* The file is changed by WriteFile alone, so by whoever is inside.
LEMMA CredentialsStay ==
    ASSUME LockInv, NEW p \in Processes, Step(p), ~WriteFile(p)
    PROVE  UNCHANGED credentials
<1>1. CASE Take(p)
  BY <1>1 DEF Take, MakeDirectory, NameOwner, CheckClaim, LookAgain, Judge, Claim,
              Confirm, Own
<1>2. CASE Work(p)
  BY <1>2 DEF Work, ReadFile, Release, SetAside
<1>3. CASE GiveUp(p) \/ Die(p)
  BY <1>3 DEF GiveUp, Die
<1> QED
  BY <1>1, <1>2, <1>3 DEF Step

LEMMA CopiesStay ==
    ASSUME LockInv, NEW p \in Processes, Step(p), ~ReadFile(p)
    PROVE  UNCHANGED copy
<1>1. CASE Take(p)
  BY <1>1 DEF Take, MakeDirectory, NameOwner, CheckClaim, LookAgain, Judge, Claim,
              Confirm, Own
<1>2. CASE Work(p)
  BY <1>2 DEF Work, WriteFile, Release, SetAside
<1>3. CASE GiveUp(p) \/ Die(p)
  BY <1>3 DEF GiveUp, Die
<1> QED
  BY <1>1, <1>2, <1>3 DEF Step

\* What ReadFile does, by its case.
LEMMA Reading ==
    ASSUME LockInv, NEW p \in Processes, ReadFile(p)
    PROVE  /\ UNCHANGED credentials
           /\ copy' = [copy EXCEPT ![p] = credentials]
           /\ \/ /\ p \in Creators /\ Cardinality(credentials) >= MaxCredentials
                 /\ at' = [at EXCEPT ![p] = "release"]
                 /\ answer' = [answer EXCEPT ![p] = "full"]
              \/ /\ p \notin Creators /\ Target[p] \notin credentials
                 /\ at' = [at EXCEPT ![p] = "release"]
                 /\ answer' = [answer EXCEPT ![p] = "absent"]
              \/ /\ p \in Creators => ~(Cardinality(credentials) >= MaxCredentials)
                 /\ p \notin Creators => Target[p] \in credentials
                 /\ at' = [at EXCEPT ![p] = "write"]
                 /\ answer' = answer
<1>1. CASE p \in Creators /\ Cardinality(credentials) >= MaxCredentials
  BY <1>1 DEF ReadFile, Goto, Report
<1>2. CASE p \notin Creators /\ Target[p] \notin credentials
  BY <1>2 DEF ReadFile, Goto, Report
<1>3. CASE /\ ~(p \in Creators /\ Cardinality(credentials) >= MaxCredentials)
           /\ ~(p \notin Creators /\ Target[p] \notin credentials)
  BY <1>3 DEF ReadFile, Goto, Report
<1> QED
  BY <1>1, <1>2, <1>3

LEMMA CardinalityOfCredentials ==
    ASSUME LockTypeOK
    PROVE  Cardinality(credentials) \in Nat
BY FS_Subset, FS_CardinalityType, CredentialLockAssumption DEF LockTypeOK

LEMMA CopyIsFreshStep ==
    ASSUME LockInv, NEW p \in Processes, Step(p)
    PROVE  CopyIsFresh'
<1> SUFFICES ASSUME NEW q \in Processes, at'[q] = "write"
             PROVE  /\ copy'[q] = credentials'
                    /\ IF q \in Creators
                       THEN Cardinality(credentials') < MaxCredentials
                       ELSE Target[q] \in credentials'
  BY DEF CopyIsFresh
<1>1. LockTypeOK
  BY DEF LockInv
<1>2. CASE q # p
  <2>1. at[q] = "write"
    BY <1>1, <1>2, StepFrame DEF LockTypeOK
  <2>2. ~WriteFile(p) /\ ~ReadFile(p)
    BY <1>2, <2>1, OneHolds DEF WriteFile, ReadFile, Inside
  <2> QED
    BY <2>1, <2>2, CredentialsStay, CopiesStay DEF LockInv, CopyIsFresh
<1>3. CASE q = p /\ ReadFile(p)
  <2>1. Cardinality(credentials) \in Nat
    BY <1>1, CardinalityOfCredentials
  <2> QED
    BY <1>1, <1>3, <2>1, Reading, CredentialLockAssumption DEF LockTypeOK
<1>4. CASE q = p /\ ~ReadFile(p)
  <2> USE <1>1 DEF LockTypeOK, Goto
  <2>1. CASE MakeDirectory(p) \/ NameOwner(p) \/ CheckClaim(p) \/ LookAgain(p)
    BY <1>4, <2>1 DEF MakeDirectory, NameOwner, CheckClaim, LookAgain
  <2>2. CASE Judge(p) \/ Claim(p) \/ Confirm(p) \/ Own(p)
    BY <1>4, <2>2 DEF Judge, Claim, Confirm, Own
  <2>3. CASE WriteFile(p) \/ Release(p) \/ SetAside(p) \/ GiveUp(p) \/ Die(p)
    BY <1>4, <2>3 DEF WriteFile, Release, SetAside, GiveUp, Die
  <2> QED
    BY <1>4, <2>1, <2>2, <2>3 DEF Step, Take, Work
<1> QED
  BY <1>2, <1>3, <1>4

LEMMA NothingReportedStep ==
    ASSUME LockInv, NEW p \in Processes, Step(p)
    PROVE  NothingReported'
<1> DEFINE Over == {"release", "aside", "done", "dead"}
<1> SUFFICES ASSUME NEW q \in Processes, at'[q] \notin Over
             PROVE  answer'[q] = "none"
  BY DEF NothingReported
<1>1. LockTypeOK
  BY DEF LockInv
<1> USE <1>1 DEF LockTypeOK, Goto
<1>2. CASE UNCHANGED answer /\ at[q] \notin Over
  BY <1>2 DEF LockInv, NothingReported
<1>3. CASE ReadFile(p)
  <2>1. CASE q = p
    BY <1>2, <1>3, <2>1, Reading DEF ReadFile
  <2>2. CASE q # p
    BY <1>3, <2>2, Reading DEF LockInv, NothingReported
  <2> QED
    BY <2>1, <2>2
<1>4. CASE WriteFile(p)
  <2>1. at' = [at EXCEPT ![p] = "release"] /\ q # p
    BY <1>4 DEF WriteFile
  <2>2. answer'[q] = answer[q]
    BY <1>4, <2>1 DEF WriteFile, Report
  <2> QED
    BY <2>1, <2>2 DEF LockInv, NothingReported
<1>5. CASE MakeDirectory(p) \/ NameOwner(p) \/ CheckClaim(p) \/ LookAgain(p)
  BY <1>2, <1>5 DEF MakeDirectory, NameOwner, CheckClaim, LookAgain
<1>6. CASE Judge(p) \/ Claim(p) \/ Confirm(p) \/ Own(p)
  BY <1>2, <1>6 DEF Judge, Claim, Confirm, Own
<1>7. CASE Release(p) \/ SetAside(p) \/ GiveUp(p) \/ Die(p)
  BY <1>2, <1>7 DEF Release, SetAside, GiveUp, Die
<1> QED
  BY <1>3, <1>4, <1>5, <1>6, <1>7 DEF Step, Take, Work

-----------------------------------------------------------------------------
(* The lock excludes                                                       *)

LEMMA LockInvInit == Init => LockInv
<1> SUFFICES ASSUME Init PROVE LockInv
  OBVIOUS
<1>1. LockTypeOK
  BY TypeInit
<1>2. \A p \in Processes : at[p] = "mkdir" /\ answer[p] = "none"
  BY DEF Init
<1>3. \A h \in Processes : lock.claims[h] = NoOne
  BY DEF Init, NoLock, Holders
<1> QED
  BY <1>1, <1>2, <1>3 DEF LockInv, InsideIsOwner, Inside, OnlyTheDeadAreClaimed,
     OnlyTheDeadAreJudged, ReplacingIsPinned, Replacing, CopyIsFresh, NothingReported

LEMMA LockInvStep == LockInv /\ [Next]_vars => LockInv'
<1> SUFFICES ASSUME LockInv, [Next]_vars PROVE LockInv'
  OBVIOUS
<1>1. CASE UNCHANGED vars
  BY <1>1 DEF vars, LockInv, LockTypeOK, InsideIsOwner, Inside, OnlyTheDeadAreClaimed,
     OnlyTheDeadAreJudged, ReplacingIsPinned, Replacing, CopyIsFresh, NothingReported,
     Exists, Dead, Gone, Judged
<1>2. CASE Next
  <2>1. PICK p \in Processes : Step(p)
    BY <1>2 DEF Next, Step
  <2>2. LockTypeOK'
    BY TypeStep DEF LockInv
  <2> QED
    BY <2>1, <2>2, InsideIsOwnerStep, OnlyTheDeadAreClaimedStep, OnlyTheDeadAreJudgedStep,
       ReplacingIsPinnedStep, CopyIsFreshStep, NothingReportedStep DEF LockInv
<1> QED
  BY <1>1, <1>2

\* The lock names whoever is inside, and a reclaimer that is about to replace
\* an owner still has the lock it judged, in every reachable state.
THEOREM LockInvariant == Spec => []LockInv
BY LockInvInit, LockInvStep, PTL DEF Spec

\* Two processes never hold the lock at once, whatever dies or stalls.
THEOREM LockExcludes == Spec => []MutualExclusion
<1>1. LockInv => MutualExclusion
  BY OneHolds DEF MutualExclusion, Holding, Inside
<1> QED
  BY <1>1, LockInvariant, PTL

-----------------------------------------------------------------------------
(* Each command changes the file as if it ran alone                        *)

\* The instance counts as this module does.
LEMMA SameCount == \A S : File!Cardinality(S) = Cardinality(S)
BY DEF Cardinality, File!Cardinality

\* A step of the lock changes nothing of the file; WriteFile is the command.
LEMMA StepRefines ==
    ASSUME LockInv, NEW p \in Processes, Step(p)
    PROVE  File!Next \/ UNCHANGED <<credentials, answer>>
<1>1. LockTypeOK
  BY DEF LockInv
<1>2. CASE ReadFile(p)
  <2>1. answer[p] = "none"
    BY <1>2 DEF ReadFile, LockInv, NothingReported
  <2>2. CASE p \in Creators /\ Cardinality(credentials) >= MaxCredentials
    <3>1. File!RefuseCreate(p)
      BY <1>2, <2>1, <2>2, Reading, SameCount DEF File!RefuseCreate, File!Answer
    <3> QED
      BY <3>1 DEF File!Next
  <2>3. CASE p \notin Creators /\ Target[p] \notin credentials
    <3>1. File!RevokeNothing(p)
      BY <1>2, <2>1, <2>3, Reading DEF File!RevokeNothing, File!Answer
    <3> QED
      BY <3>1 DEF File!Next
  <2>4. CASE answer' = answer
    BY <1>2, <2>4, Reading
  <2> QED
    BY <1>2, <2>2, <2>3, <2>4, Reading
<1>3. CASE WriteFile(p)
  <2>1. /\ answer[p] = "none"
        /\ copy[p] = credentials
        /\ IF p \in Creators THEN Cardinality(credentials) < MaxCredentials
                             ELSE Target[p] \in credentials
    BY <1>3 DEF WriteFile, LockInv, NothingReported, CopyIsFresh
  <2>2. CASE /\ p \in Creators
             /\ credentials' = copy[p] \cup {p}
             /\ Report(p, "created")
    <3>1. File!Create(p)
      BY <2>1, <2>2, SameCount DEF File!Create, File!Answer, Report
    <3> QED
      BY <3>1 DEF File!Next
  <2>3. CASE /\ p \notin Creators
             /\ credentials' = copy[p] \ {Target[p]}
             /\ Report(p, "revoked")
    <3>1. File!Revoke(p)
      BY <2>1, <2>3 DEF File!Revoke, File!Answer, Report
    <3> QED
      BY <3>1 DEF File!Next
  <2>4. CASE UNCHANGED <<credentials, answer>>
    BY <2>4
  <2> QED
    BY <1>3, <2>2, <2>3, <2>4 DEF WriteFile
<1>4. CASE Take(p)
  BY <1>4 DEF Take, MakeDirectory, NameOwner, CheckClaim, LookAgain, Judge, Claim,
              Confirm, Own
<1>5. CASE Release(p) \/ SetAside(p) \/ GiveUp(p) \/ Die(p)
  BY <1>5 DEF Release, SetAside, GiveUp, Die
<1> QED
  BY <1>2, <1>3, <1>4, <1>5 DEF Step, Work

\* The commands under the lock implement CredentialFile: no change of
\* consumer-credentials.json is lost, and none is made of a stale list.
THEOREM CommandsAreAtomic == Spec => ActsAtomically
<1>1. Init => File!Init
  BY DEF Init, File!Init
<1>2. LockInv /\ [Next]_vars => [File!Next]_<<credentials, answer>>
  <2> SUFFICES ASSUME LockInv, [Next]_vars
               PROVE  File!Next \/ UNCHANGED <<credentials, answer>>
    OBVIOUS
  <2>1. CASE UNCHANGED vars
    BY <2>1 DEF vars
  <2>2. CASE Next
    <3>1. PICK p \in Processes : Step(p)
      BY <2>2 DEF Next, Step
    <3> QED
      BY <3>1, StepRefines
  <2> QED
    BY <2>1, <2>2
<1> QED
  BY <1>1, <1>2, LockInvariant, PTL DEF Spec, ActsAtomically, File!Spec

-----------------------------------------------------------------------------
(* A revoked credential never comes back                                   *)

\* A credential there was created, by a command that creates no other; and
\* what was revoked had been there.
FileInv ==
    /\ answer \in [Processes -> Answers]
    /\ credentials \subseteq Processes
    /\ \A c \in credentials : answer[c] = "created"
    /\ \A p \in Processes : answer[p] = "revoked" =>
         /\ p \in Processes \ Creators
         /\ answer[Target[p]] = "created"
         /\ Target[p] \notin credentials

LEMMA FileInvStep ==
    FileInv /\ [File!Next]_<<credentials, answer>> => FileInv'
<1> USE CredentialLockAssumption DEF FileInv, Answers, File!Answer
<1> SUFFICES ASSUME FileInv, [File!Next]_<<credentials, answer>>
             PROVE  FileInv'
  OBVIOUS
<1>1. CASE UNCHANGED <<credentials, answer>>
  BY <1>1
<1>2. ASSUME NEW p \in Processes, File!Create(p)
      PROVE  FileInv'
  BY <1>2 DEF File!Create
<1>3. ASSUME NEW p \in Processes, File!Revoke(p)
      PROVE  FileInv'
  BY <1>3 DEF File!Revoke
<1>4. ASSUME NEW p \in Processes, File!RefuseCreate(p) \/ File!RevokeNothing(p)
      PROVE  FileInv'
  BY <1>4 DEF File!RefuseCreate, File!RevokeNothing
<1> QED
  BY <1>1, <1>2, <1>3, <1>4 DEF File!Next

\* Whatever implements CredentialFile never brings a revoked credential back:
\* an identifier is created once.
THEOREM FileKeepsRevoked == File!Spec => []RevokedStaysRevoked
<1>1. File!Init => FileInv
  BY DEF File!Init, FileInv, Answers
<1>2. FileInv => RevokedStaysRevoked
  BY DEF FileInv, RevokedStaysRevoked
<1> QED
  BY <1>1, <1>2, FileInvStep, PTL DEF File!Spec

\* A revoked credential never comes back, however the commands interleave.
THEOREM RevokedNeverReturns == Spec => []RevokedStaysRevoked
BY CommandsAreAtomic, FileKeepsRevoked, PTL DEF ActsAtomically

=============================================================================
