--------------------------- MODULE CredentialFile ---------------------------
(***************************************************************************)
(* What the consumer credential commands promise: each command changes the *)
(* list of credentials once, as a whole, or not at all.  No lock, ticket   *)
(* or copy of the file shows.  A credential is named after its creator.    *)
(***************************************************************************)
EXTENDS Naturals, FiniteSets

CONSTANTS
    Processes,      \* commands, one process each
    Creators,       \* those that create a credential; the others revoke one
    Target,         \* Target[p]: the credential p revokes
    MaxCredentials  \* 32 in the code

VARIABLES credentials, answer

Init ==
    /\ credentials = {}
    /\ answer = [p \in Processes |-> "none"]

Answer(p, word) ==
    /\ answer[p] = "none"
    /\ answer' = [answer EXCEPT ![p] = word]

Create(p) ==
    /\ p \in Creators
    /\ Cardinality(credentials) < MaxCredentials
    /\ credentials' = credentials \cup {p}
    /\ Answer(p, "created")

RefuseCreate(p) ==
    /\ p \in Creators
    /\ Cardinality(credentials) >= MaxCredentials
    /\ Answer(p, "full")
    /\ UNCHANGED credentials

Revoke(p) ==
    /\ p \in Processes \ Creators
    /\ Target[p] \in credentials
    /\ credentials' = credentials \ {Target[p]}
    /\ Answer(p, "revoked")

RevokeNothing(p) ==
    /\ p \in Processes \ Creators
    /\ Target[p] \notin credentials
    /\ Answer(p, "absent")
    /\ UNCHANGED credentials

Next == \E p \in Processes :
            Create(p) \/ RefuseCreate(p) \/ Revoke(p) \/ RevokeNothing(p)

Spec == Init /\ [][Next]_<<credentials, answer>>
=============================================================================
