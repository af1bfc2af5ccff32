-------------------------- MODULE MCCredentialLock --------------------------
(* An instance of CredentialLock for TLC: two commands that create, and one *)
(* that revokes what the first of them created.                             *)
EXTENDS CredentialLock, TLC

CONSTANTS c1, c2, r1

TwoCreate == {c1, c2}
TwoAndRevoke == TwoCreate \cup {r1}
RevokesFirst == [p \in {r1} |-> c1]
=============================================================================
