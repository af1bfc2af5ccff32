------------------------------ MODULE EventLog ------------------------------
(***************************************************************************)
(* What the store promises a reader of one session: an append-only log of  *)
(* distinct events that ends, once and for all, when the session is        *)
(* forgotten or retired.  No coordinator, cursor or checkpoint shows.      *)
(***************************************************************************)
EXTENDS Naturals, Sequences, FiniteSets, Functions

CONSTANT Events

VARIABLES log, forgotten

Init ==
    /\ log = <<>>
    /\ forgotten = FALSE

\* One transaction: some events that are not in the log yet, in some order.
Extend ==
    /\ ~forgotten
    /\ \E new \in (SUBSET (Events \ Range(log))) \ {{}} :
         \E order \in Bijection(1 .. Cardinality(new), new) :
             log' = log \o order
    /\ UNCHANGED forgotten

Forget ==
    /\ log' = <<>>
    /\ forgotten' = TRUE

Next == Extend \/ Forget

Spec == Init /\ [][Next]_<<log, forgotten>>
=============================================================================
