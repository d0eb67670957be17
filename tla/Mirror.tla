------------------------------- MODULE Mirror -------------------------------
(***************************************************************************)
(* What a controller promises its panel: a replica follows a source.  It   *)
(* takes over a value the source had when it was last fetched, never one   *)
(* of earlier and never one of its own, and when the source stays as it    *)
(* is, the replica comes to equal it.                                      *)
(***************************************************************************)
CONSTANTS Values

VARIABLES
    source,     \* what is to be followed
    pending,    \* the value of the last fetch
    replica     \* the value in use

vars == <<source, pending, replica>>

Init == source \in Values /\ pending = replica /\ replica \in Values

Change ==
    /\ source' \in Values
    /\ UNCHANGED <<pending, replica>>

\* A fetch may wait to be taken over, or be taken over at once.
Fetch ==
    /\ pending' = source
    /\ replica' \in {replica, source}
    /\ UNCHANGED source

Apply ==
    /\ replica' = pending
    /\ UNCHANGED <<source, pending>>

Next == Change \/ Fetch \/ Apply

Spec == Init /\ [][Next]_vars /\ WF_vars(Fetch) /\ WF_vars(Apply)
=============================================================================
