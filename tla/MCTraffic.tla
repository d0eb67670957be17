----------------------------- MODULE MCTraffic -----------------------------
(***************************************************************************)
(* Traffic for TLC.                                                        *)
(***************************************************************************)
EXTENDS Traffic

CONSTANTS u1, u2

Entry(u, limit) == [user |-> u, limit |-> limit]

\* A list that grows by a user at its end.
Growing == {<<Entry(u1, 0)>>, <<Entry(u1, 0), Entry(u2, 0)>>}

\* The first user goes, and may come back.
Shrinking == {<<Entry(u1, 0), Entry(u2, 0)>>, <<Entry(u2, 0)>>}

\* The user gets another speed limit.
Changing == {<<Entry(u1, 0)>>, <<Entry(u1, 1)>>}
=============================================================================
