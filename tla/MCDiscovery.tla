------------------------------ MODULE MCDiscovery ------------------------------
(* Small instances of Discovery.                                           *)
EXTENDS Discovery

CONSTANTS q1, q2, r1, r2

TheQueries == {q1, q2}
TheResults == {r1, r2}

=============================================================================
