---------------------------- MODULE MCTreeCache ----------------------------
(* TreeCache with two replicas of the API behind one database and two        *)
(* requests in flight.                                                       *)
EXTENDS TreeCache, TLC

CONSTANTS r1, r2, q1, q2, cm1, cm2, pool

MCSymmetry ==
    Permutations({r1, r2}) \cup Permutations({q1, q2}) \cup Permutations({cm1, cm2})
=============================================================================
