----------------------------- MODULE MCMailbox -----------------------------
(* Mailbox with named requests and replicas; symmetry for the safety runs.   *)
EXTENDS Mailbox, TLC

CONSTANTS d1, d2, k1, k2, p1, r1, r2

MCSymmetry ==
    Permutations({d1, d2}) \cup Permutations({k1, k2}) \cup Permutations({r1, r2})
=============================================================================
