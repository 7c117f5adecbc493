------------------------------ MODULE MCParts -------------------------------
(* The parts with no state in common: the Merkle tree, the connection caps,  *)
(* the token buckets, the cache of /v1/stats and the start of a process. No  *)
(* step of one enables or disables a step of another, so each is explored    *)
(* while the others stand still.                                             *)
EXTENDS Merkle, SseSlots, IpBuckets, StatsCache, DbConnect

CONSTANTS a, b, k1, k2, k3, k4, k5, r1, r2, r3, i1, i2, v1, v2

MCIpOf == [k \in Conn |-> IF k \in {k4, k5} THEN i2 ELSE i1]
MCAddrOf == [r \in Req |-> IF r = r3 THEN i2 ELSE i1]

VARIABLE part

Init ==
    /\ MerkleInit /\ SlotsInit /\ BucketsInit /\ StatsInit /\ ConnectInit
    /\ part \in {"tree", "slots", "buckets", "stats", "connect"}

Next ==
    /\ UNCHANGED part
    /\ \/ part = "tree" /\ MerkleNext /\ UNCHANGED <<slots, buckets, stats, process>>
       \/ part = "slots" /\ SlotsNext /\ UNCHANGED <<levels, buckets, stats, process>>
       \/ part = "buckets" /\ BucketsNext /\ UNCHANGED <<levels, slots, stats, process>>
       \/ part = "stats" /\ StatsNext /\ UNCHANGED <<levels, slots, buckets, process>>
       \/ part = "connect" /\ ConnectNext /\ UNCHANGED <<levels, slots, buckets, stats>>

Spec == Init /\ [][Next]_<<levels, slots, buckets, stats, process, part>>
=============================================================================
