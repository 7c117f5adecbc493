----------------------------- MODULE MCIndexer -----------------------------
(* Indexer on a chain of three ledgers: a pool whose first ledger is longer  *)
(* than a page, which repeats a commitment before its last leaf and emits    *)
(* one that does not decode (the commitment of leaf 2), and a registry that  *)
(* ends in an event Postgres refuses.                                        *)
EXTENDS Indexer

CONSTANTS w1, w2, pool, registry, cmA, cmB, nf, acme

MCOrder == <<pool, registry>>

Commit(l, i, cm, paid) ==
    [kind |-> "commit", ledger |-> l, leaf |-> i, cm |-> cm, paid |-> paid]
Plain(kind, l) == [kind |-> kind, ledger |-> l]
Update(l, status) == [kind |-> "issuer", ledger |-> l, issuer |-> acme, status |-> status]

MCChain ==
    [c \in {pool, registry} |->
        IF c = pool
        THEN <<Commit(1, 0, cmA, TRUE), Plain("note", 1), Commit(1, 1, cmA, FALSE),
               [kind |-> "nullifier", ledger |-> 2, nullifier |-> nf],
               Plain("undecodable", 2), Plain("withdrawal", 3), Commit(3, 3, cmB, FALSE)>>
        ELSE <<Update(1, "active"), Update(2, "revoked"), Plain("note", 3),
               Plain("refused", 3)>>]

(* The shorter chain on which two indexers run side by side.                 *)
MCShortChain ==
    [c \in {pool, registry} |->
        IF c = pool
        THEN <<Commit(1, 0, cmA, TRUE), Plain("note", 1), Commit(1, 1, cmB, FALSE)>>
        ELSE <<Update(1, "active"), Update(2, "revoked")>>]
=============================================================================
