------------------------------ MODULE LeafLog ------------------------------
(***************************************************************************)
(* What the rest of the system relies on about the `commitments` table:    *)
(* one append-only set of leaves per pool, written by the indexer and read *)
(* by the API's tree cache. A row is added once, never changed or removed, *)
(* no two rows of a pool share a leaf index or a commitment (the UNIQUE    *)
(* constraints of migration 0001), and ledgers never decrease along the    *)
(* leaf index.                                                             *)
(*                                                                         *)
(* Indexer implements this specification; TreeCache runs on top of it.     *)
(***************************************************************************)
EXTENDS Naturals

CONSTANTS
    Pool,        \* the configured contracts
    Commitment,  \* note commitments: 32-byte values, only their identity counts
    LeafIndex,   \* the leaf positions a pool can use
    Ledger       \* the ledger sequence numbers a row can carry

VARIABLE
    table        \* table[p]: the rows of `commitments` with pool = p

ASSUME LeafLogAssumption == LeafIndex \subseteq Nat /\ Ledger \subseteq Nat

LeafRow == [leaf : LeafIndex, cm : Commitment, ledger : Ledger]

(* The two UNIQUE constraints: ON CONFLICT DO NOTHING drops a row that     *)
(* repeats a leaf index or a commitment of the pool.                       *)
Conflicts(rows, r) == \E s \in rows : s.leaf = r.leaf \/ s.cm = r.cm

(* A leaf further to the right was emitted in the same ledger or later.    *)
LedgersFollowLeaves(rows) ==
    \A a, b \in rows : a.leaf < b.leaf => a.ledger <= b.ledger

-----------------------------------------------------------------------------
Init == table = [p \in Pool |-> {}]

InsertRow(p, r) ==
    /\ ~ Conflicts(table[p], r)
    /\ LedgersFollowLeaves(table[p] \cup {r})
    /\ table' = [table EXCEPT ![p] = @ \cup {r}]

Next == \E p \in Pool : \E r \in LeafRow : InsertRow(p, r)

Spec == Init /\ [][Next]_table
=============================================================================
