------------------------------ MODULE Merkle ------------------------------
(***************************************************************************)
(* attesta-core: the incremental Merkle tree of merkle.rs, which keeps     *)
(* every level of the populated part and never materialises the empty part *)
(* to its right. An append updates one node per level; a root and a path   *)
(* are read off the levels, with the roots of empty subtrees (`zeros`)     *)
(* where a level ends.                                                     *)
(*                                                                         *)
(* The hash is free of collisions: the hash of two nodes is their pair.    *)
(* The reference is the complete tree with all its leaves, the missing     *)
(* ones empty.                                                             *)
(***************************************************************************)
EXTENDS Naturals, Sequences

CONSTANTS
    Depth,    \* TREE_DEPTH (32 in the code)
    Leaf,     \* the leaves a pool may get, among them perhaps
    Empty     \* the empty leaf, 32 zero bytes

VARIABLE
    levels    \* levels[0]: the leaves; levels[d]: the populated nodes at height d

ASSUME MerkleAssumption == Depth \in Nat

-----------------------------------------------------------------------------
(* Variant: the left child hashed twice.                                   *)
HashPairLeft(left, right) == <<left, left>>

HashPair(left, right) == <<left, right>>

(* zeros[d]: the root of an empty subtree of height d.                     *)
zeros[d \in 0..Depth] ==
    IF d = 0 THEN Empty ELSE HashPair(zeros[d - 1], zeros[d - 1])

(* Width[d]: how many leaves lie below a node at height d.                 *)
Width[d \in 0..Depth] == IF d = 0 THEN 1 ELSE 2 * Width[d - 1]

(* Indexes count from 0, as in the code.                                   *)
NodeAt(lvls, d, i) == IF i < Len(lvls[d]) THEN lvls[d][i + 1] ELSE zeros[d]

(* Variant: a parent that is there already is left as it is.               *)
PutOnce(nodes, i, node) == IF i = Len(nodes) THEN Append(nodes, node) ELSE nodes

Put(nodes, i, node) ==
    IF i = Len(nodes) THEN Append(nodes, node) ELSE [nodes EXCEPT ![i + 1] = node]

(* Ancestors(index)[d]: the node at height d above this leaf. The code halves *)
(* idx on its way up.                                                      *)
Ancestors(index) ==
    LET idx[d \in 0..Depth] == IF d = 0 THEN index ELSE idx[d - 1] \div 2
    IN  idx

(* Node i at height d is hashed anew from its children.                    *)
Rehashed(lvls, d, i) ==
    LET node == HashPair(NodeAt(lvls, d - 1, 2 * i), NodeAt(lvls, d - 1, 2 * i + 1))
    IN  [lvls EXCEPT ![d] = Put(@, i, node)]

(* The levels after a leaf was pushed and its ancestors were hashed anew,  *)
(* one height after the other.                                             *)
Appended(lvls, leaf) ==
    LET idx == Ancestors(Len(lvls[0]))
        after[d \in 0..Depth] ==
            IF d = 0 THEN [lvls EXCEPT ![0] = Append(@, leaf)]
            ELSE Rehashed(after[d - 1], d, idx[d])
    IN  after[Depth]

Root(lvls) == NodeAt(lvls, Depth, 0)

(* Variant: the sibling is always the next node.                           *)
SiblingNext(i) == i + 1

(* idx ^ 1: the other child of the same parent.                            *)
Sibling(i) == IF i % 2 = 0 THEN i + 1 ELSE i - 1

Path(lvls, index) ==
    LET idx == Ancestors(index) IN
    [h \in 1..Depth |-> [sibling |-> NodeAt(lvls, h - 1, Sibling(idx[h - 1])),
                         right |-> idx[h - 1] % 2 = 0]]

(* The parent of a node and its sibling on the path.                       *)
Parent(node, element) ==
    IF element.right THEN HashPair(node, element.sibling) ELSE HashPair(element.sibling, node)

Climb(leaf, path) ==
    LET up[h \in 0..Len(path)] == IF h = 0 THEN leaf ELSE Parent(up[h - 1], path[h])
    IN  up[Len(path)]

VerifyPath(leaf, path, root) == Climb(leaf, path) = root

-----------------------------------------------------------------------------
MerkleInit == levels = [d \in 0..Depth |-> <<>>]

(* Leaf indexes are 32 bits wide: a tree never gets more leaves than fit.  *)
AppendLeaf(leaf) ==
    /\ Len(levels[0]) < Width[Depth]
    /\ levels' = Appended(levels, leaf)

(* The process starts again, with an empty tree.                           *)
StartEmpty == levels' = [d \in 0..Depth |-> <<>>]

MerkleNext == StartEmpty \/ \E leaf \in Leaf : AppendLeaf(leaf)

MerkleSpec == MerkleInit /\ [][MerkleNext]_levels

-----------------------------------------------------------------------------
Size == Len(levels[0])

(* The leaf at this position, empty past the end.                          *)
LeafAt(leaves, i) == IF i < Len(leaves) THEN leaves[i + 1] ELSE Empty

(* The reference: Complete(leaves)[d][i] is node i at height d of the      *)
(* complete tree over these leaves.                                        *)
Bottom(leaves) == [i \in 0..(Width[Depth] - 1) |-> LeafAt(leaves, i)]
Above(nodes, n) == [i \in 0..(n - 1) |-> HashPair(nodes[2 * i], nodes[2 * i + 1])]

Complete(leaves) ==
    LET node[d \in 0..Depth] ==
            IF d = 0 THEN Bottom(leaves) ELSE Above(node[d - 1], Width[Depth - d])
    IN  node

(* The root and every cached node are those of the complete tree: an append*)
(* recomputes all it must (incremental_root_matches_naive_rebuild in       *)
(* merkle.rs, for every sequence of leaves). Each level holds just the nodes *)
(* with a leaf below: "nodes to the right of the populated region are never*)
(* materialized" (merkle.rs:54).                                           *)
LevelsRight ==
    LET complete == Complete(levels[0]) IN
    /\ Root(levels) = complete[Depth][0]
    /\ \A d \in 1..Depth : Len(levels[d]) = (Len(levels[d - 1]) + 1) \div 2
    /\ \A d \in 0..Depth : \A i \in 0..(Len(levels[d]) - 1) :
           levels[d][i + 1] = complete[d][i]

(* The path served for a leaf leads from this leaf to the current root     *)
(* (MerkleTree::path, verify_path), also in the half-filled right edge.    *)
PathsVerify ==
    \A i \in 0..(Size - 1) : VerifyPath(levels[0][i + 1], Path(levels, i), Root(levels))

(* ... and from no other leaf: a path does not verify for a commitment that*)
(* is not at its index, the empty leaf included.                           *)
PathsBind ==
    \A i \in 0..(Size - 1) : \A leaf \in Leaf \cup {Empty} :
        VerifyPath(leaf, Path(levels, i), Root(levels)) => leaf = levels[0][i + 1]

(* Every append of a leaf other than the empty one changes the root: "no   *)
(* silent no-op appends" (merkle.rs, per_append_root_history_is_replayable). *)
AppendChangesRoot ==
    [][Len(levels'[0]) > Size /\ levels'[0][Size + 1] # Empty
          => Root(levels') # Root(levels)]_levels
=============================================================================
