-------------------------- MODULE TreeCacheProofs --------------------------
(***************************************************************************)
(* TreeCache, proved for any number of replicas, requests, pools, leaves   *)
(* and faults: trees are gap-free prefixes of the leaf log, and what is    *)
(* recorded in tree_roots is right and unique.                             *)
(*                                                                         *)
(* The argument: rows of the leaf log never change (LeafLog), so a row     *)
(* once selected stays what the log says of its index (RowsSelected), and  *)
(* whatever is appended from such rows, at the index they carry, is a      *)
(* prefix of the log for good (TreeIsPrefix). A root put aside is faithful *)
(* when it is computed (RootsPending), stays so, and is so when it is      *)
(* inserted (AllFaithful), by whichever replica.                           *)
(*                                                                         *)
(* What is answered rests on that, and on a second invariant (AnswerInv):  *)
(* a SELECT made under the lock returns every leaf that was there when the *)
(* request came and that the tree lacks (RowsReach); the lock is with one  *)
(* request at a time (LocksHeld), so when a historical query gives it up   *)
(* nobody is about to record a root of this tree any more, and RootsKept   *)
(* leaves only recorded ones (HistoryReady).                               *)
(***************************************************************************)
EXTENDS TreeCache, TLAPS

(* The UNIQUE constraint on leaf indexes, and ledgers in leaf order.         *)
TableOK ==
    \A p \in Pool :
        /\ \A a, b \in table[p] : a.leaf = b.leaf => a = b
        /\ LedgersFollowLeaves(table[p])

RowsSelected ==
    \A q \in Request : pc[q] = "append" => rows[q] \subseteq table[PoolOf(q)]

RootsPending ==
    \A q \in Request : pc[q] = "flush" =>
        \A row \in newRoots[q] : Faithful(PoolOf(q), row)

AllFaithful == \A p \in Pool : \A row \in treeRoots[p] : Faithful(p, row)

(* A root of a replica that has dropped none is recorded, or put aside by a  *)
(* request that is about to record it.                                       *)
RootKept(r, p, n) ==
    \/ \E row \in treeRoots[p] : row.count = n
    \/ \E q \in Request :
          /\ pc[q] = "flush" /\ Here(q) = r /\ PoolOf(q) = p
          /\ \E row \in newRoots[q] : row.count = n

RootsKept ==
    \A r \in Replica, p \in Pool :
        ~ lost[r][p] => \A n \in 1..Len(tree[r][p]) : RootKept(r, p, n)

TreeInv ==
    TreeTypeOK /\ TableOK /\ RowsSelected /\ RootsPending /\ TreeIsPrefix /\ AllFaithful
    /\ RootsKept

USE TreeCacheAssumption, LeafLogAssumption

-----------------------------------------------------------------------------
(* In a set with one row per leaf index, choosing by index finds the row.    *)
LEMMA ChosenLeaf ==
    ASSUME NEW T, NEW row \in T, \A a, b \in T : a.leaf = b.leaf => a = b
    PROVE  (CHOOSE x \in T : x.leaf = row.leaf) = row
<1>1. \E x \in T : x.leaf = row.leaf
  OBVIOUS
<1>. DEFINE c == CHOOSE x \in T : x.leaf = row.leaf
<1>2. c \in T /\ c.leaf = row.leaf
  BY <1>1
<1>. QED  BY <1>2

(* While the table only grows, what it says of a leaf it has stays.          *)
LEMMA LeafStays ==
    ASSUME TableOK, TableOK', NEW p \in Pool, table[p] \subseteq table'[p],
           NEW i, Has(p, i)
    PROVE  Has(p, i)' /\ LeafAt(p, i)' = LeafAt(p, i) /\ LeafAt(p, i) \in table[p]
           /\ LeafAt(p, i).leaf = i
<1>1. PICK row \in table[p] : row.leaf = i
  BY DEF Has
<1>2. LeafAt(p, i) = row
  BY <1>1, ChosenLeaf DEF LeafAt, TableOK
<1>3. LeafAt(p, i)' = row
  BY <1>1, ChosenLeaf DEF LeafAt, TableOK
<1>. QED  BY <1>1, <1>2, <1>3 DEF Has

(* LeafAt returns the row of the table with this index.                      *)
LEMMA LeafAtIs ==
    ASSUME TableOK, NEW p \in Pool, NEW row \in table[p]
    PROVE  LeafAt(p, row.leaf) = row
BY ChosenLeaf DEF LeafAt, TableOK

(* The first n leaves of the log stay what they are.                         *)
LEMMA LeavesStay ==
    ASSUME TableOK, TableOK', NEW p \in Pool, table[p] \subseteq table'[p],
           NEW n \in Nat, \A i \in 0..(n - 1) : Has(p, i)
    PROVE  /\ \A i \in 0..(n - 1) : Has(p, i)'
           /\ LeavesOf(p, n)' = LeavesOf(p, n)
<1>1. \A i \in 0..(n - 1) : Has(p, i)' /\ LeafAt(p, i)' = LeafAt(p, i)
  BY LeafStays
<1>2. \A i \in 1..n : LeafAt(p, i - 1)'.cm = LeafAt(p, i - 1).cm
  BY <1>1
<1>. QED  BY <1>1, <1>2 DEF LeavesOf

(* A faithful row, or answer, stays faithful.                                *)
LEMMA FaithfulLasts ==
    ASSUME TableOK, TableOK', NEW p \in Pool, table[p] \subseteq table'[p],
           NEW row, row.count \in Nat, Faithful(p, row)
    PROVE  Faithful(p, row)'
<1>1. row.count \in Nat /\ row.count >= 1 /\ \A i \in 0..(row.count - 1) : Has(p, i)
  BY DEF Faithful
<1>2. /\ \A i \in 0..(row.count - 1) : Has(p, i)'
      /\ LeavesOf(p, row.count)' = LeavesOf(p, row.count)
  BY <1>1, LeavesStay
<1>3. LeafAt(p, row.count - 1)' = LeafAt(p, row.count - 1)
  BY <1>1, LeafStays
<1>. QED  BY <1>1, <1>2, <1>3 DEF Faithful

(* The same for rows of tree_roots.                                          *)
LEMMA FaithfulStays ==
    ASSUME TableOK, TableOK', NEW p \in Pool, table[p] \subseteq table'[p],
           NEW row \in RootRow, Faithful(p, row)
    PROVE  Faithful(p, row)'
BY FaithfulLasts DEF RootRow

(* Two faithful rows with the same leaf count are the same row.              *)
LEMMA FaithfulUnique ==
    ASSUME NEW p \in Pool, NEW a \in RootRow, NEW b \in RootRow,
           Faithful(p, a), Faithful(p, b), a.count = b.count
    PROVE  a = b
BY DEF Faithful, RootRow

(* Hence the history the properties ask for.                                 *)
LEMMA InvGivesHistory == ASSUME TreeInv PROVE HistoryFaithful
<1>1. \A p \in Pool : treeRoots[p] \subseteq RootRow
  BY DEF TreeInv, TreeTypeOK
<1>. QED  BY <1>1, FaithfulUnique DEF TreeInv, AllFaithful, HistoryFaithful

(* And, with nobody about to record, the complete history.                   *)
LEMMA InvGivesCompleteness == ASSUME TreeInv PROVE CleanHistoryComplete
BY DEF TreeInv, RootsKept, RootKept, CleanHistoryComplete

-----------------------------------------------------------------------------
(* The initial state satisfies the invariant.                                *)
LEMMA InitInv == TreeInit => TreeInv
<1>. SUFFICES ASSUME TreeInit PROVE TreeInv
  OBVIOUS
<1>. USE DEF TreeInit, Init
<1>1. TreeTypeOK
  BY DEF TreeTypeOK, Leaves
<1>2. TableOK
  BY DEF TableOK, LedgersFollowLeaves
<1>3. RowsSelected /\ RootsPending
  BY DEF RowsSelected, RootsPending
<1>4. TreeIsPrefix
  <2>. SUFFICES ASSUME NEW r \in Replica, NEW p \in Pool
                PROVE  /\ \A i \in 0..(Len(tree[r][p]) - 1) :
                              Has(p, i) /\ tree[r][p][i + 1] = LeafAt(p, i).cm
                       /\ tree[r][p] = <<>> /\ anchored[r][p] = 0
    BY DEF TreeIsPrefix
  <2>1. tree[r][p] = <<>> /\ anchored[r][p] = 0
    OBVIOUS
  <2>2. Len(tree[r][p]) - 1 = 0 - 1
    BY <2>1
  <2>3. ~ \E i \in 0..(0 - 1) : TRUE
    OBVIOUS
  <2>. QED  BY <2>1, <2>2, <2>3
<1>5. AllFaithful
  BY DEF AllFaithful
<1>6. RootsKept
  <2>1. \A r \in Replica, p \in Pool : Len(tree[r][p]) = 0
    OBVIOUS
  <2>2. ~ \E n \in 1..0 : TRUE
    OBVIOUS
  <2>. QED  BY <2>1, <2>2 DEF RootsKept
<1>. QED  BY <1>1, <1>2, <1>3, <1>4, <1>5, <1>6 DEF TreeInv

(* An active request asks something of a replica and a pool.                 *)
LEMMA ActiveQuery ==
    ASSUME TreeTypeOK, NEW q \in Request, pc[q] # "idle"
    PROVE  Here(q) \in Replica /\ PoolOf(q) \in Pool /\ req[q] \in Query
           /\ Cached(q) \in Leaves /\ Len(Cached(q)) \in Nat
<1>1. req[q] \in Query
  BY DEF TreeTypeOK
<1>2. Here(q) \in Replica /\ PoolOf(q) \in Pool
  BY <1>1 DEF Query, Here, PoolOf
<1>. QED  BY <1>1, <1>2 DEF TreeTypeOK, Cached, Leaves

(* Ending requests keeps the types of what handlers hold.                    *)
LEMMA ForgetType ==
    ASSUME TreeTypeOK, NEW gone \in SUBSET Request, Forget(gone)
    PROVE  /\ pc' \in [Request -> {"idle", "lock", "topup", "append", "flush", "history", "done"}]
           /\ req' \in [Request -> Query \cup {NoQuery}]
           /\ \A q \in Request : pc'[q] # "idle" => req'[q] \in Query
           /\ rows' \in [Request -> SUBSET LeafRow]
           /\ newRoots' \in [Request -> SUBSET RootRow]
           /\ since' \in [Request -> 0..MaxLeaves]
<1>1. pc' \in [Request -> {"idle", "lock", "topup", "append", "flush", "history", "done"}]
  BY DEF Forget, TreeTypeOK
<1>2. req' \in [Request -> Query \cup {NoQuery}]
  BY DEF Forget, TreeTypeOK
<1>3. \A q \in Request : pc'[q] # "idle" => req'[q] \in Query
  BY DEF Forget, TreeTypeOK
<1>4. rows' \in [Request -> SUBSET LeafRow]
  BY DEF Forget, TreeTypeOK
<1>5. newRoots' \in [Request -> SUBSET RootRow]
  BY DEF Forget, TreeTypeOK
<1>6. since' \in [Request -> 0..MaxLeaves]
  BY DEF Forget, TreeTypeOK
<1>. QED  BY <1>1, <1>2, <1>3, <1>4, <1>5, <1>6

(* Answering releases the lock and moves the request on.                     *)
LEMMA RespondType ==
    ASSUME TreeTypeOK, NEW q \in Request, Respond(q)
    PROVE  /\ lock' \in [Replica -> Request \cup {NoRequest}]
           /\ pc' \in [Request -> {"idle", "lock", "topup", "append", "flush", "history", "done"}]
           /\ pc' = [pc EXCEPT ![q] = pc'[q]] /\ pc'[q] \in {"history", "done"}
<1>1. lock' \in [Replica -> Request \cup {NoRequest}]
  BY DEF Respond, TreeTypeOK
<1>2. pc' = [pc EXCEPT ![q] = "history"] \/ pc' = [pc EXCEPT ![q] = "done"]
  BY DEF Respond
<1>. QED  BY <1>1, <1>2 DEF TreeTypeOK

(* What a top-up appends are rows of the log, at their own index.            *)
LEMMA FreshRows ==
    ASSUME TreeTypeOK, TableOK, RowsSelected, NEW q \in Request, pc[q] = "append",
           NEW i \in Nat, ~ Stuck(q, i - 1)
    PROVE  /\ RowFor(q, i) \in table[PoolOf(q)] /\ RowFor(q, i) \in LeafRow
           /\ Has(PoolOf(q), i - 1) /\ RowFor(q, i) = LeafAt(PoolOf(q), i - 1)
<1>1. PoolOf(q) \in Pool /\ rows[q] \subseteq table[PoolOf(q)]
      /\ table[PoolOf(q)] \subseteq LeafRow
  BY ActiveQuery DEF RowsSelected, TreeTypeOK
<1>2. \E row \in rows[q] : row.leaf = i - 1
  BY DEF Stuck, Fits
<1>3. RowFor(q, i) \in rows[q] /\ RowFor(q, i).leaf = i - 1
  BY <1>2 DEF RowFor, Fits
<1>4. LeafAt(PoolOf(q), RowFor(q, i).leaf) = RowFor(q, i)
  BY <1>1, <1>3, LeafAtIs
<1>. QED  BY <1>1, <1>3, <1>4 DEF Has

(* A top-up's tree and its roots are sequences of commitments.               *)
LEMMA UpToType ==
    ASSUME TreeTypeOK, TableOK, RowsSelected, NEW q \in Request, pc[q] = "append",
           NEW n \in Nat, \A i \in (Len(Cached(q)) + 1)..n : ~ Stuck(q, i - 1)
    PROVE  UpTo(q, n) \in Leaves /\ Len(UpTo(q, n)) = n
<1>1. Cached(q) \in Seq(Commitment) /\ Len(Cached(q)) \in Nat
  BY ActiveQuery DEF Leaves
<1>2. ASSUME NEW i \in 1..n, i > Len(Cached(q))
      PROVE  RowFor(q, i).cm \in Commitment
  <2>1. i \in (Len(Cached(q)) + 1)..n /\ i \in Nat
    BY <1>1, <1>2
  <2>. QED  BY <2>1, FreshRows DEF LeafRow
<1>3. \A i \in 1..n : i <= Len(Cached(q)) => Cached(q)[i] \in Commitment
  BY <1>1
<1>4. \A i \in 1..n :
        (IF i <= Len(Cached(q)) THEN Cached(q)[i] ELSE RowFor(q, i).cm) \in Commitment
  BY <1>1, <1>2, <1>3
<1>5. UpTo(q, n) \in [1..n -> Commitment]
  BY <1>4 DEF UpTo
<1>. QED  BY <1>5 DEF Leaves

(* The roots a top-up puts aside are rows of tree_roots.                     *)
LEMMA RootAfterType ==
    ASSUME TreeTypeOK, TableOK, RowsSelected, NEW q \in Request, pc[q] = "append",
           NEW n \in Nat, NEW i \in (Len(Cached(q)) + 1)..n,
           \A j \in (Len(Cached(q)) + 1)..n : ~ Stuck(q, j - 1)
    PROVE  RootAfter(q, n, i) \in RootRow
<1>1. Len(Cached(q)) \in Nat
  BY ActiveQuery
<1>2. i \in Nat /\ \A j \in (Len(Cached(q)) + 1)..i : ~ Stuck(q, j - 1)
  BY <1>1
<1>3. UpTo(q, i) \in Leaves
  BY <1>2, UpToType
<1>4. RowFor(q, i).ledger \in Nat
  BY <1>2, FreshRows DEF LeafRow
<1>. QED  BY <1>2, <1>3, <1>4 DEF RootAfter, RootRow

-----------------------------------------------------------------------------
(* Every step keeps the types: one lemma per kind of step.                   *)

(* The indexer adds a row that conflicts with none.                          *)
LEMMA IndexKeepsTable ==
    ASSUME TreeTypeOK, TableOK, NEW p \in Pool, Index(p)
    PROVE  /\ TreeTypeOK' /\ TableOK'
           /\ \A o \in Pool : table[o] \subseteq table'[o]
           /\ UNCHANGED <<treeRoots, tree, anchored, lock, handler, lost, faults>>
<1>1. PICK row \in LeafRow : InsertRow(p, row)
  BY DEF Index
<1>2. /\ table' = [table EXCEPT ![p] = @ \cup {row}]
      /\ \A s \in table[p] : s.leaf # row.leaf
      /\ LedgersFollowLeaves(table[p] \cup {row})
  BY <1>1 DEF InsertRow, Conflicts
<1>3. UNCHANGED <<treeRoots, tree, anchored, lock, handler, lost, faults>>
  BY DEF Index
<1>4. table' \in [Pool -> SUBSET LeafRow] /\ \A o \in Pool : table[o] \subseteq table'[o]
  BY <1>2 DEF TreeTypeOK
<1>5. TreeTypeOK'
  BY <1>3, <1>4 DEF TreeTypeOK, handler
<1>6. TableOK'
  <2>1. \A o \in Pool : table'[o] = IF o = p THEN table[p] \cup {row} ELSE table[o]
    BY <1>2 DEF TreeTypeOK
  <2>2. \A o \in Pool : \A a, b \in table'[o] : a.leaf = b.leaf => a = b
    BY <1>2, <2>1 DEF TableOK
  <2>3. \A o \in Pool : LedgersFollowLeaves(table'[o])
    BY <1>2, <2>1 DEF TableOK
  <2>. QED  BY <2>2, <2>3 DEF TableOK, LedgersFollowLeaves
<1>. QED  BY <1>3, <1>4, <1>5, <1>6

(* Arriving and taking the lock.                                             *)
LEMMA EntryKeepsType ==
    ASSUME TreeTypeOK, NEW q \in Request, Arrive(q) \/ LockTrees(q)
    PROVE  TreeTypeOK'
<1>1. CASE Arrive(q)
  BY <1>1 DEF Arrive, TreeTypeOK
<1>2. CASE LockTrees(q)
  <2>1. Here(q) \in Replica
    BY <1>2, ActiveQuery DEF LockTrees
  <2>. QED  BY <1>2, <2>1 DEF LockTrees, TreeTypeOK
<1>. QED  BY <1>1, <1>2

(* The SELECT, with or without rows.                                         *)
LEMMA SelectKeepsType ==
    ASSUME TreeTypeOK, NEW q \in Request, Select(q) \/ NothingNew(q)
    PROVE  TreeTypeOK'
<1>1. CASE Select(q)
  <2>1. PoolOf(q) \in Pool
    BY <1>1, ActiveQuery DEF Select
  <2>2. {row \in table[PoolOf(q)] : row.leaf >= Len(Cached(q))} \in SUBSET LeafRow
    BY <2>1 DEF TreeTypeOK
  <2>. QED  BY <1>1, <2>2 DEF Select, TreeTypeOK
<1>2. CASE NothingNew(q)
  <2>1. /\ lock' \in [Replica -> Request \cup {NoRequest}]
        /\ pc' = [pc EXCEPT ![q] = "done"] \/ pc' = [pc EXCEPT ![q] = "history"]
    BY <1>2 DEF NothingNew, Respond, TreeTypeOK
  <2>2. pc[q] # "idle"
    BY <1>2 DEF NothingNew
  <2>. QED  BY <1>2, <2>1, <2>2 DEF NothingNew, TreeTypeOK
<1>. QED  BY <1>1, <1>2

(* The top-up.                                                               *)
LEMMA TopUpKeepsType ==
    ASSUME TreeTypeOK, TableOK, RowsSelected, NEW q \in Request, TopUp(q)
    PROVE  TreeTypeOK'
<1>1. pc[q] = "append"
  BY DEF TopUp
<1>2. Here(q) \in Replica /\ PoolOf(q) \in Pool /\ Len(Cached(q)) \in Nat /\ req[q] \in Query
  BY <1>1, ActiveQuery
<1>3. PICK n \in (Len(Cached(q)) + 1)..MaxLeaves :
        /\ \A i \in (Len(Cached(q)) + 1)..n : ~ Stuck(q, i - 1)
        /\ tree' = [tree EXCEPT ![Here(q)][PoolOf(q)] = UpTo(q, n)]
        /\ \E l \in {RowFor(q, i).ledger : i \in (Len(Cached(q)) + 1)..n}
                      \cup {anchored[Here(q)][PoolOf(q)]} :
             anchored' = [anchored EXCEPT ![Here(q)][PoolOf(q)] = l]
        /\ newRoots' = [newRoots EXCEPT ![q] =
             {RootAfter(q, n, i) : i \in (Len(Cached(q)) + 1)..n}]
  BY DEF TopUp
<1>4. n \in Nat
  BY <1>2
<1>5. tree' \in [Replica -> [Pool -> Leaves]]
  <2>1. UpTo(q, n) \in Leaves
    BY <1>1, <1>3, <1>4, UpToType
  <2>. QED  BY <1>2, <1>3, <2>1 DEF TreeTypeOK
<1>6. anchored' \in [Replica -> [Pool -> Nat]]
  <2>1. \A i \in (Len(Cached(q)) + 1)..n : RowFor(q, i).ledger \in Nat
    <3>1. \A i \in (Len(Cached(q)) + 1)..n : i \in Nat
      BY <1>2, <1>4
    <3>. QED  BY <1>1, <1>3, <3>1, FreshRows DEF LeafRow
  <2>2. anchored[Here(q)][PoolOf(q)] \in Nat
    BY <1>2 DEF TreeTypeOK
  <2>. QED  BY <1>2, <1>3, <2>1, <2>2 DEF TreeTypeOK
<1>7. newRoots' \in [Request -> SUBSET RootRow]
  <2>1. \A i \in (Len(Cached(q)) + 1)..n : RootAfter(q, n, i) \in RootRow
    BY <1>1, <1>3, <1>4, RootAfterType
  <2>. QED  BY <1>3, <2>1 DEF TreeTypeOK
<1>8. /\ pc' = [pc EXCEPT ![q] = "flush"] /\ rows' = [rows EXCEPT ![q] = {}]
      /\ UNCHANGED <<table, treeRoots, lock, req, since, lost, faults>>
  BY DEF TopUp
<1>. QED  BY <1>1, <1>5, <1>6, <1>7, <1>8 DEF TreeTypeOK

(* Recording the roots and looking one up.                                   *)
LEMMA AnswerKeepsType ==
    ASSUME TreeTypeOK, NEW q \in Request, FlushRoots(q) \/ LookUp(q)
    PROVE  TreeTypeOK'
<1>1. CASE FlushRoots(q)
  <2>1. pc[q] # "idle" /\ PoolOf(q) \in Pool
    BY <1>1, ActiveQuery DEF FlushRoots
  <2>2. /\ lock' \in [Replica -> Request \cup {NoRequest}]
        /\ pc' = [pc EXCEPT ![q] = "done"] \/ pc' = [pc EXCEPT ![q] = "history"]
    BY <1>1 DEF FlushRoots, Respond, TreeTypeOK
  <2>3. treeRoots' \in [Pool -> SUBSET RootRow]
    BY <1>1, <2>1 DEF FlushRoots, Recorded, TreeTypeOK
  <2>. QED  BY <1>1, <2>1, <2>2, <2>3 DEF FlushRoots, TreeTypeOK
<1>2. CASE LookUp(q)
  BY <1>2 DEF LookUp, TreeTypeOK
<1>. QED  BY <1>1, <1>2

(* Requests that end, and a replica that goes down.                          *)
LEMMA EndKeepsType ==
    ASSUME TreeTypeOK,
           \/ \E q \in Request : Finish(q) \/ Cancel(q)
           \/ \E r \in Replica : Restart(r)
    PROVE  TreeTypeOK'
<1>1. ASSUME NEW q \in Request, Finish(q) PROVE TreeTypeOK'
  <2>1. Forget({q}) /\ UNCHANGED <<table, treeRoots, tree, anchored, lock, lost, faults>>
    BY <1>1 DEF Finish
  <2>. QED  BY <2>1, ForgetType DEF TreeTypeOK
<1>2. ASSUME NEW q \in Request, Cancel(q) PROVE TreeTypeOK'
  <2>1. Here(q) \in Replica /\ PoolOf(q) \in Pool
    BY <1>2, ActiveQuery DEF Cancel
  <2>2. Forget({q}) /\ UNCHANGED <<table, treeRoots, tree, anchored>>
    BY <1>2 DEF Cancel
  <2>3. lock' \in [Replica -> Request \cup {NoRequest}]
    BY <1>2, <2>1 DEF Cancel, Released, TreeTypeOK
  <2>4. lost' \in [Replica -> [Pool -> BOOLEAN]]
    BY <1>2, <2>1 DEF Cancel, TreeTypeOK
  <2>5. faults' \in 0..MaxFaults
    BY <1>2 DEF Cancel, TreeTypeOK
  <2>. QED  BY <2>2, <2>3, <2>4, <2>5, ForgetType DEF TreeTypeOK
<1>3. ASSUME NEW r \in Replica, Restart(r) PROVE TreeTypeOK'
  <2>1. Forget({q \in Request : pc[q] # "idle" /\ Here(q) = r}) /\ UNCHANGED <<table, treeRoots>>
    BY <1>3 DEF Restart
  <2>2. <<>> \in Leaves
    BY DEF Leaves
  <2>3. tree' \in [Replica -> [Pool -> Leaves]] /\ anchored' \in [Replica -> [Pool -> Nat]]
    BY <1>3, <2>2 DEF Restart, TreeTypeOK
  <2>4. lock' \in [Replica -> Request \cup {NoRequest}]
    BY <1>3 DEF Restart, TreeTypeOK
  <2>5. lost' \in [Replica -> [Pool -> BOOLEAN]]
    BY <1>3 DEF Restart, TreeTypeOK
  <2>6. faults' \in 0..MaxFaults
    BY <1>3 DEF Restart, TreeTypeOK
  <2>. QED  BY <2>1, <2>3, <2>4, <2>5, <2>6, ForgetType DEF TreeTypeOK
<1>. QED  BY <1>1, <1>2, <1>3

-----------------------------------------------------------------------------
(* The other conjuncts when the table grows and nothing else changes.        *)
LEMMA IndexKeepsInv ==
    ASSUME TreeInv, NEW p \in Pool, Index(p)
    PROVE  TreeInv'
<1>. USE DEF TreeInv
<1>1. /\ TreeTypeOK' /\ TableOK'
      /\ \A o \in Pool : table[o] \subseteq table'[o]
      /\ UNCHANGED <<treeRoots, tree, anchored, lock, lost, faults>>
      /\ UNCHANGED <<pc, req, rows, newRoots, answer, since>>
  BY IndexKeepsTable DEF handler
<1>2. \A o \in Pool : \A row \in RootRow : Faithful(o, row) => Faithful(o, row)'
  BY <1>1, FaithfulStays
<1>3. RowsSelected'
  <2>1. \A q \in Request : pc[q] = "append" => PoolOf(q) \in Pool /\ PoolOf(q)' = PoolOf(q)
    BY <1>1, ActiveQuery DEF PoolOf
  <2>. QED  BY <1>1, <2>1 DEF RowsSelected
<1>4. RootsPending'
  <2>1. \A q \in Request : pc[q] = "flush" =>
          PoolOf(q) \in Pool /\ PoolOf(q)' = PoolOf(q) /\ newRoots[q] \subseteq RootRow
    BY <1>1, ActiveQuery DEF PoolOf, TreeTypeOK
  <2>2. SUFFICES ASSUME NEW q \in Request, pc[q] = "flush", NEW row \in newRoots[q]
                 PROVE  Faithful(PoolOf(q), row)'
    BY <1>1 DEF RootsPending
  <2>3. Faithful(PoolOf(q), row) /\ row \in RootRow /\ PoolOf(q) \in Pool
    BY <2>1, <2>2 DEF RootsPending
  <2>4. PICK o \in Pool : o = PoolOf(q) /\ o = PoolOf(q)'
    BY <2>1, <2>2
  <2>5. Faithful(o, row)'
    BY <1>2, <2>3, <2>4
  <2>. QED  BY <2>4, <2>5
<1>5. AllFaithful'
  BY <1>1, <1>2 DEF AllFaithful, TreeTypeOK
<1>6. TreeIsPrefix'
  <2>. SUFFICES ASSUME NEW r \in Replica, NEW o \in Pool
                PROVE  (/\ \A i \in 0..(Len(tree[r][o]) - 1) :
                              Has(o, i) /\ tree[r][o][i + 1] = LeafAt(o, i).cm
                        /\ anchored[r][o] = IF tree[r][o] = <<>> THEN 0
                                            ELSE LeafAt(o, Len(tree[r][o]) - 1).ledger)'
    BY DEF TreeIsPrefix
  <2>1. \A i \in 0..(Len(tree[r][o]) - 1) : Has(o, i)' /\ LeafAt(o, i)' = LeafAt(o, i)
    BY <1>1, LeafStays DEF TreeIsPrefix
  <2>2. tree[r][o] # <<>> => Len(tree[r][o]) - 1 \in 0..(Len(tree[r][o]) - 1)
    BY DEF TreeTypeOK, Leaves
  <2>. QED  BY <1>1, <2>1, <2>2 DEF TreeIsPrefix
<1>7. RootsKept'
  BY <1>1 DEF RootsKept, RootKept, Here, PoolOf
<1>. QED  BY <1>1, <1>3, <1>4, <1>5, <1>6, <1>7

(* A step of the API leaves the log alone, so what is faithful stays so.     *)
LEMMA SameTable ==
    ASSUME TableOK, UNCHANGED table
    PROVE  /\ TableOK'
           /\ \A p \in Pool : \A row \in RootRow : Faithful(p, row) => Faithful(p, row)'
           /\ \A p \in Pool : \A i : Has(p, i) => Has(p, i)' /\ LeafAt(p, i)' = LeafAt(p, i)
<1>1. TableOK' /\ \A p \in Pool : table[p] \subseteq table'[p]
  BY DEF TableOK
<1>. QED  BY <1>1, FaithfulStays, LeafStays

(* Request q stands where it stood, with the same rows and roots.            *)
Unmoved(q) == pc'[q] = pc[q] /\ req'[q] = req[q] /\ rows'[q] = rows[q] /\ newRoots'[q] = newRoots[q]

(* Rows selected by requests that did not move remain rows of the table.     *)
LEMMA SelectedStay ==
    ASSUME TreeInv, UNCHANGED table,
           \A q \in Request : pc'[q] = "append" => Unmoved(q)
    PROVE  RowsSelected'
BY DEF TreeInv, RowsSelected, Unmoved, PoolOf

(* The same for roots put aside and not yet recorded.                        *)
LEMMA PendingStay ==
    ASSUME TreeInv, UNCHANGED table,
           \A q \in Request : pc'[q] = "flush" => Unmoved(q)
    PROVE  RootsPending'
<1>1. ASSUME NEW q \in Request, pc'[q] = "flush", NEW row \in newRoots'[q]
      PROVE  Faithful(PoolOf(q), row)'
  <2>1. pc[q] = "flush" /\ row \in newRoots[q] /\ PoolOf(q)' = PoolOf(q)
    BY <1>1 DEF Unmoved, PoolOf
  <2>2. PoolOf(q) \in Pool /\ row \in RootRow /\ Faithful(PoolOf(q), row)
    BY <2>1, ActiveQuery DEF TreeInv, RootsPending, TreeTypeOK
  <2>3. PICK o \in Pool : o = PoolOf(q) /\ o = PoolOf(q)'
    BY <2>1, <2>2
  <2>4. Faithful(o, row)'
    BY <2>2, <2>3, SameTable DEF TreeInv
  <2>. QED  BY <2>3, <2>4
<1>. QED  BY <1>1 DEF RootsPending

(* One replica's tree of one pool is a prefix of the log.                    *)
IsPrefix(r, p) ==
    /\ \A i \in 0..(Len(tree[r][p]) - 1) :
           Has(p, i) /\ tree[r][p][i + 1] = LeafAt(p, i).cm
    /\ anchored[r][p] = IF tree[r][p] = <<>> THEN 0
                        ELSE LeafAt(p, Len(tree[r][p]) - 1).ledger

(* It stays so while tree and log are not touched.                           *)
LEMMA PrefixStays ==
    ASSUME TreeInv, UNCHANGED table, NEW r \in Replica, NEW p \in Pool,
           tree'[r][p] = tree[r][p], anchored'[r][p] = anchored[r][p]
    PROVE  IsPrefix(r, p)'
<1>1. IsPrefix(r, p)
  BY DEF TreeInv, TreeIsPrefix, IsPrefix
<1>2. \A i \in 0..(Len(tree[r][p]) - 1) : Has(p, i)' /\ LeafAt(p, i)' = LeafAt(p, i)
  BY <1>1, SameTable DEF IsPrefix, TreeInv
<1>3. tree[r][p] # <<>> => Len(tree[r][p]) - 1 \in 0..(Len(tree[r][p]) - 1)
  BY DEF TreeInv, TreeTypeOK, Leaves
<1>. QED  BY <1>1, <1>2, <1>3 DEF IsPrefix

(* Trees, and recorded roots, that are not touched stay right.               *)
LEMMA TreesStay ==
    ASSUME TreeInv, UNCHANGED <<table, tree, anchored>>
    PROVE  TreeIsPrefix'
BY PrefixStays DEF TreeIsPrefix, IsPrefix

(* Recorded roots stay right while log and records are not touched.          *)
LEMMA RecordedStay ==
    ASSUME TreeInv, UNCHANGED <<table, treeRoots>>
    PROVE  TableOK' /\ AllFaithful'
BY SameTable DEF TreeInv, AllFaithful, TreeTypeOK

(* Requests about to record their roots still are: no root is dropped.       *)
LEMMA RootsStay ==
    ASSUME TreeInv, TreeTypeOK', UNCHANGED <<treeRoots, tree, lost>>,
           \A q \in Request : pc[q] = "flush" => Unmoved(q)
    PROVE  RootsKept'
<1>1. ASSUME NEW r \in Replica, NEW p \in Pool, NEW n, RootKept(r, p, n)
      PROVE  RootKept(r, p, n)'
  BY <1>1 DEF RootKept, Unmoved, Here, PoolOf
<1>. QED  BY <1>1 DEF TreeInv, RootsKept

(* Every step of a request before and after the top-up.                      *)
LEMMA QuietKeepsInv ==
    ASSUME TreeInv, NEW q \in Request,
           Arrive(q) \/ LockTrees(q) \/ NothingNew(q) \/ LookUp(q) \/ Finish(q)
    PROVE  TreeInv'
<1>1. TreeTypeOK'
  BY EntryKeepsType, SelectKeepsType, AnswerKeepsType, EndKeepsType DEF TreeInv
<1>2. UNCHANGED <<table, treeRoots, tree, anchored, lost>>
  BY DEF Arrive, LockTrees, NothingNew, LookUp, Finish
<1>3. \A o \in Request :
        pc[o] = "flush" \/ pc'[o] \in {"append", "flush"} => Unmoved(o)
  <2>. USE DEF Unmoved, TreeInv, TreeTypeOK
  <2>1. CASE Arrive(q)
    BY <2>1 DEF Arrive
  <2>2. CASE LockTrees(q)
    BY <2>2 DEF LockTrees
  <2>3. CASE NothingNew(q)
    BY <2>3 DEF NothingNew, Respond
  <2>4. CASE LookUp(q)
    BY <2>4 DEF LookUp
  <2>5. CASE Finish(q)
    BY <2>5 DEF Finish, Forget
  <2>. QED  BY <2>1, <2>2, <2>3, <2>4, <2>5
<1>. QED  BY <1>1, <1>2, <1>3, SelectedStay, PendingStay, TreesStay, RecordedStay, RootsStay
          DEF TreeInv

(* The SELECT returns rows of the log.                                       *)
LEMMA SelectKeepsInv ==
    ASSUME TreeInv, NEW q \in Request, Select(q)
    PROVE  TreeInv'
<1>1. TreeTypeOK'
  BY SelectKeepsType DEF TreeInv
<1>2. UNCHANGED <<table, treeRoots, tree, anchored, lost, req, newRoots>>
  BY DEF Select
<1>3. \A o \in Request : o # q => Unmoved(o)
  BY DEF Select, Unmoved, TreeInv, TreeTypeOK
<1>4. pc[q] = "topup" /\ pc'[q] = "append" /\ rows'[q] \subseteq table[PoolOf(q)]
  BY DEF Select, TreeInv, TreeTypeOK
<1>5. RowsSelected'
  BY <1>2, <1>3, <1>4 DEF RowsSelected, Unmoved, PoolOf, TreeInv
<1>6. RootsPending'
  <2>1. \A o \in Request : pc'[o] = "flush" => Unmoved(o)
    BY <1>3, <1>4
  <2>. QED  BY <1>2, <2>1, PendingStay
<1>7. RootsKept'
  <2>1. \A o \in Request : pc[o] = "flush" => Unmoved(o)
    BY <1>3, <1>4
  <2>. QED  BY <1>1, <1>2, <2>1, RootsStay
<1>. QED  BY <1>1, <1>2, <1>5, <1>6, <1>7, TreesStay, RecordedStay DEF TreeInv

(* Recording: every root put aside is recorded now, by this request or by    *)
(* the one whose row is in the way.                                          *)
LEMMA FlushKeepsInv ==
    ASSUME TreeInv, NEW q \in Request, FlushRoots(q)
    PROVE  TreeInv'
<1>1. TreeTypeOK' /\ TreeTypeOK
  BY AnswerKeepsType DEF TreeInv
<1>2. UNCHANGED <<table, tree, anchored, lost, req, rows>>
  BY DEF FlushRoots
<1>3. \A o \in Request : o # q => Unmoved(o)
  BY <1>1 DEF FlushRoots, Respond, Unmoved, TreeTypeOK
<1>4. pc[q] = "flush" /\ pc'[q] \in {"history", "done"} /\ PoolOf(q) \in Pool
  BY <1>1, ActiveQuery DEF FlushRoots, Respond, TreeTypeOK
<1>5. \A p \in Pool : treeRoots'[p] =
        IF p = PoolOf(q) THEN Recorded(treeRoots[p], newRoots[q]) ELSE treeRoots[p]
  BY <1>1, <1>4 DEF FlushRoots, TreeTypeOK
<1>6. RowsSelected' /\ RootsPending'
  <2>1. \A o \in Request : pc'[o] \in {"append", "flush"} => Unmoved(o)
    BY <1>3, <1>4
  <2>. QED  BY <1>2, <2>1, SelectedStay, PendingStay
<1>7. AllFaithful'
  <2>. SUFFICES ASSUME NEW p \in Pool, NEW row \in treeRoots'[p]
                PROVE  Faithful(p, row)'
    BY DEF AllFaithful
  <2>1. row \in treeRoots[p] \/ (p = PoolOf(q) /\ row \in newRoots[q])
    BY <1>5 DEF Recorded
  <2>2. Faithful(p, row) /\ row \in RootRow
    BY <2>1, <1>1, <1>4 DEF TreeInv, AllFaithful, RootsPending, TreeTypeOK
  <2>. QED  BY <1>2, <2>2, SameTable DEF TreeInv
<1>8. TableOK' /\ TreeIsPrefix'
  BY <1>2, SameTable, TreesStay DEF TreeInv
<1>9. RootsKept'
  <2>1. ASSUME NEW r \in Replica, NEW p \in Pool, NEW n, RootKept(r, p, n)
        PROVE  RootKept(r, p, n)'
    <3>1. CASE \E row \in treeRoots[p] : row.count = n
      BY <3>1, <1>5 DEF RootKept, Recorded
    <3>2. ASSUME NEW o \in Request, pc[o] = "flush", Here(o) = r, PoolOf(o) = p,
                 NEW row \in newRoots[o], row.count = n
          PROVE  RootKept(r, p, n)'
      <4>1. CASE o = q
        <5>1. \E old \in treeRoots'[p] : old.count = n
          BY <3>2, <4>1, <1>5 DEF Recorded
        <5>. QED  BY <5>1 DEF RootKept
      <4>2. CASE o # q
        BY <3>2, <4>2, <1>3 DEF RootKept, Unmoved, Here, PoolOf
      <4>. QED  BY <4>1, <4>2
    <3>. QED  BY <2>1, <3>1, <3>2 DEF RootKept
  <2>. QED  BY <1>2, <2>1 DEF RootsKept, TreeInv
<1>. QED  BY <1>1, <1>6, <1>7, <1>8, <1>9 DEF TreeInv

(* A request cut off takes its roots with it, and the replica is marked.     *)
LEMMA CancelKeepsInv ==
    ASSUME TreeInv, NEW q \in Request, Cancel(q)
    PROVE  TreeInv'
<1>1. TreeTypeOK' /\ TreeTypeOK
  BY EndKeepsType DEF TreeInv
<1>2. UNCHANGED <<table, treeRoots, tree, anchored>>
  BY DEF Cancel
<1>3. pc'[q] = "idle" /\ \A o \in Request : o # q => Unmoved(o)
  BY DEF Cancel, Forget, Unmoved
<1>4. Here(q) \in Replica /\ PoolOf(q) \in Pool
  BY <1>1, ActiveQuery DEF Cancel
<1>5. RootsKept'
  <2>. SUFFICES ASSUME NEW r \in Replica, NEW p \in Pool, ~ lost'[r][p],
                       NEW n \in 1..Len(tree[r][p])
                PROVE  RootKept(r, p, n)'
    BY <1>2 DEF RootsKept
  <2>1. ~ lost[r][p] /\ ~ (Here(q) = r /\ PoolOf(q) = p /\ pc[q] = "flush")
    <3>1. PICK h \in Replica, d \in Pool : h = Here(q) /\ d = PoolOf(q)
      BY <1>4
    <3>2. lost' = [lost EXCEPT ![h][d] = lost[h][d] \/ pc[q] = "flush"]
      BY <3>1 DEF Cancel
    <3>3. lost'[r][p] = IF h = r /\ d = p THEN lost[r][p] \/ pc[q] = "flush" ELSE lost[r][p]
      BY <1>1, <3>2 DEF TreeTypeOK
    <3>. QED  BY <3>1, <3>3
  <2>2. RootKept(r, p, n)
    BY <2>1 DEF TreeInv, RootsKept
  <2>3. CASE \E row \in treeRoots[p] : row.count = n
    BY <2>3, <1>2 DEF RootKept
  <2>4. ASSUME NEW o \in Request, pc[o] = "flush", Here(o) = r, PoolOf(o) = p,
               NEW row \in newRoots[o], row.count = n
        PROVE  RootKept(r, p, n)'
    <3>1. o # q
      BY <2>1, <2>4
    <3>. QED  BY <1>3, <2>4, <3>1 DEF RootKept, Unmoved, Here, PoolOf
  <2>. QED  BY <2>2, <2>3, <2>4 DEF RootKept
<1>. QED  BY <1>1, <1>2, <1>3, <1>5, SelectedStay, PendingStay, TreesStay, RecordedStay
          DEF TreeInv

(* A replica that restarts has empty trees and nothing to record.            *)
LEMMA RestartKeepsInv ==
    ASSUME TreeInv, NEW r \in Replica, Restart(r)
    PROVE  TreeInv'
<1>1. TreeTypeOK' /\ TreeTypeOK
  BY EndKeepsType DEF TreeInv
<1>2. UNCHANGED <<table, treeRoots>>
  BY DEF Restart
<1>3. \A o \in Request : /\ pc'[o] # "idle" => Unmoved(o)
                         /\ pc[o] # "idle" /\ Here(o) # r => Unmoved(o)
  BY DEF Restart, Forget, Unmoved
<1>4. \A s \in Replica, p \in Pool :
        IF s = r THEN tree'[s][p] = <<>> /\ anchored'[s][p] = 0
        ELSE tree'[s][p] = tree[s][p] /\ anchored'[s][p] = anchored[s][p]
             /\ lost'[s][p] = lost[s][p]
  BY <1>1 DEF Restart, TreeTypeOK
<1>5. TreeIsPrefix'
  <2>1. ASSUME NEW p \in Pool PROVE IsPrefix(r, p)'
    <3>1. tree'[r][p] = <<>> /\ anchored'[r][p] = 0
      BY <1>4
    <3>2. Len(tree'[r][p]) - 1 = 0 - 1
      BY <3>1
    <3>3. ~ \E i \in 0..(0 - 1) : TRUE
      OBVIOUS
    <3>. QED  BY <3>1, <3>2, <3>3 DEF IsPrefix
  <2>2. ASSUME NEW s \in Replica, NEW p \in Pool, s # r PROVE IsPrefix(s, p)'
    BY <1>2, <1>4, <2>2, PrefixStays
  <2>3. \A s \in Replica, p \in Pool : IsPrefix(s, p)'
    BY <2>1, <2>2
  <2>. QED  BY <2>3 DEF TreeIsPrefix, IsPrefix
<1>6. RootsKept'
  <2>. SUFFICES ASSUME NEW s \in Replica, NEW p \in Pool, ~ lost'[s][p],
                       NEW n \in 1..Len(tree'[s][p])
                PROVE  RootKept(s, p, n)'
    BY DEF RootsKept
  <2>1. s # r
    <3>1. Len(tree'[r][p]) = 0 /\ ~ \E m \in 1..0 : TRUE
      BY <1>4
    <3>. QED  BY <3>1
  <2>2. RootKept(s, p, n)
    BY <1>4, <2>1 DEF TreeInv, RootsKept
  <2>. QED  BY <1>2, <1>3, <2>1, <2>2 DEF RootKept, Unmoved, Here, PoolOf
<1>. QED  BY <1>1, <1>2, <1>3, <1>5, <1>6, SelectedStay, PendingStay, RecordedStay
          DEF TreeInv

-----------------------------------------------------------------------------
(* The top-up: the step that extends a tree.                                 *)
LEMMA TopUpKeepsInv ==
    ASSUME TreeInv, NEW q \in Request, TopUp(q)
    PROVE  TreeInv'
<1>1. TreeTypeOK' /\ TreeTypeOK /\ TableOK /\ RowsSelected /\ pc[q] = "append"
  BY TopUpKeepsType DEF TreeInv, TopUp
<1>. PICK r \in Replica : r = Here(q)
  BY <1>1, ActiveQuery
<1>. PICK p \in Pool : p = PoolOf(q)
  BY <1>1, ActiveQuery
<1>. PICK k \in Nat : k = Len(Cached(q)) /\ Cached(q) = tree[r][p] /\ k = Len(tree[r][p])
  BY <1>1, ActiveQuery DEF Cached
<1>. PICK n \in (Len(Cached(q)) + 1)..MaxLeaves :
        /\ \A i \in (Len(Cached(q)) + 1)..n : ~ Stuck(q, i - 1)
        /\ tree' = [tree EXCEPT ![Here(q)][PoolOf(q)] = UpTo(q, n)]
        /\ \E l \in {RowFor(q, i).ledger : i \in (Len(Cached(q)) + 1)..n}
                      \cup {anchored[Here(q)][PoolOf(q)]} :
             /\ \A m \in {RowFor(q, i).ledger : i \in (Len(Cached(q)) + 1)..n}
                           \cup {anchored[Here(q)][PoolOf(q)]} : m <= l
             /\ anchored' = [anchored EXCEPT ![Here(q)][PoolOf(q)] = l]
        /\ newRoots' = [newRoots EXCEPT ![q] =
             {RootAfter(q, n, i) : i \in (Len(Cached(q)) + 1)..n}]
  BY DEF TopUp
<1>2. /\ n \in (k + 1)..MaxLeaves
      /\ \A i \in (k + 1)..n : ~ Stuck(q, i - 1)
      /\ tree' = [tree EXCEPT ![r][p] = UpTo(q, n)]
      /\ newRoots' = [newRoots EXCEPT ![q] = {RootAfter(q, n, i) : i \in (k + 1)..n}]
  OBVIOUS
<1>3. n \in Nat /\ n >= 1 /\ n > k
  BY <1>2
<1>4. UNCHANGED <<table, treeRoots, lost, req>> /\ pc'[q] = "flush"
  BY <1>1 DEF TopUp, TreeTypeOK
<1>5. \A o \in Request : o # q => Unmoved(o)
  <2>1. /\ pc' = [pc EXCEPT ![q] = "flush"] /\ rows' = [rows EXCEPT ![q] = {}]
        /\ UNCHANGED req
    BY DEF TopUp
  <2>2. PICK fresh : newRoots' = [newRoots EXCEPT ![q] = fresh]
    BY <1>2, Zenon
  <2>3. \A o \in Request : o # q => newRoots'[o] = newRoots[o]
    BY <1>1, <2>2 DEF TreeTypeOK
  <2>. QED  BY <1>1, <2>1, <2>3 DEF Unmoved, TreeTypeOK
<1>6. /\ tree'[r][p] = UpTo(q, n) /\ Len(tree'[r][p]) = n
      /\ \A s \in Replica, o \in Pool : ~ (s = r /\ o = p) =>
           tree'[s][o] = tree[s][o] /\ anchored'[s][o] = anchored[s][o]
  <2>1. Len(UpTo(q, n)) = n
    BY <1>1, <1>2, <1>3, UpToType
  <2>2. PICK new : new = UpTo(q, n) /\ tree' = [tree EXCEPT ![r][p] = new]
    BY <1>2
  <2>3. PICK l : anchored' = [anchored EXCEPT ![r][p] = l]
    OBVIOUS
  <2>4. tree \in [Replica -> [Pool -> Leaves]] /\ anchored \in [Replica -> [Pool -> Nat]]
    BY <1>1 DEF TreeTypeOK
  <2>5. /\ tree'[r][p] = new
        /\ \A s \in Replica, o \in Pool : ~ (s = r /\ o = p) => tree'[s][o] = tree[s][o]
    BY <2>2, <2>4
  <2>6. \A s \in Replica, o \in Pool : ~ (s = r /\ o = p) => anchored'[s][o] = anchored[s][o]
    BY <2>3, <2>4
  <2>. QED  BY <2>1, <2>2, <2>5, <2>6
(* Up to the old length the tree is a prefix already; after it, the rows are *)
(* the table's.                                                              *)
<1>7. \A i \in 1..n : /\ Has(p, i - 1) /\ Has(p, i - 1)'
                      /\ LeafAt(p, i - 1)' = LeafAt(p, i - 1)
                      /\ LeafAt(p, i - 1) \in table[p] /\ LeafAt(p, i - 1).leaf = i - 1
                      /\ UpTo(q, n)[i] = LeafAt(p, i - 1).cm
  <2>. SUFFICES ASSUME NEW i \in 1..n
                PROVE  Has(p, i - 1) /\ UpTo(q, n)[i] = LeafAt(p, i - 1).cm
    BY <1>1, <1>4, LeafStays, SameTable
  <2>1. CASE i <= k
    <3>1. i - 1 \in 0..(k - 1) /\ (i - 1) + 1 = i
      BY <2>1, <1>3
    <3>2. Has(p, i - 1) /\ tree[r][p][i] = LeafAt(p, i - 1).cm
      BY <3>1 DEF TreeInv, TreeIsPrefix
    <3>. QED  BY <2>1, <3>2 DEF UpTo
  <2>2. CASE i > k
    <3>1. i \in (k + 1)..n /\ i \in Nat
      BY <2>2, <1>3
    <3>2. Has(p, i - 1) /\ RowFor(q, i) = LeafAt(p, i - 1)
      BY <1>1, <1>2, <3>1, FreshRows
    <3>. QED  BY <2>2, <3>2 DEF UpTo
  <2>. QED  BY <1>3, <2>1, <2>2
(* Ledgers follow leaves, so the last leaf's is the largest: it anchors.     *)
<1>8. /\ \A i \in (k + 1)..n : RowFor(q, i) = LeafAt(p, i - 1)
      /\ \A i \in 1..n : LeafAt(p, i - 1).ledger <= LeafAt(p, n - 1).ledger
      /\ \A i \in 1..n : LeafAt(p, i - 1).ledger \in Nat
  <2>1. \A i \in (k + 1)..n : RowFor(q, i) = LeafAt(p, i - 1)
    <3>1. \A i \in (k + 1)..n : i \in Nat
      OBVIOUS
    <3>. QED  BY <1>1, <1>2, <3>1, FreshRows
  <2>2. \A i \in 1..n : LeafAt(p, i - 1).ledger \in Nat
    <3>1. table[p] \subseteq LeafRow
      BY <1>1 DEF TreeTypeOK
    <3>2. \A row \in LeafRow : row.ledger \in Nat
      BY DEF LeafRow
    <3>. QED  BY <1>7, <3>1, <3>2
  <2>3. ASSUME NEW i \in 1..n
        PROVE  LeafAt(p, i - 1).ledger <= LeafAt(p, n - 1).ledger
    <3>1. CASE i = n
      BY <2>2, <3>1
    <3>2. CASE i # n
      <4>1. n \in 1..n /\ i - 1 < n - 1
        BY <1>3, <3>2
      <4>2. LedgersFollowLeaves(table[p])
        BY <1>1 DEF TableOK
      <4>. QED  BY <1>7, <4>1, <4>2 DEF LedgersFollowLeaves
    <3>. QED  BY <3>1, <3>2
  <2>. QED  BY <2>1, <2>2, <2>3
<1>9. anchored'[r][p] = LeafAt(p, n - 1).ledger
  <2>1. PICK l \in {RowFor(q, i).ledger : i \in (k + 1)..n} \cup {anchored[r][p]} :
          /\ \A m \in {RowFor(q, i).ledger : i \in (k + 1)..n} \cup {anchored[r][p]} : m <= l
          /\ anchored' = [anchored EXCEPT ![r][p] = l]
    OBVIOUS
  <2>2. n \in (k + 1)..n /\ n \in 1..n
    BY <1>3
  <2>3. LeafAt(p, n - 1).ledger <= l
    BY <1>8, <2>1, <2>2
  <2>4. anchored[r][p] \in Nat /\ anchored[r][p] <= LeafAt(p, n - 1).ledger
    <3>1. anchored[r][p] \in Nat
      BY <1>1 DEF TreeTypeOK
    <3>2. CASE tree[r][p] = <<>>
      <4>1. anchored[r][p] = 0
        BY <3>2 DEF TreeInv, TreeIsPrefix
      <4>. QED  BY <1>8, <2>2, <3>1, <4>1
    <3>3. CASE tree[r][p] # <<>>
      <4>1. anchored[r][p] = LeafAt(p, k - 1).ledger
        BY <3>3 DEF TreeInv, TreeIsPrefix
      <4>2. k \in 1..n
        BY <1>1, <1>3, <3>3 DEF TreeTypeOK, Leaves
      <4>. QED  BY <1>8, <3>1, <4>1, <4>2
    <3>. QED  BY <3>2, <3>3
  <2>5. \A i \in (k + 1)..n : i \in 1..n
    BY <1>3
  <2>6. l \in Nat /\ l <= LeafAt(p, n - 1).ledger
    BY <1>8, <2>1, <2>2, <2>4, <2>5
  <2>7. l = LeafAt(p, n - 1).ledger
    BY <1>8, <2>2, <2>3, <2>6
  <2>. QED  BY <1>1, <2>1, <2>7 DEF TreeTypeOK
<1>10. TreeIsPrefix'
  <2>1. IsPrefix(r, p)'
    <3>1. \A i \in 0..(n - 1) : Has(p, i)' /\ tree'[r][p][i + 1] = LeafAt(p, i)'.cm
      <4>. SUFFICES ASSUME NEW i \in 0..(n - 1)
                    PROVE  Has(p, i)' /\ tree'[r][p][i + 1] = LeafAt(p, i)'.cm
        OBVIOUS
      <4>1. PICK j \in 1..n : j = i + 1 /\ j - 1 = i
        BY <1>3
      <4>. QED  BY <1>6, <1>7, <4>1
    <3>2. tree'[r][p] # <<>>
      BY <1>3, <1>6
    <3>3. anchored'[r][p] = LeafAt(p, n - 1)'.ledger
      <4>1. n \in 1..n
        BY <1>3
      <4>. QED  BY <1>7, <1>9, <4>1
    <3>. QED  BY <1>6, <3>1, <3>2, <3>3 DEF IsPrefix
  <2>2. ASSUME NEW s \in Replica, NEW o \in Pool, ~ (s = r /\ o = p) PROVE IsPrefix(s, o)'
    BY <1>4, <1>6, <2>2, PrefixStays
  <2>3. \A s \in Replica, o \in Pool : IsPrefix(s, o)'
    BY <2>1, <2>2
  <2>. QED  BY <2>3 DEF TreeIsPrefix, IsPrefix
(* Each root put aside is that of the log at its leaf count.                 *)
<1>11. \A i \in (k + 1)..n : Faithful(p, RootAfter(q, n, i)) /\ RootAfter(q, n, i) \in RootRow
  <2>. SUFFICES ASSUME NEW i \in (k + 1)..n
                PROVE  Faithful(p, RootAfter(q, n, i)) /\ RootAfter(q, n, i) \in RootRow
    OBVIOUS
  <2>1. RootAfter(q, n, i) \in RootRow
    BY <1>1, <1>2, <1>3, RootAfterType
  <2>2. i \in Nat /\ i >= 1 /\ i <= n
    BY <1>3
  <2>3. UpTo(q, i) = LeavesOf(p, i)
    <3>1. \A j \in 1..i : j \in 1..n
      BY <1>3, <2>2
    <3>2. \A j \in 1..i : UpTo(q, i)[j] = UpTo(q, n)[j]
      BY <3>1 DEF UpTo
    <3>3. \A j \in 1..i : UpTo(q, i)[j] = LeafAt(p, j - 1).cm
      BY <1>7, <3>1, <3>2
    <3>4. DOMAIN UpTo(q, i) = 1..i /\ UpTo(q, i) = [j \in 1..i |-> UpTo(q, i)[j]]
      BY DEF UpTo
    <3>. QED  BY <3>3, <3>4 DEF LeavesOf
  <2>4. \A j \in 0..(i - 1) : Has(p, j)
    <3>. SUFFICES ASSUME NEW j \in 0..(i - 1) PROVE Has(p, j)
      OBVIOUS
    <3>1. PICK m \in 1..n : m = j + 1 /\ m - 1 = j
      BY <1>3, <2>2
    <3>. QED  BY <1>7, <3>1
  <2>5. RowFor(q, i).ledger = LeafAt(p, i - 1).ledger
    BY <1>8
  <2>. QED  BY <2>1, <2>2, <2>3, <2>4, <2>5 DEF Faithful, RootAfter
<1>12. RootsPending'
  <2>1. ASSUME NEW o \in Request, pc'[o] = "flush", o # q, NEW row \in newRoots'[o]
        PROVE  Faithful(PoolOf(o), row)'
    <3>1. pc[o] = "flush" /\ row \in newRoots[o] /\ PoolOf(o)' = PoolOf(o)
      BY <2>1, <1>5 DEF Unmoved, PoolOf
    <3>2. PoolOf(o) \in Pool /\ row \in RootRow /\ Faithful(PoolOf(o), row)
      BY <3>1, <1>1, ActiveQuery DEF TreeInv, RootsPending, TreeTypeOK
    <3>3. PICK c \in Pool : c = PoolOf(o) /\ c = PoolOf(o)'
      BY <3>1, <3>2
    <3>4. Faithful(c, row)'
      BY <1>1, <1>4, <3>2, <3>3, SameTable
    <3>. QED  BY <3>3, <3>4
  <2>2. ASSUME NEW row \in newRoots'[q] PROVE Faithful(PoolOf(q), row)'
    <3>1. newRoots'[q] = {RootAfter(q, n, i) : i \in (k + 1)..n}
      BY <1>1, <1>2 DEF TreeTypeOK
    <3>2. Faithful(p, row) /\ row \in RootRow
      BY <1>11, <3>1
    <3>3. Faithful(p, row)'
      BY <1>1, <1>4, <3>2, SameTable
    <3>4. p = PoolOf(q)'
      BY <1>4 DEF PoolOf
    <3>. QED  BY <3>3, <3>4
  <2>. QED  BY <2>1, <2>2 DEF RootsPending
<1>13. RootsKept'
  <2>. SUFFICES ASSUME NEW s \in Replica, NEW o \in Pool, ~ lost'[s][o],
                       NEW m \in 1..Len(tree'[s][o])
                PROVE  RootKept(s, o, m)'
    BY DEF RootsKept
  <2>1. ASSUME RootKept(s, o, m) PROVE RootKept(s, o, m)'
    <3>1. \A c \in Request : pc[c] = "flush" => Unmoved(c)
      BY <1>1, <1>5
    <3>. QED  BY <1>4, <2>1, <3>1 DEF RootKept, Unmoved, Here, PoolOf
  <2>2. CASE m \in 1..Len(tree[s][o])
    BY <1>4, <2>1, <2>2 DEF TreeInv, RootsKept
  <2>3. CASE m \notin 1..Len(tree[s][o])
    <3>1. s = r /\ o = p
      BY <1>6, <2>3
    <3>2. m \in (k + 1)..n
      BY <1>3, <1>6, <2>3, <3>1
    <3>3. RootAfter(q, n, m) \in newRoots'[q] /\ RootAfter(q, n, m).count = m
      BY <1>1, <1>2, <3>2 DEF TreeTypeOK, RootAfter
    <3>4. Here(q)' = r /\ PoolOf(q)' = p
      BY <1>4 DEF Here, PoolOf
    <3>. QED  BY <1>4, <3>1, <3>3, <3>4 DEF RootKept
  <2>. QED  BY <2>2, <2>3
<1>14. RowsSelected' /\ TableOK' /\ AllFaithful'
  <2>1. \A o \in Request : pc'[o] = "append" => Unmoved(o)
    BY <1>4, <1>5
  <2>. QED  BY <1>4, <2>1, SelectedStay, RecordedStay
<1>. QED  BY <1>1, <1>10, <1>12, <1>13, <1>14 DEF TreeInv

-----------------------------------------------------------------------------
(* Every step, and a step that changes nothing, keeps the invariant.         *)
LEMMA NextKeepsInv == TreeInv /\ [TreeNext]_vars => TreeInv'
<1>. SUFFICES ASSUME TreeInv, [TreeNext]_vars PROVE TreeInv'
  OBVIOUS
<1>1. ASSUME NEW p \in Pool, Index(p) PROVE TreeInv'
  BY <1>1, IndexKeepsInv
<1>2. ASSUME NEW q \in Request, Arrive(q) \/ LockTrees(q) \/ NothingNew(q) \/ LookUp(q) \/ Finish(q)
      PROVE  TreeInv'
  BY <1>2, QuietKeepsInv
<1>3. ASSUME NEW q \in Request, Select(q) PROVE TreeInv'
  BY <1>3, SelectKeepsInv
<1>4. ASSUME NEW q \in Request, TopUp(q) PROVE TreeInv'
  BY <1>4, TopUpKeepsInv
<1>5. ASSUME NEW q \in Request, FlushRoots(q) PROVE TreeInv'
  BY <1>5, FlushKeepsInv
<1>6. ASSUME NEW q \in Request, Cancel(q) PROVE TreeInv'
  BY <1>6, CancelKeepsInv
<1>7. ASSUME NEW r \in Replica, Restart(r) PROVE TreeInv'
  BY <1>7, RestartKeepsInv
<1>8. CASE UNCHANGED vars
  <2>1. /\ UNCHANGED <<table, treeRoots, tree, anchored, lock, lost, faults>>
        /\ UNCHANGED <<pc, req, rows, newRoots, answer, since>>
    BY <1>8 DEF vars, handler
  <2>2. TreeTypeOK'
    BY <2>1 DEF TreeInv, TreeTypeOK
  <2>3. \A q \in Request : Unmoved(q)
    BY <2>1 DEF Unmoved
  <2>. QED  BY <2>1, <2>2, <2>3, SelectedStay, PendingStay, TreesStay, RecordedStay, RootsStay
            DEF TreeInv
<1>9. CASE TreeNext
  BY <1>9, <1>1, <1>2, <1>3, <1>4, <1>5, <1>6, <1>7 DEF TreeNext, Handle
<1>. QED  BY <1>8, <1>9

(* The invariant holds in every reachable state.                             *)
THEOREM TreeInvariance == TreeSpec => []TreeInv
BY InitInv, NextKeepsInv, PTL DEF TreeSpec

(* Variables keep their types (state.rs AppState, migration 0002).           *)
THEOREM TreeTypeCorrect == TreeSpec => []TreeTypeOK
<1>1. TreeInv => TreeTypeOK
  BY DEF TreeInv
<1>. QED  BY <1>1, TreeInvariance, PTL

(* Every replica's tree is a gap-free prefix of the pool's leaves, anchored  *)
(* at its last leaf's ledger, whoever else reads, writes, fails or restarts  *)
(* (sync_pool_tree).                                                         *)
THEOREM TreesArePrefixes == TreeSpec => []TreeIsPrefix
<1>1. TreeInv => TreeIsPrefix
  BY DEF TreeInv
<1>. QED  BY <1>1, TreeInvariance, PTL

(* tree_roots never holds a root that is not the pool's root at that leaf    *)
(* count, nor two of them (sync_pool_tree's INSERT .. DO NOTHING).           *)
THEOREM HistoryIsFaithful == TreeSpec => []HistoryFaithful
<1>1. TreeInv => HistoryFaithful
  BY InvGivesHistory
<1>. QED  BY <1>1, TreeInvariance, PTL

(* A replica none of whose requests was cut off between append and INSERT    *)
(* has recorded every root of its trees (sync_pool_tree).                    *)
THEOREM HistoryIsComplete == TreeSpec => []CleanHistoryComplete
<1>1. TreeInv => CleanHistoryComplete
  BY InvGivesCompleteness
<1>. QED  BY <1>1, TreeInvariance, PTL

-----------------------------------------------------------------------------
(* Answers. A request's SELECT returns every leaf that was there when it     *)
(* came and that the tree lacks (RowsReach), so after the top-up the tree    *)
(* reaches as far; the lock is what makes the recorded roots reach as far    *)
(* before a historical query looks them up (HistoryReady).                   *)

(* A commitment is in the log once, and a lock is with the request that took *)
(* it.                                                                       *)
CommitmentsDiffer == \A p \in Pool : \A a, b \in table[p] : a.cm = b.cm => a = b

LocksHeld ==
    \A q \in Request : pc[q] \in {"topup", "append", "flush"} => lock[Here(q)] = q

RowsReach(q) ==
    \A i \in 0..(since[q] - 1) : i >= Len(Cached(q)) => \E row \in rows[q] : row.leaf = i

HasRoot(p, n) == \E row \in treeRoots[p] : row.count = n
Historical(q) == req[q].ask.kind \in {"at_ledger", "at_leaf_count"}
HistoryReady(q) ==
    /\ Historical(q)
    /\ lost[Here(q)][PoolOf(q)] \/ \A n \in 1..since[q] : HasRoot(PoolOf(q), n)

Answered(q) ==
    /\ answer[q].status = 200 => answer[q].count \in Nat /\ Faithful(PoolOf(q), answer[q])
    /\ req[q].ask.kind = "root" /\ since[q] > 0 =>
          answer[q].status = 200 /\ answer[q].count >= since[q]
    /\ req[q].ask.kind = "path" =>
          \A i \in 0..(since[q] - 1) : LeafAt(PoolOf(q), i).cm = req[q].ask.cm =>
              answer[q].status = 200 /\ answer[q].leaf = i
    /\ Historical(q) =>
          /\ answer[q].status = 200 => Covered(q, answer[q].count)
          /\ lost[Here(q)][PoolOf(q)] \/ CoversArrival(q)

Sound(q) ==
    /\ pc[q] # "idle" => \A i \in 0..(since[q] - 1) : Has(PoolOf(q), i)
    /\ pc[q] # "done" => answer[q] = NotFound
    /\ pc[q] = "append" => RowsReach(q)
    /\ pc[q] = "flush" => Cached(q) # <<>> /\ since[q] <= Len(Cached(q))
    /\ pc[q] = "history" => HistoryReady(q)
    /\ pc[q] = "done" => Answered(q)

(* Every request has an answer, or none yet.                                 *)
Kept == DOMAIN answer = Request /\ CommitmentsDiffer /\ LocksHeld

AnswerInv == Kept /\ \A q \in Request : Sound(q)

(* Request q has not moved, and neither has its answer.                      *)
Still(q) ==
    /\ pc'[q] = pc[q] /\ req'[q] = req[q] /\ rows'[q] = rows[q]
    /\ since'[q] = since[q] /\ answer'[q] = answer[q]

(* What others do to a request meanwhile: the table, the records and its     *)
(* replica's tree grow, and the replica may drop rows.                       *)
Grown(q) ==
    /\ \A p \in Pool : table[p] \subseteq table'[p]
    /\ treeRoots[PoolOf(q)] \subseteq treeRoots'[PoolOf(q)]
    /\ Len(tree[Here(q)][PoolOf(q)]) <= Len(tree'[Here(q)][PoolOf(q)])
    /\ lost[Here(q)][PoolOf(q)] => lost'[Here(q)][PoolOf(q)]

(* So what is said of a request that does not move stays true.              *)
LEMMA SoundStays ==
    ASSUME TreeInv, TreeInv', NEW q \in Request, Sound(q), Still(q), Grown(q),
           pc[q] # "idle"
    PROVE  Sound(q)'
<1>1. /\ TreeTypeOK /\ TreeTypeOK' /\ TableOK /\ TableOK'
      /\ since[q] \in Nat /\ since'[q] = since[q]
  BY DEF TreeInv, TreeTypeOK, Still
<1> PICK p \in Pool : p = PoolOf(q) /\ p = PoolOf(q)'
  BY <1>1, ActiveQuery DEF PoolOf, Still
<1> PICK r \in Replica : r = Here(q) /\ r = Here(q)'
  BY <1>1, ActiveQuery DEF Here, Still
<1>2. /\ \A i \in 0..(since[q] - 1) : Has(p, i)
      /\ table[p] \subseteq table'[p] /\ treeRoots[p] \subseteq treeRoots'[p]
      /\ Len(tree[r][p]) <= Len(tree'[r][p]) /\ (lost[r][p] => lost'[r][p])
      /\ Len(tree[r][p]) \in Nat /\ Len(tree'[r][p]) \in Nat
  BY <1>1 DEF Sound, Grown, TreeTypeOK, Leaves
<1>3. \A i : Has(p, i) => Has(p, i)' /\ LeafAt(p, i)' = LeafAt(p, i)
  BY <1>1, <1>2, LeafStays
<1>4. \A i \in 0..(since[q] - 1) : Has(p, i)' /\ LeafAt(p, i)' = LeafAt(p, i)
  BY <1>2, <1>3
<1>5. \A n : HasRoot(p, n) => HasRoot(p, n)'
  BY <1>2 DEF HasRoot
<1>6. ASSUME pc[q] = "append"
      PROVE  RowsReach(q)'
  <2>1. RowsReach(q)
    BY <1>6 DEF Sound
  <2>2. rows'[q] = rows[q] /\ Cached(q) = tree[r][p] /\ Cached(q)' = tree'[r][p]
    BY DEF Still, Cached
  <2>3. SUFFICES ASSUME NEW i \in 0..(since[q] - 1), i >= Len(tree'[r][p])
                 PROVE  \E row \in rows[q] : row.leaf = i
    BY <1>1, <2>2 DEF RowsReach
  <2>4. i >= Len(tree[r][p])
    BY <1>1, <1>2, <2>3
  <2> QED BY <2>1, <2>2, <2>3, <2>4 DEF RowsReach
<1>7. ASSUME pc[q] = "flush"
      PROVE  Cached(q)' # <<>> /\ since'[q] <= Len(Cached(q)')
  <2>1. tree[r][p] # <<>> /\ since[q] <= Len(tree[r][p])
    BY <1>7 DEF Sound, Cached
  <2>2. Cached(q)' = tree'[r][p]
    BY DEF Cached
  <2>3. Len(tree[r][p]) > 0
    BY <1>1, <2>1 DEF TreeTypeOK, Leaves
  <2>4. tree'[r][p] # <<>>
    BY <1>2, <2>3
  <2> QED BY <1>1, <1>2, <2>1, <2>2, <2>4
<1>8. ASSUME pc[q] = "history"
      PROVE  HistoryReady(q)'
  <2>1. HistoryReady(q)
    BY <1>8 DEF Sound
  <2> QED BY <1>1, <1>2, <1>5, <2>1 DEF HistoryReady, Historical, Still
<1>9. ASSUME pc[q] = "done"
      PROVE  Answered(q)'
  <2>1. Answered(q)
    BY <1>9 DEF Sound
  <2>2. answer'[q] = answer[q] /\ req'[q] = req[q]
    BY DEF Still
  <2> PICK a : a = answer[q] /\ a = answer'[q]
    BY <2>2
  <2>3. a.status = 200 => a.count \in Nat /\ Faithful(p, a) /\ Faithful(p, a)'
    BY <1>1, <1>2, <2>1, FaithfulLasts DEF Answered
  <2>4. \A n \in 1..since[q] : Covered(q, n)' <=> Covered(q, n)
    <3> SUFFICES ASSUME NEW n \in 1..since[q]
                 PROVE  Covered(q, n)' <=> Covered(q, n)
      OBVIOUS
    <3>1. n - 1 \in 0..(since[q] - 1)
      BY <1>1
    <3>2. LeafAt(p, n - 1)' = LeafAt(p, n - 1)
      BY <1>4, <3>1
    <3> QED BY <2>2, <3>2 DEF Covered
  <2>5. a.status = 200 /\ Covered(q, a.count) => Covered(q, a.count)'
    <3> SUFFICES ASSUME a.status = 200, Covered(q, a.count)
                 PROVE  Covered(q, a.count)'
      OBVIOUS
    <3> PICK n : n = a.count
      OBVIOUS
    <3>1. Has(p, n - 1)
      <4>1. n \in Nat /\ n >= 1 /\ \A i \in 0..(n - 1) : Has(p, i)
        BY <2>3 DEF Faithful
      <4> QED BY <4>1
    <3>2. LeafAt(p, n - 1)' = LeafAt(p, n - 1)
      BY <1>3, <3>1
    <3> QED BY <2>2, <3>2 DEF Covered
  <2>6. CoversArrival(q) => CoversArrival(q)'
    BY <1>1, <2>2, <2>4 DEF CoversArrival
  <2> QED
    BY <1>1, <1>2, <1>4, <2>1, <2>2, <2>3, <2>5, <2>6 DEF Answered, Historical
<1> QED BY <1>1, <1>4, <1>6, <1>7, <1>8, <1>9 DEF Sound, Still

(* At the start nobody has asked.                                            *)
LEMMA AnswersInit == TreeInit => AnswerInv
<1> SUFFICES ASSUME TreeInit PROVE AnswerInv
  OBVIOUS
<1> USE DEF TreeInit, Init
<1>1. DOMAIN answer = Request /\ CommitmentsDiffer /\ LocksHeld
  BY DEF CommitmentsDiffer, LocksHeld
<1>2. \A q \in Request : pc[q] = "idle" /\ answer[q] = NotFound
  OBVIOUS
<1> QED BY <1>1, <1>2 DEF AnswerInv, Kept, Sound

(* A top-up makes the tree longer, as far as the rows go without a gap.      *)
LEMMA TopUpExtends ==
    ASSUME TreeInv, NEW q \in Request, TopUp(q)
    PROVE  \E n \in Nat :
               /\ n > Len(Cached(q)) /\ Stuck(q, n) /\ Len(UpTo(q, n)) = n
               /\ tree' = [tree EXCEPT ![Here(q)][PoolOf(q)] = UpTo(q, n)]
<1>1. TreeTypeOK /\ TableOK /\ RowsSelected /\ pc[q] = "append"
  BY DEF TreeInv, TopUp
<1>2. Len(Cached(q)) \in Nat
  BY <1>1, ActiveQuery
<1>3. PICK n \in (Len(Cached(q)) + 1)..MaxLeaves :
        /\ \A i \in (Len(Cached(q)) + 1)..n : ~ Stuck(q, i - 1)
        /\ Stuck(q, n)
        /\ tree' = [tree EXCEPT ![Here(q)][PoolOf(q)] = UpTo(q, n)]
  BY DEF TopUp
<1>4. n \in Nat /\ n > Len(Cached(q))
  BY <1>2
<1>5. Len(UpTo(q, n)) = n
  BY <1>1, <1>3, <1>4, UpToType
<1> QED BY <1>3, <1>4, <1>5

(* The lock of a replica is with one of its requests at a time.              *)
LEMMA LocksStayHeld ==
    ASSUME TreeTypeOK, TreeTypeOK', LocksHeld, NEW q \in Request,
           \/ Arrive(q) \/ LockTrees(q) \/ Select(q) \/ NothingNew(q) \/ TopUp(q)
           \/ FlushRoots(q) \/ LookUp(q) \/ Finish(q) \/ Cancel(q)
    PROVE  LocksHeld'
<1> USE DEF LocksHeld, TreeTypeOK, Here
<1>0. pc[q] # "idle" => Here(q) \in Replica
  BY ActiveQuery
<1>1. CASE Arrive(q)
  BY <1>1 DEF Arrive
<1>2. CASE LockTrees(q)
  BY <1>0, <1>2 DEF LockTrees
<1>3. CASE Select(q)
  BY <1>3 DEF Select
<1>4. CASE NothingNew(q) \/ FlushRoots(q)
  <2>1. /\ pc[q] \in {"append", "flush"} /\ UNCHANGED req
        /\ lock' = [lock EXCEPT ![Here(q)] = NoRequest]
        /\ pc' = [pc EXCEPT ![q] = "done"] \/ pc' = [pc EXCEPT ![q] = "history"]
    BY <1>4 DEF NothingNew, FlushRoots, Respond
  <2>2. Here(q) \in Replica /\ lock[Here(q)] = q
    BY <1>0, <2>1
  <2> SUFFICES ASSUME NEW o \in Request, pc'[o] \in {"topup", "append", "flush"}
               PROVE  lock'[Here(o)] = o
    BY <2>1
  <2>3. o # q /\ pc[o] = pc'[o]
    BY <2>1
  <2>4. lock[Here(o)] = o /\ Here(o) # Here(q)
    BY <2>2, <2>3
  <2> QED BY <2>1, <2>4
<1>5. CASE TopUp(q)
  <2>1. /\ pc[q] = "append" /\ pc' = [pc EXCEPT ![q] = "flush"] /\ UNCHANGED <<lock, req>>
    BY <1>5 DEF TopUp
  <2> QED BY <2>1
<1>6. CASE LookUp(q)
  BY <1>6 DEF LookUp
<1>7. CASE Finish(q)
  BY <1>7 DEF Finish, Forget
<1>8. CASE Cancel(q)
  BY <1>0, <1>8 DEF Cancel, Forget, Released
<1> QED BY <1>1, <1>2, <1>3, <1>4, <1>5, <1>6, <1>7, <1>8

(* Hence every step keeps these.                                             *)
LEMMA KeptByRequests ==
    ASSUME TreeInv, TreeInv', Kept, NEW q \in Request,
           \/ Arrive(q) \/ LockTrees(q) \/ Select(q) \/ NothingNew(q) \/ TopUp(q)
           \/ FlushRoots(q) \/ LookUp(q) \/ Finish(q) \/ Cancel(q)
    PROVE  Kept' /\ UNCHANGED table
<1>1. LocksHeld'
  BY LocksStayHeld DEF TreeInv, Kept
<1>2. UNCHANGED table
  BY DEF Arrive, LockTrees, Select, NothingNew, TopUp, FlushRoots, LookUp, Finish, Cancel
<1>3. DOMAIN answer' = Request
  BY DEF Kept, Arrive, LockTrees, Select, NothingNew, TopUp, FlushRoots, LookUp, Finish,
         Cancel, Respond, Forget
<1> QED BY <1>1, <1>2, <1>3 DEF Kept, CommitmentsDiffer

(* The indexer stores no commitment twice.                                   *)
LEMMA KeptByIndex ==
    ASSUME TreeInv, Kept, NEW p \in Pool, Index(p)
    PROVE  Kept'
<1>1. PICK row \in LeafRow : InsertRow(p, row)
  BY DEF Index
<1>2. /\ table' = [table EXCEPT ![p] = @ \cup {row}]
      /\ \A s \in table[p] : s.cm # row.cm
  BY <1>1 DEF InsertRow, Conflicts
<1>3. \A o \in Pool : table'[o] = IF o = p THEN table[p] \cup {row} ELSE table[o]
  BY <1>2 DEF TreeInv, TreeTypeOK
<1>4. CommitmentsDiffer'
  BY <1>2, <1>3 DEF Kept, CommitmentsDiffer
<1> QED BY <1>4 DEF Kept, LocksHeld, Index, handler, Here

(* A replica that goes down frees its lock along with its requests.          *)
LEMMA KeptByRestart ==
    ASSUME TreeInv, Kept, NEW r \in Replica, Restart(r)
    PROVE  Kept'
<1>1. LocksHeld'
  BY DEF Kept, LocksHeld, Restart, Forget, Here, TreeInv, TreeTypeOK
<1>2. CommitmentsDiffer' /\ DOMAIN answer' = Request
  BY DEF Kept, CommitmentsDiffer, Restart, Forget
<1> QED BY <1>1, <1>2 DEF Kept

-----------------------------------------------------------------------------
(* A step of one request, seen by another.                                   *)
LEMMA OthersStill ==
    ASSUME TreeInv, TreeInv', Kept, NEW q \in Request,
           \/ Arrive(q) \/ LockTrees(q) \/ Select(q) \/ NothingNew(q) \/ TopUp(q)
           \/ FlushRoots(q) \/ LookUp(q) \/ Finish(q) \/ Cancel(q),
           NEW o \in Request, o # q
    PROVE  Still(o)
<1> USE DEF Still, TreeInv, TreeTypeOK, Kept
<1>1. CASE Arrive(q)
  BY <1>1 DEF Arrive
<1>2. CASE LockTrees(q)
  BY <1>2 DEF LockTrees
<1>3. CASE Select(q)
  <2>1. /\ pc' = [pc EXCEPT ![q] = "append"]
        /\ rows' = [rows EXCEPT ![q] = rows'[q]] /\ UNCHANGED <<req, answer, since>>
    BY <1>3 DEF Select
  <2> QED BY <2>1
<1>4. CASE NothingNew(q) \/ FlushRoots(q)
  <2>1. /\ rows' = [rows EXCEPT ![q] = {}] \/ UNCHANGED rows
        /\ UNCHANGED <<req, since>>
        /\ pc' = [pc EXCEPT ![q] = "done"] \/ pc' = [pc EXCEPT ![q] = "history"]
    BY <1>4 DEF NothingNew, FlushRoots, Respond
  <2>2. \/ UNCHANGED answer \/ answer' = [answer EXCEPT ![q] = Found(CurrentRoot(q))]
        \/ answer' = [answer EXCEPT ![q] = PathOf(q)]
    BY <1>4 DEF NothingNew, FlushRoots, Respond
  <2>3. answer'[o] = answer[o]
    BY <2>2
  <2> QED BY <2>1, <2>3
<1>5. CASE TopUp(q)
  <2>1. /\ pc' = [pc EXCEPT ![q] = "flush"] /\ rows' = [rows EXCEPT ![q] = {}]
        /\ UNCHANGED <<req, answer, since>>
    BY <1>5 DEF TopUp
  <2> QED BY <2>1
<1>6. CASE LookUp(q)
  BY <1>6 DEF LookUp
<1>7. CASE Finish(q) \/ Cancel(q)
  BY <1>7 DEF Finish, Cancel, Forget
<1> QED BY <1>1, <1>2, <1>3, <1>4, <1>5, <1>6, <1>7

(* Nothing a request counts on shrinks.                                      *)
LEMMA OthersGrow ==
    ASSUME TreeInv, TreeInv', NEW q \in Request,
           \/ Arrive(q) \/ LockTrees(q) \/ Select(q) \/ NothingNew(q) \/ TopUp(q)
           \/ FlushRoots(q) \/ LookUp(q) \/ Finish(q) \/ Cancel(q),
           NEW o \in Request, pc[o] # "idle"
    PROVE  Grown(o)
<1> PICK r \in Replica : r = Here(o)
  BY ActiveQuery DEF TreeInv
<1> PICK p \in Pool : p = PoolOf(o)
  BY ActiveQuery DEF TreeInv
<1>1. UNCHANGED table
  BY DEF Arrive, LockTrees, Select, NothingNew, TopUp, FlushRoots, LookUp, Finish, Cancel
<1>2. treeRoots[p] \subseteq treeRoots'[p]
  <2>1. CASE FlushRoots(q)
    BY <2>1 DEF FlushRoots, Recorded, TreeInv, TreeTypeOK
  <2>2. UNCHANGED treeRoots \/ FlushRoots(q)
    BY DEF Arrive, LockTrees, Select, NothingNew, TopUp, LookUp, Finish, Cancel
  <2> QED BY <2>1, <2>2
<1>3. Len(tree[r][p]) <= Len(tree'[r][p])
  <2>0. Len(tree[r][p]) \in Nat
    BY DEF TreeInv, TreeTypeOK, Leaves
  <2>1. CASE TopUp(q)
    <3>1. PICK n \in Nat :
            /\ n > Len(Cached(q)) /\ Len(UpTo(q, n)) = n
            /\ tree' = [tree EXCEPT ![Here(q)][PoolOf(q)] = UpTo(q, n)]
      BY <2>1, TopUpExtends
    <3>2. Here(q) \in Replica /\ PoolOf(q) \in Pool
      BY <2>1, ActiveQuery DEF TreeInv, TopUp
    <3>3. CASE Here(q) = r /\ PoolOf(q) = p
      BY <2>0, <3>1, <3>3 DEF Cached, TreeInv, TreeTypeOK
    <3>4. CASE ~ (Here(q) = r /\ PoolOf(q) = p)
      <4>1. tree'[r][p] = tree[r][p]
        BY <3>1, <3>2, <3>4 DEF TreeInv, TreeTypeOK
      <4> QED BY <2>0, <4>1
    <3> QED BY <3>3, <3>4
  <2>2. UNCHANGED tree \/ TopUp(q)
    BY DEF Arrive, LockTrees, Select, NothingNew, FlushRoots, LookUp, Finish, Cancel
  <2> QED BY <2>0, <2>1, <2>2
<1>4. lost[r][p] => lost'[r][p]
  <2>1. CASE Cancel(q)
    <3>1. Here(q) \in Replica /\ PoolOf(q) \in Pool
      BY <2>1, ActiveQuery DEF TreeInv, Cancel
    <3> QED BY <2>1, <3>1 DEF Cancel, TreeInv, TreeTypeOK
  <2>2. UNCHANGED lost \/ Cancel(q)
    BY DEF Arrive, LockTrees, Select, NothingNew, TopUp, FlushRoots, LookUp, Finish
  <2> QED BY <2>1, <2>2
<1> QED BY <1>1, <1>2, <1>3, <1>4 DEF Grown

(* A request waiting to be taken up has no answer and asks nothing, so there *)
(* is little to keep.                                                        *)
LEMMA IdleSound ==
    ASSUME NEW q \in Request, pc'[q] = "idle", answer'[q] = NotFound
    PROVE  Sound(q)'
BY DEF Sound

(* Hence what is said of a request survives the steps of the others.         *)
LEMMA OthersSound ==
    ASSUME TreeInv, TreeInv', Kept, NEW q \in Request,
           \/ Arrive(q) \/ LockTrees(q) \/ Select(q) \/ NothingNew(q) \/ TopUp(q)
           \/ FlushRoots(q) \/ LookUp(q) \/ Finish(q) \/ Cancel(q),
           NEW o \in Request, o # q, Sound(o)
    PROVE  Sound(o)'
<1>1. Still(o)
  BY OthersStill
<1>2. CASE pc[o] = "idle"
  <2>1. pc'[o] = "idle" /\ answer'[o] = NotFound
    BY <1>1, <1>2 DEF Still, Sound
  <2> QED BY <2>1, IdleSound
<1>3. CASE pc[o] # "idle"
  BY <1>1, <1>3, OthersGrow, SoundStays
<1> QED BY <1>2, <1>3

(* The indexer stores a leaf.                                                *)
LEMMA IndexSound ==
    ASSUME TreeInv, TreeInv', NEW p \in Pool, Index(p), NEW o \in Request, Sound(o)
    PROVE  Sound(o)'
<1>1. UNCHANGED <<treeRoots, tree, pc, req, rows, answer, since, lost>>
      /\ \A c \in Pool : table[c] \subseteq table'[c]
  BY IndexKeepsTable DEF TreeInv, handler
<1>2. Still(o)
  BY <1>1 DEF Still
<1>3. CASE pc[o] = "idle"
  <2>1. pc'[o] = "idle" /\ answer'[o] = NotFound
    BY <1>2, <1>3 DEF Still, Sound
  <2> QED BY <2>1, IdleSound
<1>4. CASE pc[o] # "idle"
  <2>1. Len(Cached(o)) \in Nat
    BY <1>4, ActiveQuery DEF TreeInv
  <2>2. Grown(o)
    BY <1>1, <2>1 DEF Grown, Cached
  <2> QED BY <1>2, <1>4, <2>2, SoundStays
<1> QED BY <1>3, <1>4

(* A replica restarts: its requests are gone, the others are not concerned.  *)
LEMMA RestartSound ==
    ASSUME TreeInv, TreeInv', NEW r \in Replica, Restart(r), NEW o \in Request, Sound(o)
    PROVE  Sound(o)'
<1>1. Forget({q \in Request : pc[q] # "idle" /\ Here(q) = r}) /\ UNCHANGED <<table, treeRoots>>
  BY DEF Restart
<1>2. CASE pc[o] # "idle" /\ Here(o) = r
  BY <1>1, <1>2, IdleSound DEF Forget
<1>3. CASE pc[o] = "idle"
  <2>1. pc'[o] = "idle" /\ answer'[o] = NotFound
    BY <1>1, <1>3 DEF Forget, Sound
  <2> QED BY <2>1, IdleSound
<1>4. CASE pc[o] # "idle" /\ Here(o) # r
  <2>1. Still(o)
    BY <1>1, <1>4 DEF Forget, Still
  <2>2. Here(o) \in Replica /\ PoolOf(o) \in Pool /\ Len(Cached(o)) \in Nat
    BY <1>4, ActiveQuery DEF TreeInv
  <2>3. tree'[Here(o)] = tree[Here(o)] /\ lost'[Here(o)] = lost[Here(o)]
    BY <1>4, <2>2 DEF Restart, TreeInv, TreeTypeOK
  <2>4. Grown(o)
    BY <1>1, <2>2, <2>3 DEF Grown, Cached
  <2> QED BY <1>4, <2>1, <2>4, SoundStays
<1> QED BY <1>2, <1>3, <1>4

-----------------------------------------------------------------------------
(* A request's own steps. It arrives, gets the lock, and its SELECT returns  *)
(* all the leaves it must reach.                                             *)
LEMMA ArriveSound ==
    ASSUME TreeInv, NEW q \in Request, Kept, Sound(q), Arrive(q)
    PROVE  Sound(q)'
<1>1. pc'[q] = "lock" /\ answer'[q] = NotFound
  BY DEF Arrive, Sound, TreeInv, TreeTypeOK
<1>2. PICK query \in Query, n \in 0..MaxLeaves :
        /\ GapAt(query.pool, n) /\ req' = [req EXCEPT ![q] = query]
        /\ since' = [since EXCEPT ![q] = n]
  BY DEF Arrive
<1>3. PoolOf(q)' = query.pool /\ since'[q] = n /\ UNCHANGED table
  BY <1>2 DEF Arrive, PoolOf, TreeInv, TreeTypeOK
<1>4. \A i \in 0..(n - 1) : Has(PoolOf(q), i)'
  BY <1>2, <1>3 DEF GapAt, Has
<1> QED BY <1>1, <1>3, <1>4 DEF Sound

(* The leaves a request must reach remain in the table.                      *)
LEMMA ArrivalStays ==
    ASSUME TreeInv, NEW q \in Request, Sound(q), pc[q] # "idle",
           UNCHANGED table, req'[q] = req[q], since'[q] = since[q]
    PROVE  \A i \in 0..(since'[q] - 1) : Has(PoolOf(q), i)'
BY DEF Sound, PoolOf, Has

(* It gets the lock.                                                         *)
LEMMA LockSound ==
    ASSUME TreeInv, NEW q \in Request, Kept, Sound(q), LockTrees(q)
    PROVE  Sound(q)'
<1>1. pc[q] = "lock" /\ pc'[q] = "topup" /\ UNCHANGED <<table, req, since, answer>>
  BY DEF LockTrees, TreeInv, TreeTypeOK
<1>2. \A i \in 0..(since'[q] - 1) : Has(PoolOf(q), i)'
  BY <1>1, ArrivalStays
<1> QED BY <1>1, <1>2 DEF Sound

(* It selects.                                                               *)
LEMMA SelectSound ==
    ASSUME TreeInv, NEW q \in Request, Kept, Sound(q), Select(q)
    PROVE  Sound(q)'
<1>1. /\ pc[q] = "topup" /\ pc'[q] = "append" /\ UNCHANGED <<table, req, since, answer, tree>>
      /\ rows'[q] = {row \in table[PoolOf(q)] : row.leaf >= Len(Cached(q))}
  BY DEF Select, TreeInv, TreeTypeOK
<1>2. \A i \in 0..(since'[q] - 1) : Has(PoolOf(q), i)'
  BY <1>1, ArrivalStays
<1>3. RowsReach(q)'
  <2> SUFFICES ASSUME NEW i \in 0..(since[q] - 1), i >= Len(Cached(q))
               PROVE  \E row \in rows'[q] : row.leaf = i
    BY <1>1 DEF RowsReach, Cached, Here, PoolOf
  <2>1. PICK row \in table[PoolOf(q)] : row.leaf = i
    BY <1>1 DEF Sound, Has
  <2> QED BY <1>1, <2>1
<1> QED BY <1>1, <1>2, <1>3 DEF Sound

(* Where the rows stop, the leaves there were on arrival stop at the latest. *)
LEMMA StuckPastArrival ==
    ASSUME NEW q \in Request, RowsReach(q), since[q] \in Nat,
           NEW n \in Nat, n >= Len(Cached(q)), Stuck(q, n)
    PROVE  since[q] <= n
<1> SUFFICES ASSUME n < since[q] PROVE FALSE
  OBVIOUS
<1>1. n \in 0..(since[q] - 1)
  OBVIOUS
<1>2. PICK row \in rows[q] : row.leaf = n
  BY <1>1 DEF RowsReach
<1> QED BY <1>2 DEF Stuck, Fits

(* It tops the tree up.                                                      *)
LEMMA TopUpSound ==
    ASSUME TreeInv, NEW q \in Request, Kept, Sound(q), TopUp(q)
    PROVE  Sound(q)'
<1>1. /\ pc[q] = "append" /\ pc'[q] = "flush" /\ UNCHANGED <<table, req, since, answer>>
      /\ since[q] \in Nat
  BY DEF TopUp, TreeInv, TreeTypeOK
<1>2. \A i \in 0..(since'[q] - 1) : Has(PoolOf(q), i)'
  BY <1>1, ArrivalStays
<1>3. PICK n \in Nat :
        /\ n > Len(Cached(q)) /\ Stuck(q, n) /\ Len(UpTo(q, n)) = n
        /\ tree' = [tree EXCEPT ![Here(q)][PoolOf(q)] = UpTo(q, n)]
  BY TopUpExtends
<1>4. Here(q) \in Replica /\ PoolOf(q) \in Pool /\ Len(Cached(q)) \in Nat
  BY <1>1, ActiveQuery DEF TreeInv
<1>5. since[q] <= n
  BY <1>1, <1>3, <1>4, StuckPastArrival DEF Sound
<1>6. Cached(q)' = UpTo(q, n) /\ UpTo(q, n) # <<>>
  BY <1>1, <1>3, <1>4 DEF Cached, Here, PoolOf, TreeInv, TreeTypeOK
<1> QED BY <1>1, <1>2, <1>3, <1>5, <1>6 DEF Sound

-----------------------------------------------------------------------------
(* Answers given from a tree.                                                *)
LEMMA CurrentRootFaithful ==
    ASSUME TreeInv, NEW q \in Request, pc[q] # "idle", Cached(q) # <<>>
    PROVE  CurrentRoot(q).count \in Nat /\ Faithful(PoolOf(q), CurrentRoot(q))
<1> PICK r \in Replica : r = Here(q)
  BY ActiveQuery DEF TreeInv
<1> PICK p \in Pool : p = PoolOf(q)
  BY ActiveQuery DEF TreeInv
<1> PICK n : n = Len(tree[r][p])
  OBVIOUS
<1>1. Cached(q) = tree[r][p] /\ tree[r][p] \in Seq(Commitment) /\ n \in Nat /\ n >= 1
  BY DEF Cached, TreeInv, TreeTypeOK, Leaves
<1>2. /\ \A i \in 0..(n - 1) : Has(p, i) /\ tree[r][p][i + 1] = LeafAt(p, i).cm
      /\ anchored[r][p] = LeafAt(p, n - 1).ledger
  BY <1>1 DEF TreeInv, TreeIsPrefix
<1>3. \A i \in 1..n : tree[r][p][i] = LeafAt(p, i - 1).cm
  <2> SUFFICES ASSUME NEW i \in 1..n PROVE tree[r][p][i] = LeafAt(p, i - 1).cm
    OBVIOUS
  <2>1. i - 1 \in 0..(n - 1) /\ (i - 1) + 1 = i
    BY <1>1
  <2> QED BY <1>2, <2>1
<1>4. tree[r][p] = LeavesOf(p, n)
  <2>1. tree[r][p] = [i \in 1..n |-> tree[r][p][i]]
    BY <1>1
  <2> QED BY <1>3, <2>1 DEF LeavesOf
<1>5. /\ CurrentRoot(q).count = n /\ CurrentRoot(q).root = tree[r][p]
      /\ CurrentRoot(q).ledger = anchored[r][p]
  BY <1>1 DEF CurrentRoot
<1> QED BY <1>1, <1>2, <1>4, <1>5 DEF Faithful

(* No commitment is in the log twice, so the index found is the leaf's own.  *)
LEMMA PathFindsLeaf ==
    ASSUME TreeInv, CommitmentsDiffer, NEW q \in Request, pc[q] # "idle",
           since[q] <= Len(Cached(q)), NEW i \in 0..(since[q] - 1),
           LeafAt(PoolOf(q), i).cm = req[q].ask.cm
    PROVE  PathOf(q) = FoundPath(CurrentRoot(q), i)
<1> PICK r \in Replica : r = Here(q)
  BY ActiveQuery DEF TreeInv
<1> PICK p \in Pool : p = PoolOf(q)
  BY ActiveQuery DEF TreeInv
<1> PICK n : n = Len(tree[r][p])
  OBVIOUS
<1>1. Cached(q) = tree[r][p] /\ n \in Nat /\ since[q] \in Nat /\ i \in 0..(n - 1)
  BY ActiveQuery DEF Cached, TreeInv, TreeTypeOK
<1>2. \A j \in 0..(n - 1) : Has(p, j) /\ tree[r][p][j + 1] = LeafAt(p, j).cm
  BY DEF TreeInv, TreeIsPrefix
<1>3. \A j \in 0..(n - 1) : LeafAt(p, j) \in table[p] /\ LeafAt(p, j).leaf = j
  BY <1>2, LeafAtIs DEF Has, TreeInv
<1> DEFINE Hit(j) == Cached(q)[j] = req[q].ask.cm
           found == CHOOSE j \in 1..Len(Cached(q)) : Hit(j)
<1>4. i + 1 \in 1..n /\ Hit(i + 1)
  BY <1>1, <1>2
<1>5. PICK k \in 1..n : k = found /\ Hit(k)
  BY <1>1, <1>4
<1>6. k - 1 \in 0..(n - 1) /\ (k - 1) + 1 = k
  BY <1>1
<1>7. LeafAt(p, k - 1).cm = LeafAt(p, i).cm
  BY <1>1, <1>2, <1>5, <1>6
<1>8. LeafAt(p, k - 1) = LeafAt(p, i)
  BY <1>1, <1>3, <1>6, <1>7 DEF CommitmentsDiffer
<1>9. k - 1 = i
  BY <1>1, <1>3, <1>6, <1>8
<1>10. \E j \in 1..Len(Cached(q)) : Cached(q)[j] = req[q].ask.cm
  BY <1>1, <1>4
<1>11. PathOf(q) = FoundPath(CurrentRoot(q), k - 1)
  BY <1>5, <1>10, Zenon DEF PathOf
<1> QED BY <1>9, <1>11

(* What is true of an answer is true of a faithful row given as the answer.  *)
LEMMA FoundFaithful ==
    ASSUME NEW p, NEW row, Faithful(p, row), row.count \in Nat
    PROVE  /\ Faithful(p, Found(row)) /\ Found(row).count = row.count
           /\ \A i : /\ Faithful(p, FoundPath(row, i)) /\ FoundPath(row, i).count = row.count
                     /\ FoundPath(row, i).leaf = i
BY DEF Faithful, Found, FoundPath

(* A handler is done with a tree that reaches as far as it must.             *)
LEMMA RespondSound ==
    ASSUME TreeInv, TreeInv', NEW q \in Request, Kept, Kept', Sound(q),
           pc[q] \in {"append", "flush"}, Respond(q), Cached(q) # <<>>,
           since[q] <= Len(Cached(q)), UNCHANGED <<table, tree, anchored, req, since, lost>>
    PROVE  Sound(q)'
<1> PICK r \in Replica : r = Here(q) /\ r = Here(q)'
  BY ActiveQuery DEF TreeInv, Here
<1> PICK p \in Pool : p = PoolOf(q) /\ p = PoolOf(q)'
  BY ActiveQuery DEF TreeInv, PoolOf
<1>1. \A i \in 0..(since'[q] - 1) : Has(PoolOf(q), i)'
  BY ArrivalStays
<1>2. answer[q] = NotFound /\ since[q] \in Nat /\ since[q] <= Len(tree[r][p])
  BY DEF Sound, TreeInv, TreeTypeOK, Cached
<1>3. ASSUME Historical(q), pc'[q] = "history", UNCHANGED answer
      PROVE  Sound(q)'
  <2>1. ASSUME ~ lost'[r][p], NEW n \in 1..since[q]
        PROVE  HasRoot(p, n)'
    <3>1. n \in 1..Len(tree'[r][p])
      BY <1>2 DEF TreeInv, TreeTypeOK, Leaves
    <3>2. RootKept(r, p, n)'
      BY <2>1, <3>1 DEF TreeInv, RootsKept
    <3>3. \A o \in Request : pc'[o] = "flush" => Here(o)' # r
      BY DEF Kept, LocksHeld, Respond, TreeInv, TreeTypeOK
    <3> QED BY <3>2, <3>3 DEF RootKept, HasRoot
  <2>2. HistoryReady(q)'
    BY <1>3, <2>1 DEF HistoryReady, Historical
  <2> QED BY <1>1, <1>2, <1>3, <2>2 DEF Sound
<1> PICK now : now = CurrentRoot(q)
  OBVIOUS
<1>4. now.count \in Nat /\ Faithful(p, now) /\ now.count = Len(Cached(q))
  BY CurrentRootFaithful DEF CurrentRoot
<1>5. \A a : a.count \in Nat /\ Faithful(p, a) => Faithful(p, a)'
  BY FaithfulLasts DEF TreeInv
<1>6. ASSUME req[q].ask.kind = "root", pc'[q] = "done", answer'[q] = Found(now)
      PROVE  Sound(q)'
  <2> PICK a : a = Found(now) /\ a = answer'[q]
    BY <1>6
  <2>1. a.count \in Nat /\ Faithful(p, a)' /\ a.count = Len(Cached(q)) /\ a.status = 200
    BY <1>4, <1>5, FoundFaithful DEF Found
  <2>2. Answered(q)'
    BY <1>6, <2>1 DEF Answered, Historical
  <2> QED BY <1>1, <1>6, <2>2 DEF Sound
<1>7. ASSUME req[q].ask.kind = "path", pc'[q] = "done", answer'[q] = PathOf(q)
      PROVE  Sound(q)'
  <2> PICK a : a = PathOf(q) /\ a = answer'[q]
    BY <1>7
  <2>1. a.status = 200 => a.count \in Nat /\ Faithful(p, a)'
    <3>1. CASE a = NotFound
      BY <3>1 DEF NotFound
    <3>2. ASSUME NEW i, a = FoundPath(now, i)
          PROVE  a.count \in Nat /\ Faithful(p, a)'
      <4>1. a.count \in Nat /\ Faithful(p, a)
        <5> PICK b : b = FoundPath(now, i)
          OBVIOUS
        <5>1. /\ b.count = now.count /\ b.root = now.root /\ b.ledger = now.ledger
          BY DEF FoundPath
        <5> QED BY <1>4, <3>2, <5>1 DEF Faithful
      <4> QED BY <1>5, <4>1
    <3>3. a = NotFound \/ \E i : a = FoundPath(now, i)
      BY DEF PathOf
    <3> QED BY <3>1, <3>2, <3>3
  <2>2. \A i \in 0..(since'[q] - 1) : LeafAt(p, i)'.cm = req'[q].ask.cm =>
           a.status = 200 /\ a.leaf = i
    <3> SUFFICES ASSUME NEW i \in 0..(since[q] - 1), LeafAt(p, i)'.cm = req[q].ask.cm
                 PROVE  a.status = 200 /\ a.leaf = i
      OBVIOUS
    <3>1. LeafAt(p, i).cm = req[q].ask.cm
      BY DEF LeafAt
    <3>2. a = FoundPath(now, i)
      BY <3>1, PathFindsLeaf DEF Kept
    <3> QED BY <3>2 DEF FoundPath
  <2>3. Answered(q)'
    BY <1>7, <2>1, <2>2 DEF Answered, Historical
  <2> QED BY <1>1, <1>7, <2>3 DEF Sound
<1>8. \/ Historical(q) /\ pc'[q] = "history" /\ UNCHANGED answer
      \/ req[q].ask.kind = "root" /\ pc'[q] = "done" /\ answer'[q] = Found(now)
      \/ req[q].ask.kind = "path" /\ pc'[q] = "done" /\ answer'[q] = PathOf(q)
  BY DEF Respond, Historical, Kept, TreeInv, TreeTypeOK
<1> QED BY <1>3, <1>6, <1>7, <1>8

(* It finds nothing to append.                                               *)
LEMMA NothingNewSound ==
    ASSUME TreeInv, TreeInv', NEW q \in Request, Kept, Kept', Sound(q), NothingNew(q)
    PROVE  Sound(q)'
<1>1. /\ pc[q] = "append" /\ Stuck(q, Len(Cached(q)))
      /\ UNCHANGED <<table, tree, anchored, req, since, lost>>
      /\ Len(Cached(q)) \in Nat /\ since[q] \in Nat
  BY ActiveQuery DEF NothingNew, TreeInv, TreeTypeOK
<1>2. since[q] <= Len(Cached(q))
  BY <1>1, StuckPastArrival DEF Sound
<1>3. CASE Cached(q) # <<>> /\ Respond(q)
  BY <1>1, <1>2, <1>3, RespondSound
<1>4. CASE Cached(q) = <<>> /\ pc' = [pc EXCEPT ![q] = "done"] /\ UNCHANGED answer
  <2>1. pc'[q] = "done" /\ answer'[q] = NotFound /\ NotFound.status # 200 /\ since'[q] = 0
    BY <1>1, <1>2, <1>4 DEF Sound, NotFound, TreeInv, TreeTypeOK
  <2>2. Answered(q)'
    <3>1. (\A n \in 1..0 : FALSE) /\ (\A i \in 0..(0 - 1) : FALSE)
      OBVIOUS
    <3> QED BY <2>1, <3>1 DEF Answered, CoversArrival
  <2>3. \A i \in 0..(since'[q] - 1) : Has(PoolOf(q), i)'
    BY <1>1, ArrivalStays
  <2> QED BY <2>1, <2>2, <2>3 DEF Sound
<1> QED BY <1>3, <1>4 DEF NothingNew

(* It records the roots and responds.                                        *)
LEMMA FlushSound ==
    ASSUME TreeInv, TreeInv', NEW q \in Request, Kept, Kept', Sound(q), FlushRoots(q)
    PROVE  Sound(q)'
<1>1. pc[q] = "flush" /\ Respond(q) /\ UNCHANGED <<table, tree, anchored, req, since, lost>>
  BY DEF FlushRoots
<1> QED BY <1>1, RespondSound DEF Sound

(* A point covers a leaf count just when it is at or after its recorded root.*)
LEMMA CoveredIsAtOrBefore ==
    ASSUME NEW q \in Request, NEW p, p = PoolOf(q), NEW row, Faithful(p, row), Historical(q)
    PROVE  Covered(q, row.count) <=> AtOrBefore(row, req[q].ask)
BY DEF Faithful, Covered, AtOrBefore, Historical

(* What a look-up finds is the newest of all the recorded roots it may.      *)
LEMMA LookUpSound ==
    ASSUME TreeInv, TreeInv', NEW q \in Request, Kept, Sound(q), LookUp(q)
    PROVE  Sound(q)'
<1>1. /\ pc[q] = "history" /\ pc'[q] = "done" /\ since[q] \in Nat
      /\ UNCHANGED <<table, treeRoots, req, since, lost>>
  BY DEF LookUp, TreeInv, TreeTypeOK
<1> PICK r \in Replica : r = Here(q) /\ r = Here(q)'
  BY <1>1, ActiveQuery DEF TreeInv, Here
<1> PICK p \in Pool : p = PoolOf(q) /\ p = PoolOf(q)'
  BY <1>1, ActiveQuery DEF TreeInv, PoolOf
<1>2. \A i \in 0..(since'[q] - 1) : Has(PoolOf(q), i)'
  BY <1>1, ArrivalStays
<1>3. answer[q] = NotFound /\ HistoryReady(q) /\ Historical(q)
  BY <1>1 DEF Sound, HistoryReady
<1>4. \A row \in treeRoots[p] : row \in RootRow /\ row.count \in Nat /\ Faithful(p, row)
  BY DEF TreeInv, AllFaithful, TreeTypeOK, RootRow
<1>5. \A n : Covered(q, n)' <=> Covered(q, n)
  BY <1>1 DEF Covered, LeafAt, PoolOf
<1> DEFINE found == {row \in treeRoots[p] : AtOrBefore(row, req[q].ask)}
<1>6. \A row \in treeRoots[p] : row \in found <=> Covered(q, row.count)
  BY <1>3, <1>4, CoveredIsAtOrBefore
<1>7. ASSUME ~ lost[r][p], NEW n \in 1..since[q], Covered(q, n)
      PROVE  \E row \in found : row.count = n
  BY <1>3, <1>6, <1>7 DEF HistoryReady, HasRoot
<1>8. (\A n \in 1..since[q] : \A row : row.count = n => row.count \in Nat)
      /\ NotFound.status # 200
  BY <1>1 DEF NotFound
<1>9. \/ found = {} /\ answer'[q] = NotFound
      \/ \E row \in found : Newest(row, found) /\ answer'[q] = Found(row)
  BY <1>3 DEF LookUp, Kept
<1>10. CASE found = {} /\ answer'[q] = NotFound
  <2>1. lost'[r][p] \/ CoversArrival(q)'
    BY <1>1, <1>5, <1>7, <1>10 DEF CoversArrival
  <2>2. Answered(q)'
    BY <1>1, <1>3, <1>8, <1>10, <2>1 DEF Answered, Historical
  <2> QED BY <1>1, <1>2, <2>2 DEF Sound
<1>11. ASSUME NEW row \in found, Newest(row, found), answer'[q] = Found(row)
       PROVE  Sound(q)'
  <2> PICK a : a = Found(row) /\ a = answer'[q]
    BY <1>11
  <2>1. /\ a.status = 200 /\ a.count = row.count /\ a.root = row.root
        /\ a.ledger = row.ledger
    BY DEF Found
  <2>2. a.count \in Nat /\ Faithful(p, a) /\ Covered(q, a.count)
    BY <1>4, <1>6, <2>1 DEF Faithful
  <2>3. Faithful(p, a)' /\ Covered(q, a.count)'
    BY <1>1, <1>5, <2>2, FaithfulLasts DEF TreeInv
  <2>4. lost'[r][p] \/ CoversArrival(q)'
    <3> SUFFICES ASSUME ~ lost[r][p], NEW n \in 1..since[q], Covered(q, n)
                 PROVE  a.status = 200 /\ a.count >= n
      BY <1>1, <1>5 DEF CoversArrival
    <3>1. PICK other \in found : other.count = n
      BY <1>7
    <3>2. other.count <= row.count
      BY <1>11 DEF Newest
    <3> QED BY <2>1, <2>2, <3>1, <3>2
  <2>5. Answered(q)'
    BY <1>1, <1>3, <2>1, <2>2, <2>3, <2>4 DEF Answered, Historical
  <2> QED BY <1>1, <1>2, <2>5 DEF Sound
<1> QED BY <1>9, <1>10, <1>11

(* An ending leaves nothing to be said of the request.                       *)
LEMMA EndSound ==
    ASSUME NEW q \in Request, Finish(q) \/ Cancel(q)
    PROVE  Sound(q)'
<1>1. Forget({q})
  BY DEF Finish, Cancel
<1> QED BY <1>1, IdleSound DEF Forget

-----------------------------------------------------------------------------
(* A step of a request keeps the whole invariant.                            *)
LEMMA RequestKeepsAnswers ==
    ASSUME TreeInv, TreeInv', AnswerInv, NEW q \in Request,
           \/ Arrive(q) \/ LockTrees(q) \/ Select(q) \/ NothingNew(q) \/ TopUp(q)
           \/ FlushRoots(q) \/ LookUp(q) \/ Finish(q) \/ Cancel(q)
    PROVE  AnswerInv'
<1>1. Kept /\ Kept' /\ Sound(q)
  BY KeptByRequests DEF AnswerInv, Kept
<1>2. Sound(q)'
  BY <1>1, ArriveSound, LockSound, SelectSound, NothingNewSound, TopUpSound, FlushSound,
     LookUpSound, EndSound
<1>3. \A o \in Request : o # q => Sound(o)'
  BY <1>1, OthersSound DEF AnswerInv
<1> QED BY <1>1, <1>2, <1>3 DEF AnswerInv, Kept

(* Every step, and a step that changes nothing, keeps the invariant.         *)
LEMMA NextKeepsAnswers == TreeInv /\ TreeInv' /\ AnswerInv /\ [TreeNext]_vars => AnswerInv'
<1> SUFFICES ASSUME TreeInv, TreeInv', AnswerInv, [TreeNext]_vars PROVE AnswerInv'
  OBVIOUS
<1>1. ASSUME NEW p \in Pool, Index(p) PROVE AnswerInv'
  <2>1. Kept'
    BY <1>1, KeptByIndex DEF AnswerInv, Kept
  <2>2. \A o \in Request : Sound(o)'
    BY <1>1, IndexSound DEF AnswerInv
  <2> QED BY <2>1, <2>2 DEF AnswerInv, Kept
<1>2. ASSUME NEW r \in Replica, Restart(r) PROVE AnswerInv'
  <2>1. Kept'
    BY <1>2, KeptByRestart DEF AnswerInv, Kept
  <2>2. \A o \in Request : Sound(o)'
    BY <1>2, RestartSound DEF AnswerInv
  <2> QED BY <2>1, <2>2 DEF AnswerInv, Kept
<1>3. ASSUME NEW q \in Request,
             Arrive(q) \/ LockTrees(q) \/ Handle(q) \/ Cancel(q)
      PROVE  AnswerInv'
  BY <1>3, RequestKeepsAnswers DEF Handle
<1>4. CASE UNCHANGED vars
  <2>1. /\ UNCHANGED <<table, treeRoots, tree, lock, lost>>
        /\ UNCHANGED <<pc, req, rows, answer, since>>
    BY <1>4 DEF vars, handler
  <2>2. Kept'
    BY <2>1 DEF AnswerInv, Kept, CommitmentsDiffer, LocksHeld, Here
  <2>3. ASSUME NEW o \in Request PROVE Sound(o)'
    <3>1. CASE pc[o] = "idle"
      BY <2>1, <3>1, IdleSound DEF AnswerInv, Sound
    <3>2. CASE pc[o] # "idle"
      <4>1. Len(Cached(o)) \in Nat
        BY <3>2, ActiveQuery DEF TreeInv
      <4>2. Still(o) /\ Grown(o)
        BY <2>1, <4>1 DEF Still, Grown, Cached
      <4> QED BY <3>2, <4>2, SoundStays DEF AnswerInv
    <3> QED BY <3>1, <3>2
  <2> QED BY <2>2, <2>3 DEF AnswerInv, Kept
<1>5. CASE TreeNext
  BY <1>1, <1>2, <1>3, <1>5 DEF TreeNext
<1> QED BY <1>4, <1>5

(* What is said of answers holds in every reachable state.                   *)
THEOREM AnswersInvariance == TreeSpec => []AnswerInv
BY TreeInvariance, AnswersInit, NextKeepsAnswers, PTL DEF TreeSpec

(* A current root or path covers every leaf that was there when the request  *)
(* came, and a commitment among them is found at its own index (get_root,    *)
(* get_path).                                                                *)
THEOREM AnswersAreFresh == TreeSpec => []AnswersFresh
<1>1. AnswerInv => AnswersFresh
  <2> SUFFICES ASSUME AnswerInv, NEW q \in Request, pc[q] = "done"
               PROVE  /\ Done(q, "root") /\ since[q] > 0
                              => answer[q].status = 200 /\ answer[q].count >= since[q]
                      /\ \A i \in 0..(since[q] - 1) :
                             Done(q, "path") /\ LeafAt(PoolOf(q), i).cm = req[q].ask.cm
                                 => answer[q].status = 200 /\ answer[q].leaf = i
    BY DEF AnswersFresh, Done
  <2>1. Answered(q)
    BY DEF AnswerInv, Sound
  <2> QED BY <2>1 DEF Answered, Done
<1> QED BY <1>1, AnswersInvariance, PTL

(* A historical root is of the point asked for or before it, and, of a       *)
(* replica that dropped no rows, reaches it as far as the table did on       *)
(* arrival (get_root).                                                       *)
THEOREM HistoryIsAnswered == TreeSpec => []HistoryAnswers
<1>1. AnswerInv => HistoryAnswers
  <2> SUFFICES ASSUME AnswerInv, NEW q \in Request,
                      Done(q, "at_ledger") \/ Done(q, "at_leaf_count")
               PROVE  /\ answer[q].status = 200 => Covered(q, answer[q].count)
                      /\ lost[Here(q)][PoolOf(q)] \/ CoversArrival(q)
    BY DEF HistoryAnswers
  <2>1. Answered(q) /\ Historical(q)
    BY DEF AnswerInv, Sound, Done, Historical
  <2> QED BY <2>1 DEF Answered
<1> QED BY <1>1, AnswersInvariance, PTL

(* The answers of a report and of its verification are both faithful.        *)
LEMMA ReportsAgree ==
    ASSUME TreeInv, AnswerInv
    PROVE  ReportsDifferWithinLedger
<1> SUFFICES ASSUME NEW g \in Request, NEW v \in Request, Verification(g, v),
                    ~ lost[Here(v)][PoolOf(v)]
             PROVE  /\ answer[v].status = 200 /\ answer[v].count >= answer[g].count
                    /\ \A i \in 1..answer[g].count : answer[v].root[i] = answer[g].root[i]
                    /\ \A n \in answer[g].count..(answer[v].count - 1) :
                           LeafAt(PoolOf(g), n).ledger = answer[g].ledger
  BY DEF ReportsDifferWithinLedger
<1>0. pc[g] = "done" /\ pc[v] = "done"
  BY DEF Verification, Done
<1> PICK p \in Pool : p = PoolOf(g) /\ p = PoolOf(v)
  BY <1>0, ActiveQuery DEF TreeInv, Verification
<1> PICK a, b : a = answer[g] /\ b = answer[v]
  OBVIOUS
<1>1. a.count \in Nat /\ Faithful(p, a) /\ since[v] \in Nat /\ since[v] >= a.count
  BY <1>0 DEF AnswerInv, Sound, Answered, Verification, TreeInv, TreeTypeOK
<1>2. a.count \in 1..since[v] /\ a.ledger = LeafAt(p, a.count - 1).ledger
  BY <1>1 DEF Faithful
<1>3. \A i : Has(p, i) => /\ LeafAt(p, i) \in table[p] /\ LeafAt(p, i).leaf = i
                          /\ LeafAt(p, i).ledger \in Nat
  <2>1. \A row \in table[p] : row.ledger \in Nat
    <3>1. table[p] \subseteq LeafRow
      BY DEF TreeInv, TreeTypeOK
    <3>2. \A row \in LeafRow : row.ledger \in Nat
      BY DEF LeafRow
    <3> QED BY <3>1, <3>2
  <2>2. \A i : Has(p, i) => LeafAt(p, i) \in table[p] /\ LeafAt(p, i).leaf = i
    BY LeafAtIs DEF Has, TreeInv
  <2> QED BY <2>1, <2>2
<1>4. /\ req[v].ask.ledger = a.ledger /\ req[v].ask.kind = "at_ledger" /\ Historical(v)
      /\ a.ledger \in Nat
  BY <1>1, <1>2, <1>3 DEF Verification, Done, Historical, Faithful
<1>5. Covered(v, a.count)
  BY <1>2, <1>4 DEF Covered
<1>6. b.status = 200 /\ b.count >= a.count
  BY <1>0, <1>2, <1>4, <1>5 DEF AnswerInv, Sound, Answered, CoversArrival
<1>7. b.count \in Nat /\ Faithful(p, b) /\ Covered(v, b.count)
  BY <1>0, <1>4, <1>6 DEF AnswerInv, Sound, Answered
<1>8. \A i \in 1..a.count : b.root[i] = a.root[i]
  BY <1>1, <1>6, <1>7 DEF Faithful, LeavesOf
<1>9. ASSUME NEW n \in a.count..(b.count - 1) PROVE LeafAt(p, n).ledger = a.ledger
  <2>1. /\ n \in 0..(b.count - 1) /\ a.count - 1 \in 0..(b.count - 1)
        /\ b.count - 1 \in 0..(b.count - 1) /\ a.count - 1 < n
    BY <1>1, <1>2, <1>7
  <2>2. Has(p, n) /\ Has(p, a.count - 1) /\ Has(p, b.count - 1)
    BY <1>7, <2>1 DEF Faithful
  <2>3. LeafAt(p, a.count - 1).ledger <= LeafAt(p, n).ledger
    BY <1>3, <2>1, <2>2 DEF TreeInv, TableOK, LedgersFollowLeaves
  <2>4. n < b.count - 1 => LeafAt(p, n).ledger <= LeafAt(p, b.count - 1).ledger
    BY <1>3, <2>1, <2>2 DEF TreeInv, TableOK, LedgersFollowLeaves
  <2>5. LeafAt(p, b.count - 1).ledger <= a.ledger
    BY <1>4, <1>7 DEF Covered
  <2>6. n = b.count - 1 \/ n < b.count - 1
    BY <1>7, <2>1
  <2> QED BY <1>2, <1>3, <1>4, <2>2, <2>3, <2>4, <2>5, <2>6
<1> QED BY <1>6, <1>8, <1>9

(* A report verified later at its own ledger meets the same root, or that    *)
(* root extended within the ledger (attesta-disclosure's verify over         *)
(* get_root).                                                                *)
THEOREM ReportsDifferOnlyWithinLedger == TreeSpec => []ReportsDifferWithinLedger
BY TreeInvariance, AnswersInvariance, ReportsAgree, PTL
=============================================================================
