----------------------------- MODULE TreeCache -----------------------------
(***************************************************************************)
(* attesta-api: the commitment trees of routes/tree.rs. Each API replica   *)
(* keeps one Merkle tree per pool in memory, behind one lock, and no other *)
(* process tells it about new leaves: every request for a path or a root   *)
(* first tops the tree up from the `commitments` table, which the indexer  *)
(* (here: the append-only log of LeafLog) goes on writing meanwhile. What  *)
(* a top-up appends it also records, root by root, in the `tree_roots`     *)
(* table that all replicas share, and historical queries are answered from *)
(* that table alone, after the lock is dropped.                            *)
(*                                                                         *)
(* One step per statement: a statement, then everything the handler does   *)
(* up to its next await. A request may end at any await: its statement     *)
(* fails, or its client goes away and the handler's future is dropped.     *)
(* Either way the lock is released, and the leaves it had appended in      *)
(* memory stay.                                                            *)
(*                                                                         *)
(* A root stands for the sequence of leaves it hashes; module Merkle is    *)
(* about the hashing itself.                                               *)
(***************************************************************************)
EXTENDS LeafLog, Sequences, FiniteSets

CONSTANTS
    Replica,      \* API processes
    Request,      \* client requests in flight at the same time
    NoRequest,    \* nobody holds a replica's lock
    NoQuery,      \* an idle request asks nothing
    MaxLeaves,    \* bound: leaves per pool
    MaxFaults     \* bound: requests cut off and replicas restarted

VARIABLES
    treeRoots,    \* table tree_roots: rows [count, root, ledger] per pool
    tree,         \* tree[r][p]: leaves of replica r's tree of pool p
    anchored,     \* anchored[r][p]: PoolTree::anchored_ledger
    lock,         \* lock[r]: the request holding replica r's trees lock
    pc,           \* where each request is
    req,          \* what it asks, of which replica and pool
    rows,         \* rows its SELECT returned
    newRoots,     \* new_roots: rows it has appended and not yet inserted
    answer,       \* its response
    since,        \* history: leaves in the table up to its first gap on arrival
    lost,         \* history: lost[r][p], replica r dropped rows since it started
    faults        \* history: requests cut off and restarts so far

handler == <<pc, req, rows, newRoots, answer, since>>
vars == <<table, treeRoots, tree, anchored, lock, handler, lost, faults>>

ASSUME TreeCacheAssumption ==
    /\ MaxLeaves \in Nat /\ MaxFaults \in Nat
    /\ LeafIndex = 0..(MaxLeaves - 1)
    /\ NoRequest \notin Request

-----------------------------------------------------------------------------
Leaves == Seq(Commitment)
RootRow == [count : Nat, root : Leaves, ledger : Nat]

(* What a client asks: the current root, the root at a ledger, the root at a *)
(* leaf count, or the path of a commitment.                                  *)
Ask ==   [kind : {"root"}]
    \cup [kind : {"at_ledger"}, ledger : Ledger \cup {0}]
    \cup [kind : {"at_leaf_count"}, count : 0..MaxLeaves]
    \cup [kind : {"path"}, cm : Commitment]
Query == [at : Replica, pool : Pool, ask : Ask]

(* A response: 404, or 200 with the root, the leaf count and the ledger it   *)
(* belongs to and, for a path, the leaf index.                               *)
NotFound == [status |-> 404]
Found(row) ==
    [status |-> 200, count |-> row.count, root |-> row.root, ledger |-> row.ledger]
FoundPath(row, i) ==
    [status |-> 200, count |-> row.count, root |-> row.root, ledger |-> row.ledger,
     leaf |-> i]

Has(p, i) == \E row \in table[p] : row.leaf = i
LeafAt(p, i) == CHOOSE row \in table[p] : row.leaf = i

(* Leaves 0..n-1 are in the table and leaf n is not.                         *)
GapAt(p, n) == ~ Has(p, n) /\ \A i \in 0..(n - 1) : Has(p, i)

Here(q) == req[q].at
PoolOf(q) == req[q].pool
Cached(q) == tree[Here(q)][PoolOf(q)]

-----------------------------------------------------------------------------
TreeInit ==
    /\ Init
    /\ treeRoots = [p \in Pool |-> {}]
    /\ tree = [r \in Replica |-> [p \in Pool |-> <<>>]]
    /\ anchored = [r \in Replica |-> [p \in Pool |-> 0]]
    /\ lock = [r \in Replica |-> NoRequest]
    /\ pc = [q \in Request |-> "idle"]
    /\ req = [q \in Request |-> NoQuery]
    /\ rows = [q \in Request |-> {}]
    /\ newRoots = [q \in Request |-> {}]
    /\ answer = [q \in Request |-> NotFound]
    /\ since = [q \in Request |-> 0]
    /\ lost = [r \in Replica |-> [p \in Pool |-> FALSE]]
    /\ faults = 0

(* The indexer, another process, stores one more commitment.                 *)
Index(p) ==
    /\ \E row \in LeafRow : InsertRow(p, row)
    /\ UNCHANGED <<treeRoots, tree, anchored, lock, handler, lost, faults>>

(* A request arrives and queues for the replica's lock.                      *)
Arrive(q) ==
    /\ pc[q] = "idle"
    /\ \E query \in Query, n \in 0..MaxLeaves :
          /\ GapAt(query.pool, n)
          /\ req' = [req EXCEPT ![q] = query]
          /\ since' = [since EXCEPT ![q] = n]
    /\ pc' = [pc EXCEPT ![q] = "lock"]
    /\ UNCHANGED <<table, treeRoots, tree, anchored, lock, rows, newRoots, answer, lost, faults>>

LockTrees(q) ==
    /\ pc[q] = "lock"
    /\ lock[Here(q)] = NoRequest
    /\ lock' = [lock EXCEPT ![Here(q)] = q]
    /\ pc' = [pc EXCEPT ![q] = "topup"]
    /\ UNCHANGED <<table, treeRoots, tree, anchored, req, rows, newRoots, answer, since, lost, faults>>

(* What the handler does with the topped-up tree: a root or a path is        *)
(* answered from it, a historical query drops the lock and goes on.          *)
CurrentRoot(q) ==
    [count |-> Len(Cached(q)), root |-> Cached(q), ledger |-> anchored[Here(q)][PoolOf(q)]]

PathOf(q) ==
    IF \E i \in 1..Len(Cached(q)) : Cached(q)[i] = req[q].ask.cm
    THEN FoundPath(CurrentRoot(q),
                   (CHOOSE i \in 1..Len(Cached(q)) : Cached(q)[i] = req[q].ask.cm) - 1)
    ELSE NotFound

Respond(q) ==
    /\ lock' = [lock EXCEPT ![Here(q)] = NoRequest]
    /\ \/ /\ req[q].ask.kind \in {"at_ledger", "at_leaf_count"}
          /\ pc' = [pc EXCEPT ![q] = "history"]
          /\ UNCHANGED answer
       \/ /\ req[q].ask.kind = "root"
          /\ pc' = [pc EXCEPT ![q] = "done"]
          /\ answer' = [answer EXCEPT ![q] = Found(CurrentRoot(q))]
       \/ /\ req[q].ask.kind = "path"
          /\ pc' = [pc EXCEPT ![q] = "done"]
          /\ answer' = [answer EXCEPT ![q] = PathOf(q)]

(* Variant: a tree once built is taken as complete.                          *)
SelectOnce(q) ==
    /\ pc[q] = "topup"
    /\ rows' = [rows EXCEPT ![q] = IF Cached(q) = <<>> THEN table[PoolOf(q)] ELSE {}]
    /\ pc' = [pc EXCEPT ![q] = "append"]
    /\ UNCHANGED <<table, treeRoots, tree, anchored, lock, req, newRoots, answer, since, lost, faults>>

(* The SELECT of the top-up: the leaves the tree does not have yet, as the   *)
(* table stands now, gaps included.                                          *)
Select(q) ==
    /\ pc[q] = "topup"
    /\ rows' = [rows EXCEPT ![q] = {row \in table[PoolOf(q)] : row.leaf >= Len(Cached(q))}]
    /\ pc' = [pc EXCEPT ![q] = "append"]
    /\ UNCHANGED <<table, treeRoots, tree, anchored, lock, req, newRoots, answer, since, lost, faults>>

(* Variant: rows are appended in order without comparing their leaf index.   *)
FitsUnchecked(q, row, i) ==
    i = Len(Cached(q)) + Cardinality({other \in rows[q] : other.leaf <= row.leaf})

(* Row may become the i-th leaf: there is no gap before it.                  *)
Fits(q, row, i) == row.leaf = i - 1

RowFor(q, i) == CHOOSE row \in rows[q] : Fits(q, row, i)

Stuck(q, n) == ~ \E row \in rows[q] : Fits(q, row, n + 1)

(* Nothing to append. An empty tree is a 404.                                *)
NothingNew(q) ==
    /\ pc[q] = "append"
    /\ Stuck(q, Len(Cached(q)))
    /\ rows' = [rows EXCEPT ![q] = {}]
    /\ \/ Cached(q) # <<>> /\ Respond(q)
       \/ /\ Cached(q) = <<>>
          /\ lock' = [lock EXCEPT ![Here(q)] = NoRequest]
          /\ pc' = [pc EXCEPT ![q] = "done"]
          /\ UNCHANGED answer
    /\ UNCHANGED <<table, treeRoots, tree, anchored, req, newRoots, since, lost, faults>>

(* The rows up to the first gap are appended, which makes n leaves, and      *)
(* their roots are put aside for one INSERT.                                 *)
UpTo(q, n) ==
    [i \in 1..n |-> IF i <= Len(Cached(q)) THEN Cached(q)[i] ELSE RowFor(q, i).cm]

(* Variant: one root for the batch, that of its last leaf.                   *)
RootAfterBatch(q, n, i) ==
    [count |-> i, root |-> UpTo(q, n), ledger |-> RowFor(q, i).ledger]

RootAfter(q, n, i) ==
    [count |-> i, root |-> UpTo(q, i), ledger |-> RowFor(q, i).ledger]

TopUp(q) ==
    /\ pc[q] = "append"
    /\ \E n \in (Len(Cached(q)) + 1)..MaxLeaves :
          LET appended == (Len(Cached(q)) + 1)..n
              ledgers == {RowFor(q, i).ledger : i \in appended} \cup {anchored[Here(q)][PoolOf(q)]}
          IN  /\ \A i \in appended : ~ Stuck(q, i - 1)
              /\ Stuck(q, n)
              /\ tree' = [tree EXCEPT ![Here(q)][PoolOf(q)] = UpTo(q, n)]
              /\ \E l \in ledgers :
                    /\ \A m \in ledgers : m <= l
                    /\ anchored' = [anchored EXCEPT ![Here(q)][PoolOf(q)] = l]
              /\ newRoots' = [newRoots EXCEPT ![q] = {RootAfter(q, n, i) : i \in appended}]
    /\ rows' = [rows EXCEPT ![q] = {}]
    /\ pc' = [pc EXCEPT ![q] = "flush"]
    /\ UNCHANGED <<table, treeRoots, lock, req, answer, since, lost, faults>>

(* Variant: a conflict on one row drops the whole batch.                     *)
RecordedOrNothing(old, new) ==
    IF \E other \in old, row \in new : other.count = row.count THEN old ELSE old \cup new

(* INSERT .. ON CONFLICT (pool, leaf_count) DO NOTHING, one statement for    *)
(* the batch, then the response.                                             *)
Recorded(old, new) == old \cup {row \in new : \A other \in old : other.count # row.count}

FlushRoots(q) ==
    /\ pc[q] = "flush"
    /\ treeRoots' = [treeRoots EXCEPT ![PoolOf(q)] = Recorded(@, newRoots[q])]
    /\ newRoots' = [newRoots EXCEPT ![q] = {}]
    /\ Respond(q)
    /\ UNCHANGED <<table, tree, anchored, req, rows, since, lost, faults>>

(* The newest recorded root at or before the point asked for, or 404.        *)
AtOrBefore(row, ask) ==
    \/ ask.kind = "at_ledger" /\ row.ledger <= ask.ledger
    \/ ask.kind = "at_leaf_count" /\ row.count <= ask.count

(* Variant: ordered by ledger alone.                                         *)
NewestByLedger(row, found) == \A other \in found : other.ledger <= row.ledger

Newest(row, found) == \A other \in found : other.count <= row.count

LookUp(q) ==
    LET found == {row \in treeRoots[PoolOf(q)] : AtOrBefore(row, req[q].ask)}
    IN  /\ pc[q] = "history"
        /\ \/ found = {} /\ UNCHANGED answer
           \/ \E row \in found : /\ Newest(row, found)
                                 /\ answer' = [answer EXCEPT ![q] = Found(row)]
        /\ pc' = [pc EXCEPT ![q] = "done"]
        /\ UNCHANGED <<table, treeRoots, tree, anchored, lock, req, rows, newRoots, since, lost, faults>>

(* Variant: the request is dropped and its handler runs on.                  *)
ForgetQuery(gone) ==
    /\ req' = [q \in Request |-> IF q \in gone THEN NoQuery ELSE req[q]]
    /\ UNCHANGED <<pc, rows, newRoots, answer, since>>

(* The handler's future is gone: so are its local variables and its guard.   *)
Forget(gone) ==
    /\ pc' = [q \in Request |-> IF q \in gone THEN "idle" ELSE pc[q]]
    /\ req' = [q \in Request |-> IF q \in gone THEN NoQuery ELSE req[q]]
    /\ rows' = [q \in Request |-> IF q \in gone THEN {} ELSE rows[q]]
    /\ newRoots' = [q \in Request |-> IF q \in gone THEN {} ELSE newRoots[q]]
    /\ answer' = [q \in Request |-> IF q \in gone THEN NotFound ELSE answer[q]]
    /\ since' = [q \in Request |-> IF q \in gone THEN 0 ELSE since[q]]

Finish(q) ==
    /\ pc[q] = "done"
    /\ Forget({q})
    /\ UNCHANGED <<table, treeRoots, tree, anchored, lock, lost, faults>>

(* Variant: the lock is released by hand, and not on this path.              *)
ReleasedNever(q) == lock

(* The statement the request waits for fails (500), or its client goes away. *)
(* At "flush" the leaves are in the tree and their roots are not recorded.   *)
Released(q) == [lock EXCEPT ![Here(q)] = IF @ = q THEN NoRequest ELSE @]

Cancel(q) ==
    /\ pc[q] \in {"lock", "topup", "append", "flush", "history"}
    /\ faults < MaxFaults
    /\ faults' = faults + 1
    /\ lock' = Released(q)
    /\ lost' = [lost EXCEPT ![Here(q)][PoolOf(q)] = @ \/ pc[q] = "flush"]
    /\ Forget({q})
    /\ UNCHANGED <<table, treeRoots, tree, anchored>>

(* The replica goes down with its requests and comes back with empty trees.  *)
Restart(r) ==
    /\ faults < MaxFaults
    /\ faults' = faults + 1
    /\ tree' = [tree EXCEPT ![r] = [p \in Pool |-> <<>>]]
    /\ anchored' = [anchored EXCEPT ![r] = [p \in Pool |-> 0]]
    /\ lock' = [lock EXCEPT ![r] = NoRequest]
    /\ lost' = [lost EXCEPT ![r] = [p \in Pool |-> FALSE]]
    /\ Forget({q \in Request : pc[q] # "idle" /\ Here(q) = r})
    /\ UNCHANGED <<table, treeRoots>>

Handle(q) == Select(q) \/ NothingNew(q) \/ TopUp(q) \/ FlushRoots(q) \/ LookUp(q) \/ Finish(q)

TreeNext ==
    \/ \E p \in Pool : Index(p)
    \/ \E q \in Request : Arrive(q) \/ LockTrees(q) \/ Handle(q) \/ Cancel(q)
    \/ \E r \in Replica : Restart(r)

TreeSpec == TreeInit /\ [][TreeNext]_vars

(* Statements return or fail, responses are sent, and tokio's Mutex hands    *)
(* the lock to its waiters in turn.                                          *)
TreeFairness ==
    \A q \in Request : WF_vars(Handle(q)) /\ SF_vars(LockTrees(q))

TreeFairSpec == TreeSpec /\ TreeFairness

-----------------------------------------------------------------------------
TreeTypeOK ==
    /\ table \in [Pool -> SUBSET LeafRow]
    /\ treeRoots \in [Pool -> SUBSET RootRow]
    /\ tree \in [Replica -> [Pool -> Leaves]]
    /\ anchored \in [Replica -> [Pool -> Nat]]
    /\ lock \in [Replica -> Request \cup {NoRequest}]
    /\ pc \in [Request -> {"idle", "lock", "topup", "append", "flush", "history", "done"}]
    /\ req \in [Request -> Query \cup {NoQuery}]
    /\ \A q \in Request : pc[q] # "idle" => req[q] \in Query
    /\ rows \in [Request -> SUBSET LeafRow]
    /\ newRoots \in [Request -> SUBSET RootRow]
    /\ since \in [Request -> 0..MaxLeaves]
    /\ lost \in [Replica -> [Pool -> BOOLEAN]]
    /\ faults \in 0..MaxFaults

(* The first n leaves of pool p's table, as the contract's own tree has them.*)
LeavesOf(p, n) == [i \in 1..n |-> LeafAt(p, i - 1).cm]

(* Row is the root after its last leaf, and carries that leaf's ledger.      *)
Faithful(p, row) ==
    /\ row.count >= 1
    /\ \A i \in 0..(row.count - 1) : Has(p, i)
    /\ row.root = LeavesOf(p, row.count)
    /\ row.ledger = LeafAt(p, row.count - 1).ledger

(* A replica's tree is a gap-free prefix of the table, at the right indexes, *)
(* and anchored at the ledger of its last leaf, whatever the order in which  *)
(* the indexer fills the table, requests are cut off or replicas restarted   *)
(* (sync_pool_tree's gap check; ISSUES.md Issue 5).                          *)
TreeIsPrefix ==
    \A r \in Replica, p \in Pool :
        /\ \A i \in 0..(Len(tree[r][p]) - 1) :
               Has(p, i) /\ tree[r][p][i + 1] = LeafAt(p, i).cm
        /\ anchored[r][p] = IF tree[r][p] = <<>> THEN 0
                            ELSE LeafAt(p, Len(tree[r][p]) - 1).ledger

(* Whoever recorded it, a row of tree_roots is the root the pool's tree has  *)
(* at that leaf count, with that leaf's ledger, and there is one row per     *)
(* count: "these rows are deterministic and idempotent" (tree.rs:235).       *)
HistoryFaithful ==
    \A p \in Pool : \A row \in treeRoots[p] :
        /\ Faithful(p, row)
        /\ \A other \in treeRoots[p] : other.count = row.count => other = row

(* A replica that has dropped no rows has recorded the root after every leaf *)
(* of its tree, except while one of its requests is about to.                *)
CleanHistoryComplete ==
    \A r \in Replica, p \in Pool :
        \/ lost[r][p]
        \/ \E q \in Request : pc[q] = "flush" /\ Here(q) = r /\ PoolOf(q) = p
        \/ \A n \in 1..Len(tree[r][p]) : \E row \in treeRoots[p] : row.count = n

Done(q, kind) == pc[q] = "done" /\ req[q].ask.kind = kind

(* A current root or path is never older than the request: it covers every   *)
(* leaf that was in the table, up to the first gap, when the request came,   *)
(* and a commitment among those leaves is found, at its own index            *)
(* (get_path, get_root: "top up the tree first").                            *)
AnswersFresh ==
    \A q \in Request :
        /\ Done(q, "root") /\ since[q] > 0
               => answer[q].status = 200 /\ answer[q].count >= since[q]
        /\ \A i \in 0..(since[q] - 1) :
               Done(q, "path") /\ LeafAt(PoolOf(q), i).cm = req[q].ask.cm
                   => answer[q].status = 200 /\ answer[q].leaf = i

(* The point a historical query asks for covers the pool's first n leaves.   *)
Covered(q, n) ==
    \/ req[q].ask.kind = "at_ledger" /\ LeafAt(PoolOf(q), n - 1).ledger <= req[q].ask.ledger
    \/ req[q].ask.kind = "at_leaf_count" /\ n <= req[q].ask.count

CoversArrival(q) ==
    \A n \in 1..since[q] :
        Covered(q, n) => answer[q].status = 200 /\ answer[q].count >= n

(* A historical root is of the asked point or before it; and it reaches that *)
(* point, as far as the table did when the request came, if the replica has  *)
(* dropped no rows (get_root: "historical answers cover everything indexed   *)
(* up to this moment").                                                      *)
HistoryAnswers ==
    \A q \in Request :
        Done(q, "at_ledger") \/ Done(q, "at_leaf_count") =>
            /\ answer[q].status = 200 => Covered(q, answer[q].count)
            /\ lost[Here(q)][PoolOf(q)] \/ CoversArrival(q)

(* disclosure: g is the request a report's root and anchored ledger come     *)
(* from, v the query its verification makes at that ledger, made when the    *)
(* table had at least the report's leaves.                                   *)
Verification(g, v) ==
    /\ Done(g, "root") /\ answer[g].status = 200
    /\ Done(v, "at_ledger") /\ req[v].ask.ledger = answer[g].ledger
    /\ PoolOf(v) = PoolOf(g) /\ since[v] >= answer[g].count

(* When a verification by a replica that dropped no rows disagrees with the  *)
(* report, the only reason is that the report was made between two leaves of *)
(* one ledger: the historical root has the report's leaves and then leaves   *)
(* of the anchored ledger itself (disclosure verify).                        *)
ReportsDifferWithinLedger ==
    \A g, v \in Request :
        Verification(g, v) /\ ~ lost[Here(v)][PoolOf(v)] =>
            /\ answer[v].status = 200 /\ answer[v].count >= answer[g].count
            /\ \A i \in 1..answer[g].count : answer[v].root[i] = answer[g].root[i]
            /\ \A n \in answer[g].count..(answer[v].count - 1) :
                   LeafAt(PoolOf(g), n).ledger = answer[g].ledger

(* A request that waits for the lock is answered, or its client is told, in  *)
(* the end: no path through a handler keeps the lock (lock_trees).           *)
WaitersServed == \A q \in Request : pc[q] = "lock" ~> pc[q] \in {"done", "idle"}

(* What the repository says of at_ledger, whatever failed before: "returns   *)
(* the same root the tree had immediately after the last leaf with           *)
(* ledger <= L" (ISSUES.md:267). It does not hold: roots a request dropped   *)
(* are recorded by nobody until the replica restarts.                        *)
AtLedgerExact == \A q \in Request : Done(q, "at_ledger") => CoversArrival(q)

(* "an old report against a pool that has kept taking deposits still         *)
(* verifies correctly" (README.md:315). It does not hold for a report made   *)
(* between two leaves of one ledger.                                         *)
OldReportsVerify ==
    \A g, v \in Request :
        Verification(g, v) => answer[v].status = 200 /\ answer[v].root = answer[g].root
=============================================================================
