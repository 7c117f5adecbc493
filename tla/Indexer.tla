------------------------------ MODULE Indexer ------------------------------
(***************************************************************************)
(* attesta-indexer: the process that polls Soroban RPC for the events of   *)
(* the configured contracts and mirrors them into Postgres.                *)
(*                                                                         *)
(* `run` walks the contracts in order, again and again. For each one       *)
(* `sync_contract` reads the cursor row, then repeats: fetch a page of     *)
(* events, store them one by one, write the cursor row back; an empty page *)
(* ends it. Every SQL statement commits on its own, so this module takes   *)
(* one step per statement and per RPC call, and a worker may stop between  *)
(* any two: by a crash, by an error that `run` logs before it moves on to  *)
(* the next contract, or by the shutdown signal between two passes.        *)
(*                                                                         *)
(* The chain is external: a fixed sequence of events per contract, of      *)
(* which the RPC node serves those up to `head`. An event is identified by *)
(* its position in that sequence.                                          *)
(***************************************************************************)
EXTENDS Naturals, Sequences

CONSTANTS
    Worker,       \* indexer processes ("either can ... be scaled independently")
    Contract,     \* the configured contracts, pools and registry
    Order,        \* POOL_CONTRACT_IDS followed by REGISTRY_CONTRACT_ID
    Chain,        \* Chain[c]: the events contract c ever emits, in chain order
    Commitment,   \* note commitments
    LeafIndex,    \* leaf positions
    Nullifier,    \* nullifiers
    Issuer,       \* issuer ids
    Status,       \* issuer status values
    NoStatus,     \* "no row" in the issuers table
    NoCursor,     \* a NULL last_cursor / an absent page cursor
    PageSize,     \* events per page (100 in rpc.rs)
    MaxLedger,    \* bound: ledgers the chain closes
    MaxFaults,    \* bound: crashes and failed calls
    MaxCopies     \* bound: copies of one event are counted up to here

VARIABLES
    head,         \* newest ledger the RPC node serves
    cursors,      \* table indexer_cursors: cursors[c] = [ledger, cursor]
    commitments,  \* table commitments: set of [leaf, cm, ledger] per contract
    nullifiers,   \* table nullifiers: set of nullifiers per contract
    noteRows,     \* table encrypted_notes: rows inserted for each event
    totals,       \* table pool_totals: times each event was added to its sum
    issuers,      \* table issuers: status per issuer id
    pc,           \* where each worker is
    at,           \* index in Order of the contract it is syncing
    lastLedger,   \* local last_ledger of sync_contract
    cursor,       \* local cursor of sync_contract
    page,         \* the page being stored: events page.from + 1 .. page.to
    pos,          \* the event being stored, a position in Chain
    faults,       \* history: crashes and failed calls so far
    overlapped    \* history: whether two workers were ever up together

db    == <<cursors, commitments, nullifiers, noteRows, totals, issuers>>
rows  == <<commitments, nullifiers, noteRows, totals, issuers>>
local == <<pc, at, lastLedger, cursor, page, pos>>
vars  == <<head, db, local, faults, overlapped>>

-----------------------------------------------------------------------------
Events(c) == 1..Len(Chain[c])
Position == UNION {Events(c) : c \in Contract}
Kinds == {"commit", "nullifier", "note", "withdrawal", "issuer", "undecodable", "refused"}
CursorValue == Nat \cup {NoCursor}
CursorRow == [ledger : Nat, cursor : CursorValue]
LeafRow == [leaf : LeafIndex, cm : Commitment, ledger : 1..MaxLedger]
Page == [from : Nat, to : Nat, cursor : CursorValue, latest : Nat]
NoPage == [from |-> 0, to |-> 0, cursor |-> NoCursor, latest |-> 0]

(* An event as `decode` classifies it. "undecodable" is what decode turns  *)
(* down: if it was a commitment, its leaf index is one that no event of    *)
(* kind "commit" has. "refused" decodes but Postgres rejects its first     *)
(* statement every time (a NUL in an issuer's name, a withdrawal past      *)
(* NUMERIC(39, 0)). `paid` says that a commitment carries both a deposit   *)
(* amount and an asset.                                                    *)
Event ==
         [kind : {"commit"}, ledger : 1..MaxLedger, leaf : LeafIndex,
          cm : Commitment, paid : BOOLEAN]
    \cup [kind : {"nullifier"}, ledger : 1..MaxLedger, nullifier : Nullifier]
    \cup [kind : {"issuer"}, ledger : 1..MaxLedger, issuer : Issuer, status : Status]
    \cup [kind : {"note", "withdrawal", "undecodable", "refused"}, ledger : 1..MaxLedger]

ASSUME IndexerAssumption ==
    /\ Order \in Seq(Contract) /\ Len(Order) > 0
    /\ Chain \in [Contract -> Seq(Event)]
    /\ \A c \in Contract : \A j, k \in Events(c) :
          j < k => /\ Chain[c][j].ledger <= Chain[c][k].ledger
                   /\ Chain[c][j].kind = "commit" /\ Chain[c][k].kind = "commit"
                         => Chain[c][j].leaf < Chain[c][k].leaf
    /\ LeafIndex \subseteq Nat
    /\ NoCursor \notin Nat
    /\ NoStatus \notin Status
    /\ PageSize \in Nat \ {0}
    /\ MaxLedger \in Nat /\ MaxFaults \in Nat /\ MaxCopies \in Nat \ {0}

-----------------------------------------------------------------------------
Here(w) == Order[at[w]]
Current(w) == Chain[Here(w)][pos[w]]
Running(w) == pc[w] \in {"read", "fetch", "store", "total", "save"}
Max(a, b) == IF a >= b THEN a ELSE b

(* Variant: startLedger is last_ledger itself.                              *)
ResumesAtSameLedger(c, from, last, cur) ==
    IF cur = NoCursor
    THEN \A j \in Events(c) : j <= from <=> Chain[c][j].ledger < Max(last, 1)
    ELSE from = cur

(* Position `from` is where getEvents resumes: after the cursor if there is *)
(* one, otherwise before the first event of ledger last_ledger + 1.         *)
ResumesAt(c, from, last, cur) ==
    IF cur = NoCursor
    THEN \A j \in Events(c) : j <= from <=> Chain[c][j].ledger < Max(last + 1, 1)
    ELSE from = cur

(* The node has events 1..seen of contract c when its newest ledger is l.   *)
ServesUpTo(c, seen, l) == \A j \in Events(c) : j <= seen <=> Chain[c][j].ledger <= l

(* Variant: ON CONFLICT DO UPDATE.                                          *)
WithLeafOverwritten(table, r) ==
    {s \in table : s.leaf # r.leaf /\ s.cm # r.cm} \cup {r}

(* Inserting leaf row r with ON CONFLICT DO NOTHING.                        *)
WithLeaf(table, r) ==
    IF \E s \in table : s.leaf = r.leaf \/ s.cm = r.cm THEN table ELSE table \cup {r}

LeafOf(e) == [leaf |-> e.leaf, cm |-> e.cm, ledger |-> e.ledger]

OneMore(n) == IF n < MaxCopies THEN n + 1 ELSE n

-----------------------------------------------------------------------------
Init ==
    /\ head = 0
    /\ cursors = [c \in Contract |-> [ledger |-> 0, cursor |-> NoCursor]]
    /\ commitments = [c \in Contract |-> {}]
    /\ nullifiers = [c \in Contract |-> {}]
    /\ noteRows = [c \in Contract |-> [j \in Position |-> 0]]
    /\ totals = [c \in Contract |-> [j \in Position |-> 0]]
    /\ issuers = [i \in Issuer |-> NoStatus]
    /\ pc = [w \in Worker |-> "down"]
    /\ at = [w \in Worker |-> 1]
    /\ lastLedger = [w \in Worker |-> 0]
    /\ cursor = [w \in Worker |-> NoCursor]
    /\ page = [w \in Worker |-> NoPage]
    /\ pos = [w \in Worker |-> 0]
    /\ faults = 0
    /\ overlapped = FALSE

(* The chain closes a ledger and the RPC node serves it.                    *)
CloseLedger ==
    /\ head < MaxLedger
    /\ head' = head + 1
    /\ UNCHANGED <<db, local, faults, overlapped>>

(* Variant: the end of the contract list is missed.                         *)
LeavePastTheEnd(w) ==
    /\ pc' = [pc EXCEPT ![w] = IF at[w] = Len(Order) THEN "sleep" ELSE "read"]
    /\ at' = [at EXCEPT ![w] = at[w] + 1]
    /\ lastLedger' = [lastLedger EXCEPT ![w] = 0]
    /\ cursor' = [cursor EXCEPT ![w] = NoCursor]
    /\ page' = [page EXCEPT ![w] = NoPage]
    /\ pos' = [pos EXCEPT ![w] = 0]

(* A worker leaves sync_contract: its locals go out of scope and `run` goes *)
(* to the next contract, or to sleep after the last one.                    *)
Leave(w) ==
    /\ pc' = [pc EXCEPT ![w] = IF at[w] = Len(Order) THEN "sleep" ELSE "read"]
    /\ at' = [at EXCEPT ![w] = IF at[w] = Len(Order) THEN 1 ELSE at[w] + 1]
    /\ lastLedger' = [lastLedger EXCEPT ![w] = 0]
    /\ cursor' = [cursor EXCEPT ![w] = NoCursor]
    /\ page' = [page EXCEPT ![w] = NoPage]
    /\ pos' = [pos EXCEPT ![w] = 0]

(* The process comes up (db::connect, migrate, run).                        *)
Start(w) ==
    /\ pc[w] = "down"
    /\ pc' = [pc EXCEPT ![w] = "read"]
    /\ overlapped' = (overlapped \/ \E v \in Worker : pc[v] # "down")
    /\ UNCHANGED <<head, db, at, lastLedger, cursor, page, pos, faults>>

(* sync_contract reads its cursor row; no row reads as (0, None).           *)
ReadCursor(w) ==
    /\ pc[w] = "read"
    /\ pc' = [pc EXCEPT ![w] = "fetch"]
    /\ lastLedger' = [lastLedger EXCEPT ![w] = cursors[Here(w)].ledger]
    /\ cursor' = [cursor EXCEPT ![w] = cursors[Here(w)].cursor]
    /\ UNCHANGED <<head, db, at, page, pos, faults, overlapped>>

(* The answer to getEvents. While pc is "fetch" the worker awaits it, with  *)
(* no timeout set (SorobanClient::new): the answer may never come. The node *)
(* serves the events after the resume point, at most PageSize of them. It   *)
(* names a page cursor whenever the limit cut the page short; otherwise it  *)
(* may leave it out.                                                        *)
GetEvents(w) ==
    LET c == Here(w) IN
    /\ pc[w] = "fetch"
    /\ \E from, seen \in 0..Len(Chain[c]) :
          /\ ResumesAt(c, from, lastLedger[w], cursor[w])
          /\ ServesUpTo(c, seen, head)
          /\ LET to == IF seen <= from THEN from
                       ELSE IF seen <= from + PageSize THEN seen ELSE from + PageSize
             IN  /\ \E next \in {to} \cup (IF to >= seen THEN {NoCursor} ELSE {}) :
                       page' = [page EXCEPT ![w] =
                                  [from |-> from, to |-> to, cursor |-> next, latest |-> head]]
                 /\ pos' = [pos EXCEPT ![w] = from + 1]
                 /\ pc' = [pc EXCEPT ![w] = IF from = to THEN "save" ELSE "store"]
    /\ UNCHANGED <<head, db, at, lastLedger, cursor, faults, overlapped>>

(* Variant: last_ledger does not follow the events of the page.             *)
NextEventSameLedger(w) ==
    /\ pos' = [pos EXCEPT ![w] = @ + 1]
    /\ pc' = [pc EXCEPT ![w] = IF pos[w] = page[w].to THEN "save" ELSE "store"]
    /\ UNCHANGED lastLedger

(* The end of the loop body over page.events.                               *)
NextEvent(w) ==
    /\ lastLedger' = [lastLedger EXCEPT ![w] = Max(@, Current(w).ledger)]
    /\ pos' = [pos EXCEPT ![w] = @ + 1]
    /\ pc' = [pc EXCEPT ![w] = IF pos[w] = page[w].to THEN "save" ELSE "store"]

(* store_event for a commitment: the row first; a deposit then goes on to   *)
(* add_pool_total, a statement of its own.                                  *)
StoreCommitment(w) ==
    LET c == Here(w) IN
    /\ pc[w] = "store" /\ Current(w).kind = "commit"
    /\ commitments' = [commitments EXCEPT ![c] = WithLeaf(@, LeafOf(Current(w)))]
    /\ IF Current(w).paid
       THEN pc' = [pc EXCEPT ![w] = "total"] /\ UNCHANGED <<lastLedger, pos>>
       ELSE NextEvent(w)
    /\ UNCHANGED <<head, cursors, nullifiers, noteRows, totals, issuers,
                   at, cursor, page, faults, overlapped>>

StoreNullifier(w) ==
    /\ pc[w] = "store" /\ Current(w).kind = "nullifier"
    /\ nullifiers' = [nullifiers EXCEPT ![Here(w)] = @ \cup {Current(w).nullifier}]
    /\ NextEvent(w)
    /\ UNCHANGED <<head, cursors, commitments, noteRows, totals, issuers,
                   at, cursor, page, faults, overlapped>>

(* A plain INSERT: encrypted_notes has no unique key to conflict on.        *)
StoreNote(w) ==
    /\ pc[w] = "store" /\ Current(w).kind = "note"
    /\ noteRows' = [noteRows EXCEPT ![Here(w)][pos[w]] = OneMore(@)]
    /\ NextEvent(w)
    /\ UNCHANGED <<head, cursors, commitments, nullifiers, totals, issuers,
                   at, cursor, page, faults, overlapped>>

(* add_pool_total: the second statement of a deposit, the only one of a     *)
(* withdrawal. The sum grows by the event's amount.                         *)
AddPoolTotal(w) ==
    /\ \/ pc[w] = "total"
       \/ pc[w] = "store" /\ Current(w).kind = "withdrawal"
    /\ totals' = [totals EXCEPT ![Here(w)][pos[w]] = OneMore(@)]
    /\ NextEvent(w)
    /\ UNCHANGED <<head, cursors, commitments, nullifiers, noteRows, issuers,
                   at, cursor, page, faults, overlapped>>

(* Variant: ON CONFLICT DO NOTHING.                                         *)
StoreIssuerOnce(w) ==
    /\ pc[w] = "store" /\ Current(w).kind = "issuer"
    /\ issuers' = [issuers EXCEPT ![Current(w).issuer] =
                     IF @ = NoStatus THEN Current(w).status ELSE @]
    /\ NextEvent(w)
    /\ UNCHANGED <<head, cursors, commitments, nullifiers, noteRows, totals,
                   at, cursor, page, faults, overlapped>>

(* The upsert of an issuer row: the stored event wins, whatever was there.  *)
StoreIssuer(w) ==
    /\ pc[w] = "store" /\ Current(w).kind = "issuer"
    /\ issuers' = [issuers EXCEPT ![Current(w).issuer] = Current(w).status]
    /\ NextEvent(w)
    /\ UNCHANGED <<head, cursors, commitments, nullifiers, noteRows, totals,
                   at, cursor, page, faults, overlapped>>

(* decode returned None: counted and skipped.                               *)
SkipEvent(w) ==
    /\ pc[w] = "store" /\ Current(w).kind = "undecodable"
    /\ NextEvent(w)
    /\ UNCHANGED <<head, db, at, cursor, page, faults, overlapped>>

(* The upsert that ends every page, the empty one included; an empty page   *)
(* also moves last_ledger up to the node's newest ledger and ends the sync. *)
SaveCursor(w) ==
    LET done == page[w].from = page[w].to
        last == IF done THEN Max(lastLedger[w], page[w].latest) ELSE lastLedger[w]
    IN
    /\ pc[w] = "save"
    /\ cursors' = [cursors EXCEPT ![Here(w)] =
                     [ledger |-> last, cursor |-> page[w].cursor]]
    /\ IF done
       THEN Leave(w)
       ELSE /\ pc' = [pc EXCEPT ![w] = "fetch"]
            /\ cursor' = [cursor EXCEPT ![w] = page[w].cursor]
            /\ page' = [page EXCEPT ![w] = NoPage]
            /\ pos' = [pos EXCEPT ![w] = 0]
            /\ UNCHANGED <<at, lastLedger>>
    /\ UNCHANGED <<head, rows, faults, overlapped>>

(* The end of the poll sleep: a new pass begins.                            *)
Wake(w) ==
    /\ pc[w] = "sleep"
    /\ pc' = [pc EXCEPT ![w] = "read"]
    /\ UNCHANGED <<head, db, at, lastLedger, cursor, page, pos, faults, overlapped>>


(* Postgres turns the row down: sync_contract returns the error, every time. *)
RefusedByStore(w) ==
    /\ pc[w] = "store" /\ Current(w).kind = "refused"
    /\ Leave(w)
    /\ UNCHANGED <<head, db, faults, overlapped>>

(* Variant: a failed store_event is logged and the loop goes on.             *)
SyncErrorDropsEvent(w) ==
    /\ pc[w] = "store" /\ faults < MaxFaults
    /\ faults' = faults + 1
    /\ NextEvent(w)
    /\ UNCHANGED <<head, db, at, cursor, page, overlapped>>

(* An RPC call or a statement fails; `run` logs it and moves on. A statement *)
(* that took effect and whose answer was lost is the same failure, one step  *)
(* later.                                                                    *)
SyncError(w) ==
    /\ Running(w) /\ faults < MaxFaults
    /\ faults' = faults + 1
    /\ Leave(w)
    /\ UNCHANGED <<head, db, overlapped>>

Stop(w) ==
    /\ pc' = [pc EXCEPT ![w] = "down"]
    /\ at' = [at EXCEPT ![w] = 1]
    /\ lastLedger' = [lastLedger EXCEPT ![w] = 0]
    /\ cursor' = [cursor EXCEPT ![w] = NoCursor]
    /\ page' = [page EXCEPT ![w] = NoPage]
    /\ pos' = [pos EXCEPT ![w] = 0]

(* The process dies: what it held in memory is gone.                         *)
Crash(w) ==
    /\ pc[w] # "down" /\ faults < MaxFaults
    /\ faults' = faults + 1
    /\ Stop(w)
    /\ UNCHANGED <<head, db, overlapped>>

(* SIGTERM / SIGINT, answered between passes only.                           *)
ShutdownSignal(w) ==
    /\ pc[w] = "sleep"
    /\ Stop(w)
    /\ UNCHANGED <<head, db, faults, overlapped>>

(* What a worker does by itself, statements included.                        *)
Proceed(w) ==
    \/ ReadCursor(w)
    \/ StoreCommitment(w) \/ StoreNullifier(w) \/ StoreNote(w)
    \/ AddPoolTotal(w) \/ StoreIssuer(w) \/ SkipEvent(w) \/ RefusedByStore(w)
    \/ SaveCursor(w) \/ Wake(w)

Work(w) == GetEvents(w) \/ Proceed(w)

Next ==
    \/ CloseLedger
    \/ \E w \in Worker : Start(w) \/ Work(w) \/ SyncError(w) \/ Crash(w) \/ ShutdownSignal(w)

Spec == Init /\ [][Next]_vars

(* A worker that is up keeps taking steps: Postgres answers a statement or   *)
(* its connection fails. When every worker is down, whoever operates the     *)
(* indexer starts one. Nothing is owed of the RPC node, whose answer may     *)
(* never come, nor overlapping starts, crashes, errors and shutdowns.        *)
Fairness ==
    /\ \A w \in Worker : WF_vars(Proceed(w))
    /\ WF_vars(\E w \in Worker : Start(w) /\ \A v \in Worker : pc[v] = "down")

FairSpec == Spec /\ Fairness

-----------------------------------------------------------------------------
(* The shape of the state.                                                   *)
TypeOK ==
    /\ head \in 0..MaxLedger
    /\ cursors \in [Contract -> CursorRow]
    /\ commitments \in [Contract -> SUBSET LeafRow]
    /\ nullifiers \in [Contract -> SUBSET Nullifier]
    /\ noteRows \in [Contract -> [Position -> 0..MaxCopies]]
    /\ totals \in [Contract -> [Position -> 0..MaxCopies]]
    /\ issuers \in [Issuer -> Status \cup {NoStatus}]
    /\ pc \in [Worker -> {"down", "read", "fetch", "store", "total", "save", "sleep"}]
    /\ at \in [Worker -> 1..Len(Order)]
    /\ lastLedger \in [Worker -> Nat]
    /\ cursor \in [Worker -> CursorValue]
    /\ page \in [Worker -> Page]
    /\ pos \in [Worker -> Nat]
    /\ faults \in 0..MaxFaults
    /\ overlapped \in BOOLEAN

-----------------------------------------------------------------------------
(* Event j repeats the commitment of an earlier event: another leaf with the *)
(* same value.                                                               *)
Repeats(c, j) ==
    \E i \in Events(c) : i < j /\ Chain[c][i].kind = "commit"
                             /\ Chain[c][i].cm = Chain[c][j].cm

(* The row of event j is in the table.                                       *)
Stored(c, j) == LeafOf(Chain[c][j]) \in commitments[c]

(* The UNIQUE key on (pool, commitment) keeps the row of event j out for     *)
(* good; nothing will ever hold its leaf index.                              *)
ShutOut(c, j) ==
    Repeats(c, j) /\ \E r \in commitments[c] : r.cm = Chain[c][j].cm

(* The INSERT of event j has been done, in vain or not.                      *)
Inserted(c, j) == Stored(c, j) \/ ShutOut(c, j)

(* Event j of contract c has left its mark in every table it concerns.       *)
Mirrored(c, j) ==
    LET e == Chain[c][j] IN
    /\ e.kind = "commit"     => Inserted(c, j) /\ (e.paid => totals[c][j] > 0)
    /\ e.kind = "nullifier"  => e.nullifier \in nullifiers[c]
    /\ e.kind = "note"       => noteRows[c][j] > 0
    /\ e.kind = "withdrawal" => totals[c][j] > 0
    /\ e.kind = "issuer"     => issuers[e.issuer] # NoStatus
    /\ e.kind # "refused"

(* A sync that starts from (last, cur) will not ask for event j.             *)
Covers(c, last, cur, j) ==
    IF cur = NoCursor THEN Chain[c][j].ledger <= last ELSE j <= cur

(* The cursor row of c is past event j.                                      *)
Settled(c, j) == Covers(c, cursors[c].ledger, cursors[c].cursor, j)

(* What it takes to start from (last, cur): everything it skips is mirrored. *)
GoodStart(c, last, cur) ==
    /\ last <= head
    /\ \A j \in Events(c) :
          Covers(c, last, cur, j) => Chain[c][j].ledger <= head /\ Mirrored(c, j)

(* A page in a worker's hands: it ends where its cursor says, or at all the  *)
(* node had; events before pos are mirrored, the page's earlier ones too.    *)
GoodPage(w) ==
    LET c == Here(w) IN
    /\ page[w].from <= page[w].to /\ page[w].to <= Len(Chain[c])
    /\ page[w].cursor \in {page[w].to, NoCursor}
    /\ lastLedger[w] <= page[w].latest /\ page[w].latest <= head
    /\ pos[w] \in (page[w].from + 1)..(page[w].to + 1)
    /\ pc[w] = "save" <=> pos[w] = page[w].to + 1
    /\ pc[w] = "total" =>
          Current(w).kind = "commit" /\ Current(w).paid /\ Inserted(c, pos[w])
    /\ \A j \in Events(c) :
          /\ j <= page[w].to => Chain[c][j].ledger <= page[w].latest
          /\ page[w].cursor = NoCursor /\ Chain[c][j].ledger <= page[w].latest
                => j <= page[w].to
          /\ j < pos[w] => Mirrored(c, j)

GoodWorker(w) ==
    /\ pc[w] = "fetch" => GoodStart(Here(w), lastLedger[w], cursor[w])
    /\ pc[w] \in {"store", "total", "save"} => GoodPage(w)

(* Cursor rows and workers agree with the tables: what makes NoSkip and      *)
(* LeavesInChainOrder inductive. A worker trusts the row it started from and *)
(* what it stored itself, never what another worker is doing.                *)
SyncInv ==
    /\ \A c \in Contract : GoodStart(c, cursors[c].ledger, cursors[c].cursor)
    /\ \A w \in Worker : GoodWorker(w)

(* The persisted cursor never points past an unprocessed event, whatever     *)
(* crashes, errors, replays and concurrent indexers do (ISSUES-2.md Issue    *)
(* 11; sync_contract writes the cursor after the page's last statement).     *)
NoSkip == \A c \in Contract : \A j \in Events(c) : Settled(c, j) => Mirrored(c, j)

(* The leaves that can be in the table: a commitment's first.                *)
First(c) == {k \in Events(c) : Chain[c][k].kind = "commit" /\ ~ Repeats(c, k)}

(* At every instant, also in the middle of a page or of a replay, the rows   *)
(* of `commitments` are leaves the chain emitted, the first of their value,  *)
(* and before each of them every earlier such leaf has its own row: the API  *)
(* reads the table while the indexer writes it. So nothing that a crash, an  *)
(* error or a second indexer does makes the gap at which tree.rs:208 stops.  *)
(* A leaf that repeats a commitment and a commitment that decode turns down  *)
(* leave one there for good: they have no row here, ever.                    *)
LeavesInChainOrder ==
    \A c \in Contract : \A r \in commitments[c] : \E k \in First(c) :
        /\ LeafOf(Chain[c][k]) = r
        /\ Chain[c][k].ledger <= head
        /\ \A j \in First(c) : j < k => Stored(c, j)

(* Without a crash, a failed call, a second indexer or a row that Postgres   *)
(* refuses, every note has one row and every amount is in its pool's total   *)
(* once: the cursor and page logic alone asks for no event twice.            *)
OnceWithoutFaults ==
    faults = 0 /\ ~ overlapped =>
        \A c \in Contract :
            (\A k \in Events(c) : Chain[c][k].kind # "refused") =>
                \A j \in Events(c) : noteRows[c][j] <= 1 /\ totals[c][j] <= 1

(* What one indexer at a time may replay: never an event its cursor row      *)
(* covers. store_event adds note rows and totals for uncovered events only.  *)
SettledOnce ==
    [][~ overlapped' => \A c \in Contract : \A j \in Events(c) :
          Settled(c, j) => /\ noteRows'[c][j] = noteRows[c][j]
                           /\ totals'[c][j] = totals[c][j]]_vars

(* With one indexer at a time the cursor row never moves back, through the   *)
(* two forms it takes (a page cursor, or a ledger alone).                    *)
CursorForward ==
    [][~ overlapped' => \A c \in Contract : \A j \in Events(c) :
          Settled(c, j) => Settled(c, j)']_vars

(* An issuer's row is never older than the cursor: once the cursor covers a  *)
(* status change, the row shows that status or a later one. issuer.rs        *)
(* accepts deliveries on this row alone.                                     *)
IssuerAsNewAsCursor ==
    \A c \in Contract : \A j \in Events(c) :
        Chain[c][j].kind = "issuer" /\ Settled(c, j) =>
            \E k \in Events(c) : /\ k >= j /\ Chain[c][k].kind = "issuer"
                                 /\ Chain[c][k].issuer = Chain[c][j].issuer
                                 /\ Chain[c][k].status = issuers[Chain[c][j].issuer]

(* ... as long as no two indexers ever ran together.                         *)
IssuerCurrent == ~ overlapped => IssuerAsNewAsCursor

(* Every event the chain shows is mirrored in the end, whichever crashes and *)
(* errors happen on the way and whatever another contract's events do, as    *)
(* long as no getEvents call waits for its answer for good: only an event    *)
(* behind one that Postgres refuses, on its own contract, waits.             *)
Reachable(c) ==
    {j \in Events(c) : \A k \in Events(c) : k <= j => Chain[c][k].kind # "refused"}

CallsReturn == \A w \in Worker : []<>(pc[w] # "fetch")


(* The commitments table this indexer writes is the append-only leaf log     *)
(* that the API's tree cache is built on.                                    *)
Log == INSTANCE LeafLog WITH Pool <- Contract, Ledger <- 1..MaxLedger,
                             table <- commitments

ImplementsLeafLog == Log!Spec

(* What the README and ingest.rs promise of replays, cursor resets and       *)
(* crash-restarts: ingest is idempotent.                                     *)
ReplaySafe ==
    \A c \in Contract : \A j \in Events(c) : noteRows[c][j] <= 1 /\ totals[c][j] <= 1

(* README: indexers can crash and be scaled independently. Whenever no       *)
(* indexer is in the middle of a sync, the issuer rows should be as new as   *)
(* the cursor.                                                               *)
IssuerSettles == (\A w \in Worker : ~ Running(w)) => IssuerAsNewAsCursor
=============================================================================
