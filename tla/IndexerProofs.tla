--------------------------- MODULE IndexerProofs ---------------------------
(* Proofs about Indexer, for every set of workers, every chain and every     *)
(* bound. The inductive invariant is Inv: the types, SyncInv (what a cursor  *)
(* row and a page in a worker's hands guarantee) and LeavesInChainOrder.     *)
(* What holds of one indexer at a time needs SoloInv besides: its page begins *)
(* just past what the cursor row covers.                                      *)
EXTENDS Indexer, TLAPS

Inv == TypeOK /\ SyncInv /\ LeavesInChainOrder

(* No step takes anything out of the mirror or moves the chain back.         *)
Grows ==
    /\ head \in Nat /\ head' \in Nat /\ head <= head'
    /\ \A c \in Contract : \A j \in Events(c) :
          /\ Stored(c, j) => Stored(c, j)'
          /\ Inserted(c, j) => Inserted(c, j)'
          /\ Mirrored(c, j) => Mirrored(c, j)'

-----------------------------------------------------------------------------
(* What the assumption on Chain says of a single event.                      *)
LEMMA EventFacts ==
    ASSUME NEW c \in Contract, NEW j \in Events(c)
    PROVE  /\ j \in Nat /\ j \in Position
           /\ Chain[c] \in Seq(Event) /\ Len(Chain[c]) \in Nat
           /\ Chain[c][j] \in Event
           /\ Chain[c][j].ledger \in 1..MaxLedger /\ Chain[c][j].ledger \in Nat
<1>1. Chain[c] \in Seq(Event) /\ Len(Chain[c]) \in Nat
  BY IndexerAssumption
<1>2. j \in Nat /\ j \in Position
  BY <1>1 DEF Events, Position
<1>3. Chain[c][j] \in Event
  BY <1>1 DEF Events
<1>4. Chain[c][j].ledger \in 1..MaxLedger
  BY <1>3 DEF Event
<1> QED
  BY <1>1, <1>2, <1>3, <1>4, IndexerAssumption

(* A commitment event carries a leaf row (events.rs PoolEvent).              *)
LEMMA CommitFacts ==
    ASSUME NEW c \in Contract, NEW j \in Events(c), Chain[c][j].kind = "commit"
    PROVE  /\ LeafOf(Chain[c][j]) \in LeafRow
           /\ Chain[c][j].leaf \in Nat
           /\ Chain[c][j].paid \in BOOLEAN
<1>1. Chain[c][j] \in [kind : {"commit"}, ledger : 1..MaxLedger, leaf : LeafIndex,
                       cm : Commitment, paid : BOOLEAN]
  BY EventFacts DEF Event
<1> QED
  BY <1>1, IndexerAssumption DEF LeafOf, LeafRow

(* An issuer event carries an issuer and a status.                           *)
LEMMA IssuerFacts ==
    ASSUME NEW c \in Contract, NEW j \in Events(c), Chain[c][j].kind = "issuer"
    PROVE  Chain[c][j].issuer \in Issuer /\ Chain[c][j].status \in Status
BY EventFacts DEF Event

(* A nullifier event carries a nullifier.                                    *)
LEMMA NullifierFacts ==
    ASSUME NEW c \in Contract, NEW j \in Events(c), Chain[c][j].kind = "nullifier"
    PROVE  Chain[c][j].nullifier \in Nullifier
BY EventFacts DEF Event

(* A worker is always at one of the configured contracts.                    *)
LEMMA HereFacts ==
    ASSUME TypeOK, NEW w \in Worker
    PROVE  at[w] \in 1..Len(Order) /\ Len(Order) \in Nat /\ Len(Order) > 0
           /\ Here(w) \in Contract
BY IndexerAssumption DEF TypeOK, Here

(* The event a worker is about to store exists.                              *)
LEMMA CurrentFacts ==
    ASSUME TypeOK, SyncInv, NEW w \in Worker, pc[w] \in {"store", "total"}
    PROVE  /\ GoodPage(w)
           /\ pos[w] \in Events(Here(w))
           /\ pos[w] \in Nat /\ page[w].from \in Nat /\ page[w].to \in Nat
           /\ pos[w] <= page[w].to
<1>1. GoodPage(w)
  BY DEF SyncInv, GoodWorker
<1>2. pos[w] \in Nat /\ page[w].from \in Nat /\ page[w].to \in Nat
  BY DEF TypeOK, Page
<1>3. Len(Chain[Here(w)]) \in Nat
  BY HereFacts, IndexerAssumption
<1> QED
  BY <1>1, <1>2, <1>3 DEF GoodPage, Events

-----------------------------------------------------------------------------
(* Each store statement grows the mirror and leaves what it stored.          *)
LEMMA SameRows ==
    ASSUME TypeOK, UNCHANGED rows, head' \in Nat, head <= head'
    PROVE  Grows
BY DEF Grows, TypeOK, rows, Stored, ShutOut, Inserted, Mirrored

(* One more copy of a row is at least one, within the bound.                 *)
LEMMA OneMoreFacts ==
    ASSUME NEW n \in 0..MaxCopies
    PROVE  OneMore(n) \in 0..MaxCopies /\ OneMore(n) > 0
BY IndexerAssumption DEF OneMore

(* A counter table after one more copy of event k of contract d.             *)
LEMMA CountGrows ==
    ASSUME NEW f \in [Contract -> [Position -> 0..MaxCopies]],
           NEW d \in Contract, NEW k \in Position,
           NEW g, g = [f EXCEPT ![d][k] = OneMore(@)]
    PROVE  /\ g \in [Contract -> [Position -> 0..MaxCopies]]
           /\ g[d][k] > 0
           /\ \A c \in Contract : \A j \in Position : f[c][j] > 0 => g[c][j] > 0
<1>1. f[d][k] \in 0..MaxCopies
  OBVIOUS
<1>2. OneMore(f[d][k]) \in 0..MaxCopies /\ OneMore(f[d][k]) > 0
  BY <1>1, OneMoreFacts
<1> QED
  BY <1>2

(* The commitments INSERT keeps every row, and adds its own unless one is in *)
(* the way.                                                                  *)
LEMMA LeafGrows ==
    ASSUME NEW t \in SUBSET LeafRow, NEW r \in LeafRow
    PROVE  /\ WithLeaf(t, r) \in SUBSET LeafRow
           /\ t \subseteq WithLeaf(t, r)
           /\ r \in WithLeaf(t, r) \/ \E s \in t : s.leaf = r.leaf \/ s.cm = r.cm
BY DEF WithLeaf

(* The events that can have a row are commitments.                           *)
LEMMA FirstFacts ==
    ASSUME NEW c \in Contract, NEW k \in First(c)
    PROVE  k \in Events(c) /\ Chain[c][k].kind = "commit" /\ ~ Repeats(c, k)
BY DEF First

(* A row in the way of a commitment event is its own, or that of an earlier  *)
(* event with the same commitment.                                           *)
LEMMA InTheWay ==
    ASSUME Inv, NEW c \in Contract, NEW k \in Events(c), Chain[c][k].kind = "commit",
           NEW s \in commitments[c], s.leaf = Chain[c][k].leaf \/ s.cm = Chain[c][k].cm
    PROVE  Inserted(c, k)
<1>1. PICK n \in First(c) : LeafOf(Chain[c][n]) = s
  BY DEF Inv, LeavesInChainOrder
<1>2. n \in Events(c) /\ Chain[c][n].kind = "commit" /\ ~ Repeats(c, n)
  BY FirstFacts
<1>3. s.leaf = Chain[c][n].leaf /\ s.cm = Chain[c][n].cm
  BY <1>1 DEF LeafOf
<1>4. n \in Nat /\ k \in Nat /\ Chain[c][n].leaf \in Nat /\ Chain[c][k].leaf \in Nat
  BY <1>2, EventFacts, CommitFacts
<1>5. n # k => Chain[c][n].leaf # Chain[c][k].leaf
  BY <1>2, <1>4, IndexerAssumption
<1>6. CASE n = k
  BY <1>1, <1>6 DEF Inserted, Stored
<1>7. CASE n < k
  BY <1>2, <1>3, <1>4, <1>5, <1>7 DEF Inserted, ShutOut, Repeats
<1>8. CASE k < n
  BY <1>2, <1>3, <1>4, <1>5, <1>8 DEF Repeats
<1> QED
  BY <1>4, <1>6, <1>7, <1>8

(* An INSERT that was done left a row with its commitment.                   *)
LEMMA InsertedHasRow ==
    ASSUME NEW c \in Contract, NEW k \in Events(c), Inserted(c, k)
    PROVE  \E s \in commitments[c] : s.cm = Chain[c][k].cm
BY DEF Inserted, Stored, ShutOut, LeafOf

(* Storing a commitment mirrors its row (store_event, Commitment).           *)
LEMMA CommitmentGrows ==
    ASSUME Inv, NEW w \in Worker, StoreCommitment(w),
           NEW c \in Contract, c = Here(w), NEW k \in Events(c), k = pos[w]
    PROVE  /\ Grows
           /\ Inserted(c, k)'
           /\ commitments' \in [Contract -> SUBSET LeafRow]
           /\ \A s \in commitments'[c] :
                 \/ s \in commitments[c]
                 \/ /\ s = LeafOf(Chain[c][k])
                    /\ ~ \E q \in commitments[c] : q.cm = Chain[c][k].cm
           /\ \A d \in Contract \ {c} : commitments'[d] = commitments[d]
<1> DEFINE r == LeafOf(Chain[c][k])
<1>2. r \in LeafRow /\ r.leaf = Chain[c][k].leaf /\ r.cm = Chain[c][k].cm
  BY CommitFacts DEF Current, LeafOf, StoreCommitment
<1>3. commitments \in [Contract -> SUBSET LeafRow]
  BY DEF Inv, TypeOK
<1>4. commitments' = [commitments EXCEPT ![c] = WithLeaf(commitments[c], r)]
  BY <1>3 DEF StoreCommitment, Current
<1>5. /\ WithLeaf(commitments[c], r) \in SUBSET LeafRow
      /\ commitments[c] \subseteq WithLeaf(commitments[c], r)
      /\ \/ r \in WithLeaf(commitments[c], r)
         \/ \E s \in commitments[c] : s.leaf = r.leaf \/ s.cm = r.cm
  BY <1>2, <1>3, LeafGrows
<1>6. \A d \in Contract : commitments[d] \subseteq commitments'[d]
  BY <1>3, <1>4, <1>5
<1>7. \A d \in Contract : \A j \in Events(d) :
         (Stored(d, j) => Stored(d, j)') /\ (Inserted(d, j) => Inserted(d, j)')
  BY <1>6 DEF Inserted, Stored, ShutOut
<1>8. Inserted(c, k)'
  <2>1. CASE r \in WithLeaf(commitments[c], r)
    BY <1>3, <1>4, <2>1 DEF Inserted, Stored
  <2>2. CASE \E s \in commitments[c] : s.leaf = r.leaf \/ s.cm = r.cm
    <3>1. Chain[c][k].kind = "commit"
      BY DEF StoreCommitment, Current
    <3>2. Inserted(c, k)
      BY <1>2, <2>2, <3>1, InTheWay
    <3> QED
      BY <1>7, <3>2
  <2> QED
    BY <1>5, <2>1, <2>2
<1>9. Grows
  BY <1>7 DEF Grows, Mirrored, StoreCommitment, Inv, TypeOK
<1>10. \A s \in commitments'[c] :
          \/ s \in commitments[c]
          \/ s = r /\ ~ \E q \in commitments[c] : q.cm = r.cm
  BY <1>3, <1>4 DEF WithLeaf
<1>11. commitments' \in [Contract -> SUBSET LeafRow]
  BY <1>3, <1>4, <1>5
<1>12. \A d \in Contract \ {c} : commitments'[d] = commitments[d]
  BY <1>3, <1>4
<1> QED
  BY <1>2, <1>8, <1>9, <1>10, <1>11, <1>12

(* Storing a nullifier mirrors it (store_event, Nullifier).                  *)
LEMMA NullifierGrows ==
    ASSUME Inv, NEW w \in Worker, StoreNullifier(w),
           NEW c \in Contract, c = Here(w), NEW k \in Events(c), k = pos[w]
    PROVE  /\ Grows
           /\ Mirrored(c, k)'
           /\ nullifiers' \in [Contract -> SUBSET Nullifier]
<1>1. Chain[c][k].kind = "nullifier" /\ Chain[c][k].nullifier \in Nullifier
  BY NullifierFacts DEF Current, StoreNullifier
<1>2. nullifiers \in [Contract -> SUBSET Nullifier]
  BY DEF Inv, TypeOK
<1>3. nullifiers' = [nullifiers EXCEPT ![c] = nullifiers[c] \cup {Chain[c][k].nullifier}]
  BY DEF Current, StoreNullifier
<1>4. \A d \in Contract : nullifiers[d] \subseteq nullifiers'[d]
  BY <1>2, <1>3
<1>5. Grows
  BY <1>4 DEF Grows, Mirrored, Inserted, Stored, ShutOut, StoreNullifier, Inv, TypeOK
<1>6. Mirrored(c, k)'
  BY <1>1, <1>2, <1>3 DEF Mirrored
<1> QED
  BY <1>1, <1>2, <1>3, <1>5, <1>6

(* Storing a note mirrors it (store_event, EncryptedNote).                   *)
LEMMA NoteGrows ==
    ASSUME Inv, NEW w \in Worker, StoreNote(w),
           NEW c \in Contract, c = Here(w), NEW k \in Events(c), k = pos[w]
    PROVE  /\ Grows
           /\ Mirrored(c, k)'
           /\ noteRows' \in [Contract -> [Position -> 0..MaxCopies]]
<1>1. Chain[c][k].kind = "note" /\ k \in Position
  BY EventFacts DEF Current, StoreNote
<1>2. noteRows \in [Contract -> [Position -> 0..MaxCopies]]
  BY DEF Inv, TypeOK
<1>3. noteRows' = [noteRows EXCEPT ![c][k] = OneMore(@)]
  BY DEF StoreNote
<1>4. /\ noteRows' \in [Contract -> [Position -> 0..MaxCopies]]
      /\ noteRows'[c][k] > 0
      /\ \A d \in Contract : \A j \in Position : noteRows[d][j] > 0 => noteRows'[d][j] > 0
  BY <1>1, <1>2, <1>3, CountGrows
<1>5. \A d \in Contract : \A j \in Events(d) : noteRows[d][j] > 0 => noteRows'[d][j] > 0
  BY <1>4, EventFacts
<1>6. Grows
  BY <1>5 DEF Grows, Mirrored, Inserted, Stored, ShutOut, StoreNote, Inv, TypeOK
<1>7. Mirrored(c, k)'
  BY <1>1, <1>4 DEF Mirrored
<1> QED
  BY <1>4, <1>6, <1>7

(* Adding to the pool's total mirrors the amount (add_pool_total).           *)
LEMMA TotalGrows ==
    ASSUME Inv, NEW w \in Worker, AddPoolTotal(w),
           NEW c \in Contract, c = Here(w), NEW k \in Events(c), k = pos[w]
    PROVE  /\ Grows
           /\ Mirrored(c, k)'
           /\ totals' \in [Contract -> [Position -> 0..MaxCopies]]
<1>1. k \in Position
  BY EventFacts
<1>2. totals \in [Contract -> [Position -> 0..MaxCopies]]
  BY DEF Inv, TypeOK
<1>3. totals' = [totals EXCEPT ![c][k] = OneMore(@)]
  BY DEF AddPoolTotal
<1>4. /\ totals' \in [Contract -> [Position -> 0..MaxCopies]]
      /\ totals'[c][k] > 0
      /\ \A d \in Contract : \A j \in Position : totals[d][j] > 0 => totals'[d][j] > 0
  BY <1>1, <1>2, <1>3, CountGrows
<1>5. \A d \in Contract : \A j \in Events(d) : totals[d][j] > 0 => totals'[d][j] > 0
  BY <1>4, EventFacts
<1>6. Grows
  BY <1>5 DEF Grows, Mirrored, Inserted, Stored, ShutOut, AddPoolTotal, Inv, TypeOK
<1>7. \/ Chain[c][k].kind = "withdrawal"
      \/ Chain[c][k].kind = "commit" /\ Inserted(c, k)
  BY CurrentFacts DEF AddPoolTotal, Inv, GoodPage, Current
<1>8. Inserted(c, k) => Inserted(c, k)'
  BY <1>6 DEF Grows
<1>9. Mirrored(c, k)'
  BY <1>4, <1>7, <1>8 DEF Mirrored
<1> QED
  BY <1>4, <1>6, <1>9

(* Writing the issuer row mirrors the update (store_event, issuer events).   *)
LEMMA IssuerGrows ==
    ASSUME Inv, NEW w \in Worker, StoreIssuer(w),
           NEW c \in Contract, c = Here(w), NEW k \in Events(c), k = pos[w]
    PROVE  /\ Grows
           /\ Mirrored(c, k)'
           /\ issuers' \in [Issuer -> Status \cup {NoStatus}]
<1> DEFINE e == Chain[c][k]
<1>1. e.kind = "issuer" /\ e.issuer \in Issuer /\ e.status \in Status
  BY IssuerFacts DEF Current, StoreIssuer
<1>2. issuers \in [Issuer -> Status \cup {NoStatus}]
  BY DEF Inv, TypeOK
<1>3. issuers' = [issuers EXCEPT ![e.issuer] = e.status]
  BY DEF Current, StoreIssuer
<1>4. e.status # NoStatus
  BY <1>1, IndexerAssumption
<1>5. issuers'[e.issuer] # NoStatus
  BY <1>1, <1>2, <1>3, <1>4
<1>6. \A i \in Issuer : issuers[i] # NoStatus => issuers'[i] # NoStatus
  BY <1>1, <1>2, <1>3, <1>4
<1>7. \A d \in Contract : \A j \in Events(d) : Mirrored(d, j) => Mirrored(d, j)'
  BY <1>6, IssuerFacts DEF Mirrored, Inserted, Stored, ShutOut, StoreIssuer
<1>8. Grows
  BY <1>7 DEF Grows, Inserted, Stored, ShutOut, StoreIssuer, Inv, TypeOK
<1>9. Mirrored(c, k)'
  BY <1>1, <1>5 DEF Mirrored
<1> QED
  BY <1>1, <1>2, <1>3, <1>8, <1>9

-----------------------------------------------------------------------------
(* A step that only grows the mirror disturbs neither the cursor rows nor    *)
(* the workers that do not move.                                             *)
LEMMA CursorsKept ==
    ASSUME Inv, Grows, cursors' = cursors
    PROVE  \A c \in Contract : GoodStart(c, cursors[c].ledger, cursors[c].cursor)'
<1> SUFFICES ASSUME NEW c \in Contract
             PROVE  GoodStart(c, cursors[c].ledger, cursors[c].cursor)'
  OBVIOUS
<1>1. cursors[c].ledger \in Nat /\ GoodStart(c, cursors[c].ledger, cursors[c].cursor)
  BY DEF Inv, SyncInv, TypeOK, CursorRow
<1>2. \A j \in Events(c) : Chain[c][j].ledger \in Nat
  BY EventFacts
<1> QED
  BY <1>1, <1>2 DEF Grows, GoodStart, Covers

(* Worker v stands still.                                                    *)
Still(v) == /\ pc'[v] = pc[v] /\ at'[v] = at[v] /\ lastLedger'[v] = lastLedger[v]
            /\ cursor'[v] = cursor[v] /\ page'[v] = page[v] /\ pos'[v] = pos[v]

(* What a worker holds stays good while it stands still and the mirror       *)
(* grows under it.                                                           *)
LEMMA WorkerKept ==
    ASSUME Inv, Grows, NEW v \in Worker, Still(v)
    PROVE  GoodWorker(v)'
<1>1. Here(v) \in Contract /\ Here(v)' = Here(v)
  BY HereFacts DEF Inv, Here, Still
<1>2. GoodWorker(v) /\ lastLedger[v] \in Nat /\ page[v] \in Page /\ pos[v] \in Nat
  BY DEF Inv, SyncInv, TypeOK
<1>3. \A j \in Events(Here(v)) : Chain[Here(v)][j].ledger \in Nat
  BY <1>1, EventFacts
<1>4. CASE pc[v] = "fetch"
  <2>1. GoodStart(Here(v), lastLedger[v], cursor[v])
    BY <1>2, <1>4 DEF GoodWorker
  <2>2. GoodStart(Here(v), lastLedger[v], cursor[v])'
    BY <1>1, <1>2, <1>3, <2>1 DEF GoodStart, Covers, Grows, Still
  <2> QED
    BY <1>4, <2>2 DEF GoodWorker, Still
<1>5. CASE pc[v] \in {"store", "total", "save"}
  <2>1. GoodPage(v)
    BY <1>2, <1>5 DEF GoodWorker
  <2>2. pc[v] = "total" => pos[v] \in Events(Here(v))
    BY CurrentFacts DEF Inv
  <2>3. page[v].latest \in Nat
    BY <1>2 DEF Page
  <2>4. GoodPage(v)'
    BY <1>1, <1>2, <1>3, <2>1, <2>2, <2>3 DEF GoodPage, Grows, Still, Current
  <2> QED
    BY <1>5, <2>4 DEF GoodWorker, Still
<1>6. CASE pc[v] \notin {"fetch", "store", "total", "save"}
  BY <1>6 DEF GoodWorker, Still
<1> QED
  BY <1>4, <1>5, <1>6

(* The rows of `commitments` stay an initial part of the chain's leaves when *)
(* a step leaves the table alone.                                            *)
LEMMA LeavesKept ==
    ASSUME Inv, Grows, commitments' = commitments
    PROVE  LeavesInChainOrder'
<1> SUFFICES ASSUME NEW c \in Contract, NEW r \in commitments[c]
             PROVE  \E k \in First(c) :
                      /\ LeafOf(Chain[c][k]) = r
                      /\ Chain[c][k].ledger <= head'
                      /\ \A j \in First(c) : j < k => Stored(c, j)'
  BY DEF LeavesInChainOrder
<1>1. PICK k \in First(c) :
          /\ LeafOf(Chain[c][k]) = r
          /\ Chain[c][k].ledger <= head
          /\ \A j \in First(c) : j < k => Stored(c, j)
  BY DEF Inv, LeavesInChainOrder
<1>2. Chain[c][k].ledger \in Nat
  BY FirstFacts, EventFacts
<1>3. \A j \in First(c) : j < k => Stored(c, j)'
  BY <1>1, FirstFacts DEF Grows
<1> QED
  BY <1>1, <1>2, <1>3 DEF Grows

(* Hence one worker's step keeps what all workers rely on.                   *)
LEMMA SyncKept ==
    ASSUME Inv, Grows, cursors' = cursors, NEW w \in Worker, GoodWorker(w)',
           \A v \in Worker \ {w} : Still(v)
    PROVE  SyncInv'
BY CursorsKept, WorkerKept DEF SyncInv

(* The loop moves on to the next event once this one is mirrored.            *)
LEMMA NextEventKeeps ==
    ASSUME Inv, Grows, NEW w \in Worker, pc[w] \in {"store", "total"}, NextEvent(w),
           UNCHANGED <<head, at, cursor, page>>,
           NEW c \in Contract, c = Here(w), NEW k \in Events(c), k = pos[w],
           Mirrored(c, k)'
    PROVE  /\ GoodWorker(w)'
           /\ \A v \in Worker \ {w} : Still(v)
           /\ lastLedger' \in [Worker -> Nat] /\ pos' \in [Worker -> Nat]
           /\ pc' \in [Worker -> {"down", "read", "fetch", "store", "total", "save", "sleep"}]
<1>1. /\ lastLedger \in [Worker -> Nat] /\ pos \in [Worker -> Nat]
      /\ pc \in [Worker -> {"down", "read", "fetch", "store", "total", "save", "sleep"}]
      /\ page[w] \in Page /\ page[w].latest \in Nat
  BY DEF Inv, TypeOK, Page
<1>2. /\ GoodPage(w) /\ k \in Nat /\ page[w].from \in Nat /\ page[w].to \in Nat
      /\ k <= page[w].to
  BY CurrentFacts DEF Inv
<1>3. Chain[c][k].ledger \in Nat /\ Chain[c][k].ledger <= page[w].latest
  BY <1>2, EventFacts DEF GoodPage
<1>4. /\ lastLedger' = [lastLedger EXCEPT ![w] = Max(lastLedger[w], Chain[c][k].ledger)]
      /\ pos' = [pos EXCEPT ![w] = k + 1]
      /\ pc' = [pc EXCEPT ![w] = IF k = page[w].to THEN "save" ELSE "store"]
  BY DEF NextEvent, Current
<1>5. /\ lastLedger'[w] \in Nat /\ lastLedger'[w] <= page[w].latest
      /\ pos'[w] = k + 1
      /\ pc'[w] = IF k = page[w].to THEN "save" ELSE "store"
  BY <1>1, <1>2, <1>3, <1>4 DEF Max, GoodPage
<1>6. Here(w)' = c
  BY DEF Here
<1>7. \A j \in Events(c) : j < k + 1 => Mirrored(c, j)'
  <2> SUFFICES ASSUME NEW j \in Events(c), j < k + 1 PROVE Mirrored(c, j)'
    OBVIOUS
  <2>1. j \in Nat
    BY EventFacts
  <2>2. CASE j = k
    BY <2>2
  <2>3. CASE j < k
    BY <1>2, <2>3 DEF GoodPage, Grows
  <2> QED
    BY <1>2, <2>1, <2>2, <2>3
<1>8. GoodPage(w)'
  BY <1>1, <1>2, <1>5, <1>6, <1>7 DEF GoodPage
<1>9. GoodWorker(w)'
  BY <1>5, <1>8 DEF GoodWorker
<1>10. \A v \in Worker \ {w} : Still(v)
  BY <1>1, <1>4 DEF Still
<1> QED
  BY <1>1, <1>4, <1>5, <1>9, <1>10

-----------------------------------------------------------------------------
(* One lemma per action: each preserves Inv.                                 *)
LEMMA StoreNullifierKeeps ==
    ASSUME Inv, NEW w \in Worker, StoreNullifier(w)
    PROVE  Inv'
<1>1. PICK c \in Contract, k \in Events(Here(w)) : c = Here(w) /\ k = pos[w]
  BY HereFacts, CurrentFacts DEF Inv, StoreNullifier
<1>2. /\ Grows /\ Mirrored(c, k)'
      /\ nullifiers' \in [Contract -> SUBSET Nullifier]
  BY <1>1, NullifierGrows
<1>3. /\ GoodWorker(w)'
      /\ \A v \in Worker \ {w} : Still(v)
      /\ lastLedger' \in [Worker -> Nat] /\ pos' \in [Worker -> Nat]
      /\ pc' \in [Worker -> {"down", "read", "fetch", "store", "total", "save", "sleep"}]
  BY <1>1, <1>2, NextEventKeeps DEF StoreNullifier
<1>4. SyncInv'
  BY <1>2, <1>3, SyncKept DEF StoreNullifier
<1>5. LeavesInChainOrder'
  BY <1>2, LeavesKept DEF StoreNullifier
<1>6. TypeOK'
  BY <1>2, <1>3 DEF Inv, TypeOK, StoreNullifier
<1> QED
  BY <1>4, <1>5, <1>6 DEF Inv

(* The note INSERT keeps the invariant.                                      *)
LEMMA StoreNoteKeeps ==
    ASSUME Inv, NEW w \in Worker, StoreNote(w)
    PROVE  Inv'
<1>1. PICK c \in Contract, k \in Events(Here(w)) : c = Here(w) /\ k = pos[w]
  BY HereFacts, CurrentFacts DEF Inv, StoreNote
<1>2. /\ Grows /\ Mirrored(c, k)'
      /\ noteRows' \in [Contract -> [Position -> 0..MaxCopies]]
  BY <1>1, NoteGrows
<1>3. /\ GoodWorker(w)'
      /\ \A v \in Worker \ {w} : Still(v)
      /\ lastLedger' \in [Worker -> Nat] /\ pos' \in [Worker -> Nat]
      /\ pc' \in [Worker -> {"down", "read", "fetch", "store", "total", "save", "sleep"}]
  BY <1>1, <1>2, NextEventKeeps DEF StoreNote
<1>4. SyncInv'
  BY <1>2, <1>3, SyncKept DEF StoreNote
<1>5. LeavesInChainOrder'
  BY <1>2, LeavesKept DEF StoreNote
<1>6. TypeOK'
  BY <1>2, <1>3 DEF Inv, TypeOK, StoreNote
<1> QED
  BY <1>4, <1>5, <1>6 DEF Inv

(* The pool_totals upsert keeps the invariant.                               *)
LEMMA AddPoolTotalKeeps ==
    ASSUME Inv, NEW w \in Worker, AddPoolTotal(w)
    PROVE  Inv'
<1>1. PICK c \in Contract, k \in Events(Here(w)) : c = Here(w) /\ k = pos[w]
  BY HereFacts, CurrentFacts DEF Inv, AddPoolTotal
<1>2. /\ Grows /\ Mirrored(c, k)'
      /\ totals' \in [Contract -> [Position -> 0..MaxCopies]]
  BY <1>1, TotalGrows
<1>3. /\ GoodWorker(w)'
      /\ \A v \in Worker \ {w} : Still(v)
      /\ lastLedger' \in [Worker -> Nat] /\ pos' \in [Worker -> Nat]
      /\ pc' \in [Worker -> {"down", "read", "fetch", "store", "total", "save", "sleep"}]
  BY <1>1, <1>2, NextEventKeeps DEF AddPoolTotal
<1>4. SyncInv'
  BY <1>2, <1>3, SyncKept DEF AddPoolTotal
<1>5. LeavesInChainOrder'
  BY <1>2, LeavesKept DEF AddPoolTotal
<1>6. TypeOK'
  BY <1>2, <1>3 DEF Inv, TypeOK, AddPoolTotal
<1> QED
  BY <1>4, <1>5, <1>6 DEF Inv

(* The issuer upsert keeps the invariant.                                    *)
LEMMA StoreIssuerKeeps ==
    ASSUME Inv, NEW w \in Worker, StoreIssuer(w)
    PROVE  Inv'
<1>1. PICK c \in Contract, k \in Events(Here(w)) : c = Here(w) /\ k = pos[w]
  BY HereFacts, CurrentFacts DEF Inv, StoreIssuer
<1>2. /\ Grows /\ Mirrored(c, k)'
      /\ issuers' \in [Issuer -> Status \cup {NoStatus}]
  BY <1>1, IssuerGrows
<1>3. /\ GoodWorker(w)'
      /\ \A v \in Worker \ {w} : Still(v)
      /\ lastLedger' \in [Worker -> Nat] /\ pos' \in [Worker -> Nat]
      /\ pc' \in [Worker -> {"down", "read", "fetch", "store", "total", "save", "sleep"}]
  BY <1>1, <1>2, NextEventKeeps DEF StoreIssuer
<1>4. SyncInv'
  BY <1>2, <1>3, SyncKept DEF StoreIssuer
<1>5. LeavesInChainOrder'
  BY <1>2, LeavesKept DEF StoreIssuer
<1>6. TypeOK'
  BY <1>2, <1>3 DEF Inv, TypeOK, StoreIssuer
<1> QED
  BY <1>4, <1>5, <1>6 DEF Inv

(* Passing over an event that does not decode keeps the invariant.           *)
LEMMA SkipEventKeeps ==
    ASSUME Inv, NEW w \in Worker, SkipEvent(w)
    PROVE  Inv'
<1>1. PICK c \in Contract, k \in Events(Here(w)) : c = Here(w) /\ k = pos[w]
  BY HereFacts, CurrentFacts DEF Inv, SkipEvent
<1>2. Grows
  BY SameRows DEF SkipEvent, Inv, TypeOK, db, rows
<1>3. Mirrored(c, k)'
  BY <1>1 DEF SkipEvent, Mirrored, Current
<1>4. /\ GoodWorker(w)'
      /\ \A v \in Worker \ {w} : Still(v)
      /\ lastLedger' \in [Worker -> Nat] /\ pos' \in [Worker -> Nat]
      /\ pc' \in [Worker -> {"down", "read", "fetch", "store", "total", "save", "sleep"}]
  BY <1>1, <1>2, <1>3, NextEventKeeps DEF SkipEvent
<1>5. SyncInv'
  BY <1>2, <1>4, SyncKept DEF SkipEvent, db
<1>6. LeavesInChainOrder'
  BY <1>2, LeavesKept DEF SkipEvent, db
<1>7. TypeOK'
  BY <1>4 DEF Inv, TypeOK, SkipEvent, db
<1> QED
  BY <1>5, <1>6, <1>7 DEF Inv

(* A new leaf is the chain's next one: it is the first with its commitment,  *)
(* or an earlier event's row would be in the way, and what comes before it   *)
(* was stored.                                                               *)
LEMMA NewLeafInOrder ==
    ASSUME Inv, NEW w \in Worker, StoreCommitment(w)
    PROVE  LeavesInChainOrder'
<1>0. head' = head
  BY DEF StoreCommitment
<1>1. PICK c \in Contract, k \in Events(Here(w)) : c = Here(w) /\ k = pos[w]
  BY HereFacts, CurrentFacts DEF Inv, StoreCommitment
<1>2. /\ Grows
      /\ \A s \in commitments'[c] :
            \/ s \in commitments[c]
            \/ /\ s = LeafOf(Chain[c][k])
               /\ ~ \E q \in commitments[c] : q.cm = Chain[c][k].cm
      /\ \A d \in Contract \ {c} : commitments'[d] = commitments[d]
  <2>1. /\ c \in Contract /\ c = Here(w)
        /\ k \in Events(c) /\ k = pos[w]
    BY <1>1
  <2> QED
    BY <2>1, CommitmentGrows
<1>3. /\ GoodPage(w) /\ Chain[c][k].kind = "commit"
      /\ k \in Nat /\ page[w].to \in Nat /\ k <= page[w].to
  BY <1>1, CurrentFacts DEF Inv, StoreCommitment, Current
<1>4. page[w].latest \in Nat /\ head \in Nat
  BY DEF Inv, TypeOK, Page
<1>5. Chain[c][k].ledger <= head
  BY <1>1, <1>3, <1>4, EventFacts DEF GoodPage
<1>6. \A j \in Events(c) : j < k /\ Chain[c][j].kind = "commit" => Inserted(c, j)
  BY <1>1, <1>3 DEF GoodPage, Mirrored
<1>7. \A j \in First(c) : j < k => Stored(c, j)'
  <2> SUFFICES ASSUME NEW j \in First(c), j < k
               PROVE  Stored(c, j)'
    OBVIOUS
  <2>1. j \in Events(c) /\ Inserted(c, j) /\ ~ Repeats(c, j)
    BY <1>6, FirstFacts
  <2>2. Stored(c, j)
    BY <2>1 DEF Inserted, ShutOut
  <2> QED
    BY <1>2, <2>1, <2>2 DEF Grows
<1>8. k \in First(c) \/ \E q \in commitments[c] : q.cm = Chain[c][k].cm
  <2>1. CASE Repeats(c, k)
    <3>1. PICK i \in Events(c) : i < k /\ Chain[c][i].kind = "commit"
                                /\ Chain[c][i].cm = Chain[c][k].cm
      BY <2>1 DEF Repeats
    <3>2. Inserted(c, i)
      BY <1>6, <3>1
    <3> QED
      BY <3>1, <3>2, InsertedHasRow
  <2>2. CASE ~ Repeats(c, k)
    BY <1>1, <1>3, <2>2 DEF First
  <2> QED
    BY <2>1, <2>2
<1> SUFFICES ASSUME NEW d \in Contract, NEW r \in commitments'[d]
             PROVE  \E n \in First(d) :
                      /\ LeafOf(Chain[d][n]) = r
                      /\ Chain[d][n].ledger <= head'
                      /\ \A j \in First(d) : j < n => Stored(d, j)'
  BY DEF LeavesInChainOrder
<1>9. CASE r \in commitments[d]
  <2>1. PICK n \in First(d) :
            /\ LeafOf(Chain[d][n]) = r
            /\ Chain[d][n].ledger <= head
            /\ \A j \in First(d) : j < n => Stored(d, j)
    BY <1>9 DEF Inv, LeavesInChainOrder
  <2>2. \A j \in First(d) : j < n => Stored(d, j)'
    BY <1>2, <2>1, FirstFacts DEF Grows
  <2> QED
    BY <1>0, <2>1, <2>2
<1>10. CASE r \notin commitments[d]
  <2>1. d = c /\ r = LeafOf(Chain[c][k])
        /\ ~ \E q \in commitments[c] : q.cm = Chain[c][k].cm
    BY <1>2, <1>10
  <2> QED
    BY <1>0, <1>5, <1>7, <1>8, <2>1
<1> QED
  BY <1>9, <1>10

(* The commitments INSERT keeps the invariant.                               *)
LEMMA StoreCommitmentKeeps ==
    ASSUME Inv, NEW w \in Worker, StoreCommitment(w)
    PROVE  Inv'
<1>1. PICK c \in Contract, k \in Events(Here(w)) : c = Here(w) /\ k = pos[w]
  BY HereFacts, CurrentFacts DEF Inv, StoreCommitment
<1>2. /\ Grows /\ Inserted(c, k)'
      /\ commitments' \in [Contract -> SUBSET LeafRow]
  BY <1>1, CommitmentGrows
<1>3. Chain[c][k].kind = "commit" /\ Chain[c][k].paid \in BOOLEAN
  BY <1>1, CommitFacts DEF StoreCommitment, Current
<1>4. /\ GoodWorker(w)'
      /\ \A v \in Worker \ {w} : Still(v)
      /\ lastLedger' \in [Worker -> Nat] /\ pos' \in [Worker -> Nat]
      /\ pc' \in [Worker -> {"down", "read", "fetch", "store", "total", "save", "sleep"}]
  <2>1. CASE Chain[c][k].paid
    <3>1. pc' = [pc EXCEPT ![w] = "total"] /\ UNCHANGED <<lastLedger, pos>>
      BY <1>1, <2>1 DEF StoreCommitment, Current
    <3>2. pc'[w] = "total" /\ \A v \in Worker \ {w} : Still(v)
      BY <3>1 DEF StoreCommitment, Still, Inv, TypeOK
    <3>3. GoodPage(w) /\ pos[w] # page[w].to + 1
      BY <1>1, CurrentFacts DEF Inv, StoreCommitment
    <3>4. Here(w)' = c /\ Current(w)' = Chain[c][k]
      BY <1>1, <3>1 DEF Here, Current, StoreCommitment
    <3>5. \A j \in Events(c) : Mirrored(c, j) => Mirrored(c, j)'
      BY <1>2 DEF Grows
    <3>6. GoodPage(w)'
      BY <1>1, <1>2, <1>3, <2>1, <3>1, <3>2, <3>3, <3>4, <3>5
         DEF GoodPage, StoreCommitment
    <3> QED
      BY <3>1, <3>2, <3>6 DEF GoodWorker, Inv, TypeOK
  <2>2. CASE ~ Chain[c][k].paid
    <3>1. NextEvent(w)
      BY <1>1, <2>2 DEF StoreCommitment, Current
    <3>2. Mirrored(c, k)'
      BY <1>2, <1>3, <2>2 DEF Mirrored
    <3> QED
      BY <1>1, <1>2, <3>1, <3>2, NextEventKeeps DEF StoreCommitment
  <2> QED
    BY <1>3, <2>1, <2>2
<1>5. SyncInv'
  BY <1>2, <1>4, SyncKept DEF StoreCommitment
<1>6. LeavesInChainOrder'
  BY NewLeafInOrder
<1>7. TypeOK'
  BY <1>2, <1>4 DEF Inv, TypeOK, StoreCommitment
<1> QED
  BY <1>5, <1>6, <1>7 DEF Inv

(* A worker that leaves sync_contract, or dies, holds nothing any more.      *)
LEMMA LeaveFacts ==
    ASSUME Inv, NEW w \in Worker, Leave(w) \/ Stop(w)
    PROVE  /\ GoodWorker(w)'
           /\ \A v \in Worker \ {w} : Still(v)
           /\ pc' \in [Worker -> {"down", "read", "fetch", "store", "total", "save", "sleep"}]
           /\ at' \in [Worker -> 1..Len(Order)]
           /\ lastLedger' \in [Worker -> Nat] /\ cursor' \in [Worker -> CursorValue]
           /\ page' \in [Worker -> Page] /\ pos' \in [Worker -> Nat]
<1>1. at[w] \in 1..Len(Order) /\ Len(Order) \in Nat /\ Len(Order) > 0
  BY HereFacts DEF Inv
<1>2. NoPage \in Page /\ NoCursor \in CursorValue
  BY DEF NoPage, Page, CursorValue
<1>3. pc'[w] \in {"down", "read", "sleep"}
  BY DEF Leave, Stop, Inv, TypeOK
<1>4. GoodWorker(w)'
  BY <1>3 DEF GoodWorker
<1>5. \A v \in Worker \ {w} : Still(v)
  BY DEF Leave, Stop, Still, Inv, TypeOK
<1>6. at' \in [Worker -> 1..Len(Order)]
  <2>1. at \in [Worker -> 1..Len(Order)]
    BY DEF Inv, TypeOK
  <2>2. (IF at[w] = Len(Order) THEN 1 ELSE at[w] + 1) \in 1..Len(Order) /\ 1 \in 1..Len(Order)
    BY <1>1
  <2> QED
    BY <2>1, <2>2 DEF Leave, Stop
<1>7. pc' \in [Worker -> {"down", "read", "fetch", "store", "total", "save", "sleep"}]
  BY DEF Leave, Stop, Inv, TypeOK
<1>8. /\ lastLedger' \in [Worker -> Nat] /\ cursor' \in [Worker -> CursorValue]
      /\ page' \in [Worker -> Page] /\ pos' \in [Worker -> Nat]
  <2>1. /\ lastLedger \in [Worker -> Nat] /\ cursor \in [Worker -> CursorValue]
        /\ page \in [Worker -> Page] /\ pos \in [Worker -> Nat]
    BY DEF Inv, TypeOK
  <2>2. /\ lastLedger' = [lastLedger EXCEPT ![w] = 0]
        /\ cursor' = [cursor EXCEPT ![w] = NoCursor]
        /\ page' = [page EXCEPT ![w] = NoPage]
        /\ pos' = [pos EXCEPT ![w] = 0]
    BY DEF Leave, Stop
  <2> QED
    BY <1>2, <2>1, <2>2
<1> QED
  BY <1>4, <1>5, <1>6, <1>7, <1>8

(* The steps that end a sync without touching the database.                  *)
LEMMA GivingUpKeeps ==
    ASSUME Inv, NEW w \in Worker,
           \/ RefusedByStore(w) \/ SyncError(w) \/ Crash(w) \/ ShutdownSignal(w)
    PROVE  Inv'
<1>1. Leave(w) \/ Stop(w)
  BY DEF RefusedByStore, SyncError, Crash, ShutdownSignal
<1>2. UNCHANGED <<head, db, overlapped>> /\ faults' \in 0..MaxFaults
  BY IndexerAssumption
     DEF RefusedByStore, SyncError, Crash, ShutdownSignal, Inv, TypeOK
<1>3. Grows
  BY <1>2, SameRows DEF Inv, TypeOK, db, rows
<1>4. SyncInv'
  BY <1>1, <1>2, <1>3, LeaveFacts, SyncKept DEF db
<1>5. LeavesInChainOrder'
  BY <1>2, <1>3, LeavesKept DEF db
<1>6. TypeOK'
  BY <1>1, <1>2, LeaveFacts DEF Inv, TypeOK, db
<1> QED
  BY <1>4, <1>5, <1>6 DEF Inv

(* The steps that start a pass, and the chain's own.                         *)
LEMMA StartingKeeps ==
    ASSUME Inv, NEW w \in Worker, Start(w) \/ Wake(w)
    PROVE  Inv'
<1>1. /\ pc' = [pc EXCEPT ![w] = "read"]
      /\ UNCHANGED <<head, db, at, lastLedger, cursor, page, pos, faults>>
      /\ overlapped' \in BOOLEAN
  BY DEF Start, Wake, Inv, TypeOK
<1>2. Grows
  BY <1>1, SameRows DEF Inv, TypeOK, db, rows
<1>3. pc'[w] = "read" /\ \A v \in Worker \ {w} : Still(v)
  BY <1>1 DEF Still, Inv, TypeOK
<1>4. SyncInv'
  BY <1>1, <1>2, <1>3, SyncKept DEF GoodWorker, db
<1>5. LeavesInChainOrder'
  BY <1>1, <1>2, LeavesKept DEF db
<1>6. TypeOK'
  BY <1>1 DEF Inv, TypeOK, db
<1> QED
  BY <1>4, <1>5, <1>6 DEF Inv

(* A new ledger on the chain keeps the invariant.                            *)
LEMMA CloseLedgerKeeps ==
    ASSUME Inv, CloseLedger
    PROVE  Inv'
<1>1. head' = head + 1 /\ head' \in 0..MaxLedger /\ head \in Nat
  BY IndexerAssumption DEF CloseLedger, Inv, TypeOK
<1>2. Grows
  BY <1>1, SameRows DEF CloseLedger, db, rows, Inv
<1>3. \A v \in Worker : Still(v)
  BY DEF CloseLedger, local, Still
<1>4. SyncInv'
  BY <1>2, <1>3, CursorsKept, WorkerKept DEF SyncInv, CloseLedger, db
<1>5. LeavesInChainOrder'
  BY <1>2, LeavesKept DEF CloseLedger, db
<1>6. TypeOK'
  BY <1>1 DEF Inv, TypeOK, CloseLedger, db, local
<1> QED
  BY <1>4, <1>5, <1>6 DEF Inv

(* Reading the cursor row keeps the invariant: it is a good start.           *)
LEMMA ReadCursorKeeps ==
    ASSUME Inv, NEW w \in Worker, ReadCursor(w)
    PROVE  Inv'
<1> DEFINE c == Here(w)
<1>1. c \in Contract /\ Here(w)' = c
  BY HereFacts DEF Inv, ReadCursor, Here
<1>2. Grows
  BY SameRows DEF ReadCursor, Inv, TypeOK, db, rows
<1>3. cursors[c] \in CursorRow /\ cursors[c].ledger \in Nat /\ cursors[c].cursor \in CursorValue
  BY <1>1 DEF Inv, TypeOK, CursorRow
<1>4. /\ pc'[w] = "fetch"
      /\ lastLedger'[w] = cursors[c].ledger /\ cursor'[w] = cursors[c].cursor
      /\ \A v \in Worker \ {w} : Still(v)
  BY DEF ReadCursor, Still, Inv, TypeOK
<1>5. GoodStart(c, cursors[c].ledger, cursors[c].cursor)'
  BY <1>1, <1>2, CursorsKept DEF ReadCursor, db
<1>6. GoodWorker(w)'
  BY <1>1, <1>4, <1>5 DEF GoodWorker, GoodStart, ReadCursor, db
<1>7. SyncInv'
  BY <1>2, <1>4, <1>6, SyncKept DEF ReadCursor, db
<1>8. LeavesInChainOrder'
  BY <1>2, LeavesKept DEF ReadCursor, db
<1>9. TypeOK'
  BY <1>3 DEF Inv, TypeOK, ReadCursor, db
<1> QED
  BY <1>7, <1>8, <1>9 DEF Inv

(* A fetched page starts right after what the worker's start covers and ends *)
(* where its cursor, or the node's newest ledger, says.                      *)
LEMMA GetEventsKeeps ==
    ASSUME Inv, NEW w \in Worker, GetEvents(w)
    PROVE  Inv'
<1> DEFINE c == Here(w)
           last == lastLedger[w]
           cur == cursor[w]
<1>1. /\ c \in Contract /\ Here(w)' = c
      /\ Len(Chain[c]) \in Nat /\ head \in Nat /\ last \in Nat /\ cur \in CursorValue
  BY HereFacts, IndexerAssumption DEF Inv, TypeOK, GetEvents, Here
<1>2. Grows
  BY SameRows DEF GetEvents, Inv, TypeOK, db, rows
<1>3. GoodStart(c, last, cur)
  BY DEF Inv, SyncInv, GoodWorker, GetEvents
<1>4. PICK from \in 0..Len(Chain[c]), seen \in 0..Len(Chain[c]),
           to \in 0..Len(Chain[c]), next \in CursorValue :
          /\ ResumesAt(c, from, last, cur) /\ ServesUpTo(c, seen, head)
          /\ from <= to /\ (to = from \/ to <= seen)
          /\ next = to \/ (to >= seen /\ next = NoCursor)
          /\ page' = [page EXCEPT ![w] =
                        [from |-> from, to |-> to, cursor |-> next, latest |-> head]]
          /\ pos' = [pos EXCEPT ![w] = from + 1]
          /\ pc' = [pc EXCEPT ![w] = IF from = to THEN "save" ELSE "store"]
  <2>1. PICK from \in 0..Len(Chain[c]), seen \in 0..Len(Chain[c]) :
            /\ ResumesAt(c, from, last, cur) /\ ServesUpTo(c, seen, head)
            /\ LET to == IF seen <= from THEN from
                         ELSE IF seen <= from + PageSize THEN seen ELSE from + PageSize
               IN  /\ \E next \in {to} \cup (IF to >= seen THEN {NoCursor} ELSE {}) :
                         page' = [page EXCEPT ![w] =
                            [from |-> from, to |-> to, cursor |-> next, latest |-> head]]
                   /\ pos' = [pos EXCEPT ![w] = from + 1]
                   /\ pc' = [pc EXCEPT ![w] = IF from = to THEN "save" ELSE "store"]
    BY DEF GetEvents
  <2> DEFINE to == IF seen <= from THEN from
                   ELSE IF seen <= from + PageSize THEN seen ELSE from + PageSize
  <2>2. /\ to \in 0..Len(Chain[c]) /\ to \in Nat
        /\ from <= to /\ (to = from \/ to <= seen)
    BY <1>1, IndexerAssumption
  <2>3. PICK next \in {to} \cup (IF to >= seen THEN {NoCursor} ELSE {}) :
            page' = [page EXCEPT ![w] =
                       [from |-> from, to |-> to, cursor |-> next, latest |-> head]]
    BY <2>1
  <2>4. /\ next \in CursorValue
        /\ next = to \/ (to >= seen /\ next = NoCursor)
    BY <2>2, <2>3 DEF CursorValue
  <2> HIDE DEF to
  <2> QED
    BY <2>1, <2>2, <2>3, <2>4 DEF to
<1>5. \A j \in Events(c) : j \in Nat /\ Chain[c][j].ledger \in Nat
  BY <1>1, EventFacts
<1>6. \A j \in Events(c) : j <= from => Covers(c, last, cur, j)
  <2> SUFFICES ASSUME NEW j \in Events(c), j <= from
               PROVE  Covers(c, last, cur, j)
    OBVIOUS
  <2>1. j \in Nat /\ Chain[c][j].ledger \in Nat
    BY <1>5
  <2>2. CASE cur = NoCursor
    <3>1. Chain[c][j].ledger < Max(last + 1, 1)
      BY <1>4, <2>2 DEF ResumesAt
    <3>2. Chain[c][j].ledger <= last
      BY <1>1, <2>1, <3>1 DEF Max
    <3> QED
      BY <2>2, <3>2 DEF Covers
  <2>3. CASE cur # NoCursor
    <3>1. from = cur
      BY <1>4, <2>3 DEF ResumesAt
    <3> QED
      BY <2>3, <3>1 DEF Covers
  <2> QED
    BY <2>2, <2>3
<1>7. \A j \in Events(c) : j <= from => Chain[c][j].ledger <= head /\ Mirrored(c, j)
  BY <1>3, <1>6 DEF GoodStart
<1>8. last <= head
  BY <1>3 DEF GoodStart
<1>9. \A j \in Events(c) : j <= to => Chain[c][j].ledger <= head
  BY <1>1, <1>4, <1>5, <1>7 DEF ServesUpTo
<1>10. next = NoCursor => \A j \in Events(c) : Chain[c][j].ledger <= head => j <= to
  <2> SUFFICES ASSUME next = NoCursor, NEW j \in Events(c), Chain[c][j].ledger <= head
               PROVE  j <= to
    OBVIOUS
  <2>1. to >= seen
    BY <1>4, IndexerAssumption
  <2>2. j <= seen
    BY <1>4 DEF ServesUpTo
  <2> QED
    BY <1>4, <1>5, <2>1, <2>2
<1>11. \A j \in Events(c) : j < from + 1 => Mirrored(c, j)'
  BY <1>1, <1>2, <1>4, <1>5, <1>7 DEF Grows
<1>12. /\ page'[w] = [from |-> from, to |-> to, cursor |-> next, latest |-> head]
       /\ pos'[w] = from + 1
       /\ pc'[w] = IF from = to THEN "save" ELSE "store"
       /\ lastLedger'[w] = last /\ head' = head
       /\ \A v \in Worker \ {w} : Still(v)
  BY <1>4 DEF GetEvents, Still, Inv, TypeOK
<1>13. GoodPage(w)'
  <2>1. /\ page'[w].from = from /\ page'[w].to = to
        /\ page'[w].cursor = next /\ page'[w].latest = head
    BY <1>12
  <2>2. pc'[w] = "save" <=> pos'[w] = to + 1
    BY <1>1, <1>4, <1>12
  <2>3. pc'[w] # "total" /\ pos'[w] \in (from + 1)..(to + 1)
    BY <1>1, <1>4, <1>12
  <2> QED
    BY <1>1, <1>4, <1>5, <1>8, <1>9, <1>10, <1>11, <1>12, <2>1, <2>2, <2>3 DEF GoodPage
<1>14. GoodWorker(w)'
  BY <1>12, <1>13 DEF GoodWorker
<1>15. SyncInv'
  BY <1>2, <1>12, <1>14, SyncKept DEF GetEvents, db
<1>16. LeavesInChainOrder'
  BY <1>2, LeavesKept DEF GetEvents, db
<1>17. page' \in [Worker -> Page] /\ pos' \in [Worker -> Nat]
  BY <1>1, <1>4 DEF Inv, TypeOK, Page
<1>18. TypeOK'
  BY <1>4, <1>17 DEF Inv, TypeOK, GetEvents, db
<1> QED
  BY <1>15, <1>16, <1>18 DEF Inv

(* The saved cursor covers only events before pos, all of them mirrored.     *)
LEMMA SaveCursorKeeps ==
    ASSUME Inv, NEW w \in Worker, SaveCursor(w)
    PROVE  Inv'
<1>0. PICK c \in Contract : c = Here(w)
  BY HereFacts DEF Inv
<1> DEFINE done == page[w].from = page[w].to
           last == IF done THEN Max(lastLedger[w], page[w].latest) ELSE lastLedger[w]
           next == page[w].cursor
<1>1. /\ head \in Nat
      /\ page[w] \in Page /\ page[w].from \in Nat /\ page[w].to \in Nat
      /\ page[w].latest \in Nat /\ next \in CursorValue
      /\ lastLedger[w] \in Nat /\ pos[w] \in Nat
  BY DEF Inv, TypeOK, Page
<1>2. Grows
  BY SameRows DEF SaveCursor, Inv, TypeOK, rows
<1>3. GoodPage(w) /\ pos[w] = page[w].to + 1
  BY DEF SaveCursor, Inv, SyncInv, GoodWorker, GoodPage
<1>4. last \in Nat /\ last <= page[w].latest /\ page[w].latest <= head
  BY <1>1, <1>3 DEF GoodPage, Max
<1>5. \A j \in Events(c) : j \in Nat /\ Chain[c][j].ledger \in Nat
  BY <1>1, EventFacts
<1>6. \A j \in Events(c) : Covers(c, last, next, j) => j <= page[w].to
  BY <1>0, <1>1, <1>3, <1>4, <1>5 DEF GoodPage, Covers
<1>7. \A j \in Events(c) :
         j <= page[w].to => Chain[c][j].ledger <= head /\ Mirrored(c, j)
  BY <1>0, <1>1, <1>3, <1>4, <1>5 DEF GoodPage
<1>8. last <= head /\ \A j \in Events(c) :
         Covers(c, last, next, j) => Chain[c][j].ledger <= head /\ Mirrored(c, j)'
  <2>1. last <= head
    BY <1>1, <1>4
  <2>2. ASSUME NEW j \in Events(c), Covers(c, last, next, j)
        PROVE  Chain[c][j].ledger <= head /\ Mirrored(c, j)'
    BY <1>1, <1>2, <1>6, <1>7, <2>2 DEF Grows
  <2> QED
    BY <2>1, <2>2
<1>9. cursors \in [Contract -> CursorRow]
  BY DEF Inv, TypeOK
<1>10. /\ cursors' = [cursors EXCEPT ![c] = [ledger |-> last, cursor |-> next]]
       /\ head' = head
  BY <1>0 DEF SaveCursor
<1>11. \A d \in Contract : GoodStart(d, cursors[d].ledger, cursors[d].cursor)'
  <2> SUFFICES ASSUME NEW d \in Contract
               PROVE  GoodStart(d, cursors[d].ledger, cursors[d].cursor)'
    OBVIOUS
  <2>1. CASE d = c
    <3>1. cursors'[d].ledger = last /\ cursors'[d].cursor = next
      BY <1>1, <1>9, <1>10, <2>1
    <3> QED
      BY <1>8, <1>10, <2>1, <3>1 DEF GoodStart, Covers
  <2>2. CASE d # c
    <3>1. /\ cursors'[d] = cursors[d] /\ cursors[d].ledger \in Nat
          /\ GoodStart(d, cursors[d].ledger, cursors[d].cursor)
      BY <1>9, <1>10, <2>2 DEF Inv, SyncInv, CursorRow
    <3>2. \A j \in Events(d) : Chain[d][j].ledger \in Nat
      BY EventFacts
    <3> QED
      BY <1>2, <1>10, <3>1, <3>2 DEF GoodStart, Covers, Grows
  <2> QED
    BY <2>1, <2>2
<1>12. /\ GoodWorker(w)'
       /\ \A v \in Worker \ {w} : Still(v)
       /\ pc' \in [Worker -> {"down", "read", "fetch", "store", "total", "save", "sleep"}]
       /\ at' \in [Worker -> 1..Len(Order)]
       /\ lastLedger' \in [Worker -> Nat] /\ cursor' \in [Worker -> CursorValue]
       /\ page' \in [Worker -> Page] /\ pos' \in [Worker -> Nat]
  <2>1. CASE done
    <3>1. Leave(w)
      BY <2>1 DEF SaveCursor
    <3> QED
      BY <3>1, LeaveFacts
  <2>2. CASE ~ done
    <3>1. /\ pc' = [pc EXCEPT ![w] = "fetch"]
          /\ cursor' = [cursor EXCEPT ![w] = next]
          /\ page' = [page EXCEPT ![w] = NoPage]
          /\ pos' = [pos EXCEPT ![w] = 0]
          /\ UNCHANGED <<at, lastLedger>>
      BY <2>2 DEF SaveCursor
    <3>2. /\ \A v \in Worker \ {w} : Still(v)
          /\ pc' \in [Worker -> {"down", "read", "fetch", "store", "total", "save", "sleep"}]
          /\ at' \in [Worker -> 1..Len(Order)] /\ lastLedger' \in [Worker -> Nat]
      BY <3>1 DEF Still, Inv, TypeOK
    <3>3. NoPage \in Page
      BY DEF NoPage, Page, CursorValue
    <3>4. /\ cursor' \in [Worker -> CursorValue]
          /\ page' \in [Worker -> Page] /\ pos' \in [Worker -> Nat]
      BY <1>1, <3>1, <3>3 DEF Inv, TypeOK
    <3>5. /\ pc'[w] = "fetch" /\ cursor'[w] = next /\ lastLedger'[w] = last
          /\ Here(w)' = c
      BY <1>0, <2>2, <3>1 DEF Inv, TypeOK, Here
    <3>6. GoodWorker(w)'
      BY <1>8, <1>10, <3>5 DEF GoodWorker, GoodStart, Covers
    <3> QED
      BY <3>2, <3>4, <3>6
  <2> QED
    BY <2>1, <2>2
<1>13. SyncInv'
  BY <1>2, <1>11, <1>12, WorkerKept DEF SyncInv
<1>14. LeavesInChainOrder'
  BY <1>2, LeavesKept DEF SaveCursor, rows
<1>15. cursors' \in [Contract -> CursorRow]
  BY <1>1, <1>4, <1>9, <1>10 DEF CursorRow
<1>16. TypeOK'
  BY <1>12, <1>15 DEF Inv, TypeOK, SaveCursor, rows
<1> QED
  BY <1>13, <1>14, <1>16 DEF Inv

-----------------------------------------------------------------------------
(* The types, SyncInv and LeavesInChainOrder hold initially: every table is  *)
(* empty, the chain has no ledger, and every worker is down.                 *)
LEMMA InitInv == Init => Inv
<1> SUFFICES ASSUME Init PROVE Inv
  OBVIOUS
<1>1. 1 \in 1..Len(Order)
  BY IndexerAssumption
<1>2. TypeOK
  <2>1. [ledger |-> 0, cursor |-> NoCursor] \in CursorRow /\ NoPage \in Page
    BY DEF CursorRow, CursorValue, Page, NoPage
  <2>2. 0 \in 0..MaxLedger /\ 0 \in 0..MaxFaults /\ 0 \in 0..MaxCopies
    BY IndexerAssumption
  <2>3. /\ head \in 0..MaxLedger /\ faults \in 0..MaxFaults /\ overlapped \in BOOLEAN
        /\ cursors \in [Contract -> CursorRow] /\ page \in [Worker -> Page]
        /\ at \in [Worker -> 1..Len(Order)] /\ cursor \in [Worker -> CursorValue]
    BY <1>1, <2>1, <2>2 DEF Init, CursorValue
  <2>4. /\ noteRows \in [Contract -> [Position -> 0..MaxCopies]]
        /\ totals \in [Contract -> [Position -> 0..MaxCopies]]
    BY <2>2 DEF Init
  <2>5. /\ commitments \in [Contract -> SUBSET LeafRow]
        /\ nullifiers \in [Contract -> SUBSET Nullifier]
        /\ issuers \in [Issuer -> Status \cup {NoStatus}]
        /\ lastLedger \in [Worker -> Nat] /\ pos \in [Worker -> Nat]
        /\ pc \in [Worker -> {"down", "read", "fetch", "store", "total", "save", "sleep"}]
    BY DEF Init
  <2> QED
    BY <2>3, <2>4, <2>5 DEF TypeOK
<1>3. \A c \in Contract : GoodStart(c, cursors[c].ledger, cursors[c].cursor)
  <2> SUFFICES ASSUME NEW c \in Contract
               PROVE  GoodStart(c, cursors[c].ledger, cursors[c].cursor)
    OBVIOUS
  <2>1. head = 0 /\ cursors[c].ledger = 0 /\ cursors[c].cursor = NoCursor
    BY DEF Init
  <2>2. \A j \in Events(c) : Chain[c][j].ledger \in 1..MaxLedger
    BY EventFacts
  <2> QED
    BY <2>1, <2>2, IndexerAssumption DEF GoodStart, Covers
<1>4. SyncInv
  BY <1>3 DEF SyncInv, GoodWorker, Init
<1>5. LeavesInChainOrder
  BY DEF LeavesInChainOrder, Init
<1> QED
  BY <1>2, <1>4, <1>5 DEF Inv

(* A step that changes nothing keeps the invariant.                          *)
LEMMA StutterKeeps ==
    ASSUME Inv, UNCHANGED vars
    PROVE  Inv'
<1>1. Grows
  BY SameRows DEF vars, db, rows, Inv, TypeOK
<1>2. \A v \in Worker : Still(v)
  BY DEF vars, local, Still
<1>3. SyncInv'
  BY <1>1, <1>2, CursorsKept, WorkerKept DEF SyncInv, vars, db
<1>4. LeavesInChainOrder'
  BY <1>1, LeavesKept DEF vars, db
<1>5. TypeOK'
  BY DEF Inv, TypeOK, vars, db, local
<1> QED
  BY <1>3, <1>4, <1>5 DEF Inv

(* Every step keeps the invariant.                                           *)
LEMMA NextInv == Inv /\ [Next]_vars => Inv'
<1> SUFFICES ASSUME Inv, [Next]_vars PROVE Inv'
  OBVIOUS
<1>1. CASE UNCHANGED vars
  BY <1>1, StutterKeeps
<1>2. CASE CloseLedger
  BY <1>2, CloseLedgerKeeps
<1>3. ASSUME NEW w \in Worker, Start(w) \/ Wake(w) PROVE Inv'
  BY <1>3, StartingKeeps
<1>4. ASSUME NEW w \in Worker, ReadCursor(w) PROVE Inv'
  BY <1>4, ReadCursorKeeps
<1>5. ASSUME NEW w \in Worker, GetEvents(w) PROVE Inv'
  BY <1>5, GetEventsKeeps
<1>6. ASSUME NEW w \in Worker, StoreCommitment(w) PROVE Inv'
  BY <1>6, StoreCommitmentKeeps
<1>7. ASSUME NEW w \in Worker, StoreNullifier(w) PROVE Inv'
  BY <1>7, StoreNullifierKeeps
<1>8. ASSUME NEW w \in Worker, StoreNote(w) PROVE Inv'
  BY <1>8, StoreNoteKeeps
<1>9. ASSUME NEW w \in Worker, AddPoolTotal(w) PROVE Inv'
  BY <1>9, AddPoolTotalKeeps
<1>10. ASSUME NEW w \in Worker, StoreIssuer(w) PROVE Inv'
  BY <1>10, StoreIssuerKeeps
<1>11. ASSUME NEW w \in Worker, SkipEvent(w) PROVE Inv'
  BY <1>11, SkipEventKeeps
<1>12. ASSUME NEW w \in Worker, SaveCursor(w) PROVE Inv'
  BY <1>12, SaveCursorKeeps
<1>13. ASSUME NEW w \in Worker,
              RefusedByStore(w) \/ SyncError(w) \/ Crash(w) \/ ShutdownSignal(w)
       PROVE  Inv'
  BY <1>13, GivingUpKeeps
<1> QED
  BY <1>1, <1>2, <1>3, <1>4, <1>5, <1>6, <1>7, <1>8, <1>9, <1>10, <1>11, <1>12, <1>13
     DEF Next, Work, Proceed

(* Inv is an invariant of the indexer.                                       *)
THEOREM Invariance == Spec => []Inv
<1>1. Init => Inv
  BY InitInv
<1>2. Inv /\ [Next]_vars => Inv'
  BY NextInv
<1> QED
  BY <1>1, <1>2, PTL DEF Spec

(* Every table, cursor and local of sync_contract keeps its type.            *)
THEOREM TypeCorrect == Spec => []TypeOK
<1>1. Inv => TypeOK
  BY DEF Inv
<1> QED
  BY <1>1, Invariance, PTL

(* However many indexers run, crash and fail, the cursor row of sync_contract *)
(* never covers an event that store_event has not mirrored.                   *)
THEOREM CursorNeverSkips == Spec => []NoSkip
<1>1. Inv => NoSkip
  BY DEF Inv, SyncInv, GoodStart, NoSkip, Settled
<1> QED
  BY <1>1, Invariance, PTL

(* Before each row of `commitments` every earlier leaf of the chain has its   *)
(* own row, unless it repeats a commitment: whatever crashes, errors and      *)
(* other indexers do, the only gaps tree.rs can meet are those repeats and    *)
(* the commitments that decode turned down.                                   *)
THEOREM LeavesArriveInOrder == Spec => []LeavesInChainOrder
<1>1. Inv => LeavesInChainOrder
  BY DEF Inv
<1> QED
  BY <1>1, Invariance, PTL

(* The two invariants the previous theorems rest on.                          *)
THEOREM WorkersAgreeWithTables == Spec => []SyncInv
<1>1. Inv => SyncInv
  BY DEF Inv
<1> QED
  BY <1>1, Invariance, PTL

-----------------------------------------------------------------------------
(* The rows of a pool carry ledgers that follow their leaf indexes, because  *)
(* each is a leaf of the chain.                                              *)
LEMMA RowsFollowChain ==
    ASSUME TypeOK, LeavesInChainOrder, NEW c \in Contract
    PROVE  Log!LedgersFollowLeaves(commitments[c])
<1> SUFFICES ASSUME NEW a \in commitments[c], NEW b \in commitments[c], a.leaf < b.leaf
             PROVE  a.ledger <= b.ledger
  BY DEF Log!LedgersFollowLeaves
<1>1. PICK j \in Events(c) : Chain[c][j].kind = "commit" /\ LeafOf(Chain[c][j]) = a
  BY FirstFacts DEF LeavesInChainOrder
<1>2. PICK k \in Events(c) : Chain[c][k].kind = "commit" /\ LeafOf(Chain[c][k]) = b
  BY FirstFacts DEF LeavesInChainOrder
<1>3. /\ j \in Nat /\ k \in Nat
      /\ a.leaf = Chain[c][j].leaf /\ a.ledger = Chain[c][j].ledger
      /\ b.leaf = Chain[c][k].leaf /\ b.ledger = Chain[c][k].ledger
      /\ a.leaf \in Nat /\ b.leaf \in Nat
  BY <1>1, <1>2, EventFacts, CommitFacts DEF LeafOf
<1>4. ~ (k < j) /\ k # j
  BY <1>1, <1>2, <1>3, IndexerAssumption
<1>5. j < k
  BY <1>3, <1>4
<1> QED
  BY <1>3, <1>5, IndexerAssumption

(* Only a new leaf changes the table, and only by adding its row.            *)
LEMMA StoreIsInsert ==
    ASSUME Inv, Inv', NEW w \in Worker, StoreCommitment(w)
    PROVE  [Log!Next]_commitments
<1>1. PICK c \in Contract, k \in Events(Here(w)) : c = Here(w) /\ k = pos[w]
  BY HereFacts, CurrentFacts DEF Inv, StoreCommitment
<1> DEFINE r == LeafOf(Chain[c][k])
<1>2. r \in LeafRow
  BY <1>1, CommitFacts DEF StoreCommitment, Current
<1>3. commitments' = [commitments EXCEPT ![c] = WithLeaf(commitments[c], r)]
  BY <1>1 DEF StoreCommitment, Current
<1>4. commitments \in [Contract -> SUBSET LeafRow]
  BY DEF Inv, TypeOK
<1>5. CASE \E s \in commitments[c] : s.leaf = r.leaf \/ s.cm = r.cm
  <2>1. commitments' = commitments
    BY <1>3, <1>4, <1>5 DEF WithLeaf
  <2> QED
    BY <2>1
<1>6. CASE ~ \E s \in commitments[c] : s.leaf = r.leaf \/ s.cm = r.cm
  <2>1. /\ commitments' = [commitments EXCEPT ![c] = commitments[c] \cup {r}]
        /\ commitments'[c] = commitments[c] \cup {r}
    BY <1>3, <1>4, <1>6 DEF WithLeaf
  <2>2. Log!LedgersFollowLeaves(commitments[c])'
    <3>1. TypeOK' /\ LeavesInChainOrder'
      BY DEF Inv
    <3> QED
      BY <3>1, RowsFollowChain, PTL
  <2>3. Log!LedgersFollowLeaves(commitments[c] \cup {r})
    BY <2>1, <2>2 DEF Log!LedgersFollowLeaves
  <2>4. Log!InsertRow(c, r)
    BY <1>6, <2>1, <2>3 DEF Log!InsertRow, Log!Conflicts
  <2> QED
    BY <1>2, <2>4 DEF Log!Next, Log!LeafRow, LeafRow
<1> QED
  BY <1>5, <1>6

(* The table store_event fills is LeafLog's append-only log, on which the    *)
(* API's trees are built.                                                    *)
THEOREM LeafLogImplemented == Spec => ImplementsLeafLog
<1>1. Init => Log!Init
  BY DEF Init, Log!Init
<1>2. ASSUME Inv, Inv', [Next]_vars PROVE [Log!Next]_commitments
  <2>1. CASE \E w \in Worker : StoreCommitment(w)
    BY <1>2, <2>1, StoreIsInsert
  <2>2. CASE ~ \E w \in Worker : StoreCommitment(w)
    <3>1. UNCHANGED commitments
      BY <1>2, <2>2
         DEF Next, Work, Proceed, vars, db, rows, CloseLedger, Start, ReadCursor, GetEvents,
             StoreNullifier, StoreNote, AddPoolTotal, StoreIssuer, SkipEvent,
             SaveCursor, Wake, RefusedByStore, SyncError, Crash, ShutdownSignal
    <3> QED
      BY <3>1
  <2> QED
    BY <2>1, <2>2
<1> QED
  BY <1>1, <1>2, Invariance, PTL DEF Spec, ImplementsLeafLog, Log!Spec

-----------------------------------------------------------------------------
(* One indexer at a time. What a worker started from is then still the       *)
(* cursor row, so its page begins just past what the row covers; overlapping *)
(* indexers lose exactly this.                                               *)
HasPage(w) == pc[w] \in {"store", "total", "save"}

Alone == \A v, w \in Worker : pc[v] # "down" /\ pc[w] # "down" => v = w

(* The page in a worker's hands: the cursor row covers the events before it, *)
(* and last_ledger has followed those it is past.                            *)
PageAtCursor(w) ==
    \A j \in Events(Here(w)) :
        /\ Settled(Here(w), j) <=> j <= page[w].from
        /\ page[w].from < j /\ j < pos[w] => Chain[Here(w)][j].ledger <= lastLedger[w]

AtCursor(w) ==
    /\ pc[w] = "fetch" => /\ lastLedger[w] = cursors[Here(w)].ledger
                          /\ cursor[w] = cursors[Here(w)].cursor
    /\ HasPage(w) => PageAtCursor(w)

SoloInv == ~ overlapped => Alone /\ \A w \in Worker : AtCursor(w)

(* Workers other than the one that takes the step are down.                  *)
LEMMA SoloByStep ==
    ASSUME TypeOK, Alone, NEW w \in Worker, pc[w] # "down",
           pc' = [pc EXCEPT ![w] = pc'[w]], AtCursor(w)'
    PROVE  Alone' /\ \A v \in Worker : AtCursor(v)'
<1>1. \A v \in Worker \ {w} : pc[v] = "down" /\ pc'[v] = "down"
  BY DEF Alone, TypeOK
<1>2. Alone'
  BY <1>1 DEF Alone
<1>3. \A v \in Worker \ {w} : AtCursor(v)'
  BY <1>1 DEF AtCursor, HasPage
<1> QED
  BY <1>2, <1>3

(* A worker without a page that does not fetch has nothing to agree with.    *)
LEMMA NothingHeld ==
    ASSUME NEW w \in Worker, pc'[w] \notin {"fetch", "store", "total", "save"}
    PROVE  AtCursor(w)'
BY DEF AtCursor, HasPage

(* What the cursor row covers depends on the row alone.                      *)
LEMMA SettledKept ==
    ASSUME NEW c \in Contract, cursors'[c] = cursors[c]
    PROVE  \A j : Settled(c, j)' <=> Settled(c, j)
BY DEF Settled, Covers

(* getEvents resumes right behind the cursor row.                            *)
LEMMA FetchAtCursor ==
    ASSUME Inv, NEW w \in Worker, AtCursor(w), GetEvents(w)
    PROVE  AtCursor(w)'
<1>1. PICK c \in Contract : c = Here(w) /\ c = Here(w)'
  BY HereFacts DEF Inv, Here, GetEvents
<1>2. /\ pc[w] = "fetch" /\ pc'[w] \in {"save", "store"} /\ UNCHANGED <<cursors, lastLedger>>
      /\ lastLedger[w] = cursors[c].ledger /\ cursor[w] = cursors[c].cursor
      /\ lastLedger[w] \in Nat
  BY <1>1 DEF GetEvents, AtCursor, Inv, TypeOK, db
<1>3. PICK from \in 0..Len(Chain[c]) :
        /\ ResumesAt(c, from, lastLedger[w], cursor[w])
        /\ page'[w].from = from /\ pos'[w] = from + 1
  <2>1. PICK from, seen \in 0..Len(Chain[c]) :
          /\ ResumesAt(c, from, lastLedger[w], cursor[w])
          /\ \E to, next : page' = [page EXCEPT ![w] =
                             [from |-> from, to |-> to, cursor |-> next, latest |-> head]]
          /\ pos' = [pos EXCEPT ![w] = from + 1]
    BY <1>1 DEF GetEvents
  <2> QED
    BY <2>1 DEF Inv, TypeOK
<1>4. \A j \in Events(c) : Settled(c, j) <=> j <= from
  <2> SUFFICES ASSUME NEW j \in Events(c) PROVE Settled(c, j) <=> j <= from
    OBVIOUS
  <2>1. Chain[c][j].ledger \in Nat /\ j \in Nat
    BY EventFacts
  <2>2. CASE cursor[w] = NoCursor
    <3>1. j <= from <=> Chain[c][j].ledger < Max(lastLedger[w] + 1, 1)
      BY <1>3, <2>2 DEF ResumesAt
    <3>2. Max(lastLedger[w] + 1, 1) = lastLedger[w] + 1
      BY <1>2 DEF Max
    <3>3. Settled(c, j) <=> Chain[c][j].ledger <= lastLedger[w]
      BY <1>2, <2>2 DEF Settled, Covers
    <3> QED
      BY <1>2, <2>1, <3>1, <3>2, <3>3
  <2>3. CASE cursor[w] # NoCursor
    BY <1>2, <1>3, <2>3 DEF ResumesAt, Settled, Covers
  <2> QED
    BY <2>2, <2>3
<1>5. \A j \in Events(c) : j \in Nat /\ (Settled(c, j)' <=> Settled(c, j))
  BY <1>2, SettledKept, EventFacts
<1>6. PageAtCursor(w)'
  <2> SUFFICES ASSUME NEW j \in Events(c)
               PROVE  /\ Settled(c, j)' <=> j <= page'[w].from
                      /\ ~ (page'[w].from < j /\ j < pos'[w])
    BY <1>1 DEF PageAtCursor
  <2> QED
    BY <1>3, <1>4, <1>5
<1> QED
  BY <1>1, <1>2, <1>6 DEF AtCursor

(* last_ledger follows the event stored.                                     *)
LEMMA EventAtCursor ==
    ASSUME Inv, NEW w \in Worker, pc[w] \in {"store", "total"}, AtCursor(w),
           NextEvent(w), UNCHANGED <<cursors, at, page>>
    PROVE  AtCursor(w)'
<1>1. PICK c \in Contract : c = Here(w) /\ c = Here(w)'
  BY HereFacts DEF Inv, Here
<1>2. pos[w] \in Events(c) /\ pos[w] \in Nat /\ Chain[c][pos[w]].ledger \in Nat
      /\ lastLedger[w] \in Nat
  BY <1>1, CurrentFacts, EventFacts DEF Inv, TypeOK
<1>3. /\ pc'[w] \in {"save", "store"} /\ pos'[w] = pos[w] + 1 /\ page'[w] = page[w]
      /\ lastLedger'[w] = Max(lastLedger[w], Chain[c][pos[w]].ledger)
  BY <1>1 DEF NextEvent, Current, Inv, TypeOK
<1>4. /\ lastLedger[w] <= lastLedger'[w] /\ Chain[c][pos[w]].ledger <= lastLedger'[w]
      /\ lastLedger'[w] \in Nat
  BY <1>2, <1>3 DEF Max
<1>5. \A j \in Events(c) :
        /\ j \in Nat /\ Chain[c][j].ledger \in Nat /\ (Settled(c, j)' <=> Settled(c, j))
        /\ Settled(c, j) <=> j <= page[w].from
        /\ page[w].from < j /\ j < pos[w] => Chain[c][j].ledger <= lastLedger[w]
  BY <1>1, SettledKept, EventFacts DEF AtCursor, HasPage, PageAtCursor
<1>6. PageAtCursor(w)'
  <2> SUFFICES ASSUME NEW j \in Events(c)
               PROVE  /\ Settled(c, j)' <=> j <= page'[w].from
                      /\ page'[w].from < j /\ j < pos'[w] => Chain[c][j].ledger <= lastLedger'[w]
    BY <1>1 DEF PageAtCursor
  <2>1. CASE j = pos[w]
    BY <1>3, <1>4, <1>5, <2>1
  <2>2. CASE j # pos[w]
    BY <1>2, <1>3, <1>4, <1>5, <2>2
  <2> QED
    BY <2>1, <2>2
<1> QED
  BY <1>1, <1>3, <1>6 DEF AtCursor

(* After a save the cursor row covers the events before it and the page.     *)
LEMMA SaveSettles ==
    ASSUME Inv, NEW w \in Worker, AtCursor(w), SaveCursor(w),
           NEW c \in Contract, c = Here(w), NEW j \in Events(c)
    PROVE  /\ Settled(c, j)' <=> j < pos[w]
           /\ Settled(c, j) => j < pos[w]
<1> DEFINE done == page[w].from = page[w].to
<1> PICK last : last = IF done THEN Max(lastLedger[w], page[w].latest) ELSE lastLedger[w]
  OBVIOUS
<1>1. /\ pc[w] = "save" /\ cursors' = [cursors EXCEPT ![c] =
                                         [ledger |-> last, cursor |-> page[w].cursor]]
  BY DEF SaveCursor
<1>2. GoodPage(w) /\ PageAtCursor(w)
  BY <1>1 DEF Inv, SyncInv, GoodWorker, AtCursor, HasPage
<1>3. /\ page[w].from \in Nat /\ page[w].to \in Nat /\ page[w].latest \in Nat
      /\ lastLedger[w] \in Nat /\ page[w].from <= page[w].to /\ page[w].to <= Len(Chain[c])
      /\ pos[w] = page[w].to + 1 /\ lastLedger[w] <= page[w].latest
      /\ page[w].cursor \in {page[w].to, NoCursor}
  BY <1>1, <1>2 DEF GoodPage, Inv, TypeOK, Page
<1>4. /\ j \in Nat /\ j <= Len(Chain[c]) /\ j >= 1 /\ Len(Chain[c]) \in Nat
      /\ Chain[c][j].ledger \in Nat
  BY EventFacts DEF Events
<1>5. Settled(c, j) => j < pos[w]
  BY <1>2, <1>3, <1>4 DEF PageAtCursor
<1>6. Settled(c, j)' <=> IF page[w].cursor = NoCursor THEN Chain[c][j].ledger <= last
                         ELSE j <= page[w].cursor
  BY <1>1 DEF Inv, TypeOK, Settled, Covers
<1>7. CASE page[w].cursor # NoCursor
  BY <1>3, <1>4, <1>5, <1>6, <1>7
<1>8. CASE page[w].cursor = NoCursor
  <2>1. /\ j <= page[w].to => Chain[c][j].ledger <= page[w].latest
        /\ Chain[c][j].ledger <= page[w].latest => j <= page[w].to
    BY <1>2, <1>8 DEF GoodPage
  <2>2. CASE done
    <3>1. last = page[w].latest
      BY <1>3, <2>2 DEF Max
    <3> QED
      BY <1>3, <1>4, <1>5, <1>6, <1>8, <2>1, <3>1
  <2>3. CASE ~ done
    <3>1. last = lastLedger[w]
      BY <2>3
    <3>2. Chain[c][j].ledger <= last => j <= page[w].to
      BY <1>3, <1>4, <2>1, <3>1
    <3>3. ASSUME page[w].from < j, j <= page[w].to
          PROVE  Chain[c][j].ledger <= last
      BY <1>2, <1>3, <1>4, <3>1, <3>3 DEF PageAtCursor
    <3>4. ASSUME j <= page[w].from
          PROVE  Chain[c][j].ledger <= last
      <4> PICK f \in Nat, t \in Nat, n \in Nat :
            f = page[w].from /\ t = page[w].to /\ n = Len(Chain[c])
        BY <1>3, <1>4
      <4>0. f < t /\ t <= n /\ j <= f /\ f + 1 < pos[w]
        BY <1>3, <2>3, <3>4
      <4> PICK k \in 1..n : k = f + 1 /\ j < k
        BY <1>4, <4>0
      <4>1. k \in Events(c) /\ Chain[c][k].ledger \in Nat /\ Chain[c][k].ledger <= last
        <5>1. k \in Events(c) /\ f < k /\ k < pos[w]
          BY <4>0 DEF Events
        <5> QED
          BY <1>2, <3>1, <5>1, EventFacts DEF PageAtCursor
      <4>2. Chain[c][j].ledger <= Chain[c][k].ledger
        <5>1. \A a, b \in Events(c) : a < b => Chain[c][a].ledger <= Chain[c][b].ledger
          BY IndexerAssumption
        <5>2. j < k
          BY <3>4, <4>0, <4>1
        <5> QED
          BY <4>1, <5>1, <5>2
      <4> PICK a \in Nat, b \in Nat, l \in Nat :
            a = Chain[c][j].ledger /\ b = Chain[c][k].ledger /\ l = last
        BY <1>3, <1>4, <3>1, <4>1
      <4>3. a <= b /\ b <= l
        BY <4>1, <4>2
      <4> QED
        BY <4>3
    <3> QED
      BY <1>3, <1>4, <1>5, <1>6, <1>8, <3>2, <3>3, <3>4
  <2> QED
    BY <2>2, <2>3
<1> QED
  BY <1>7, <1>8

(* It then goes on from the row it wrote, or leaves.                         *)
LEMMA SaveAtCursor ==
    ASSUME Inv, NEW w \in Worker, SaveCursor(w)
    PROVE  AtCursor(w)'
<1>1. CASE page[w].from = page[w].to
  <2>1. Leave(w)
    BY <1>1 DEF SaveCursor
  <2>2. pc'[w] \notin {"fetch", "store", "total", "save"}
    BY <2>1 DEF Leave, Inv, TypeOK
  <2> QED
    BY <2>2, NothingHeld
<1>2. CASE page[w].from # page[w].to
  <2>1. PICK c \in Contract : c = Here(w) /\ c = Here(w)'
    BY <1>2, HereFacts DEF Inv, Here, SaveCursor
  <2>2. /\ pc' = [pc EXCEPT ![w] = "fetch"] /\ UNCHANGED lastLedger
        /\ cursor' = [cursor EXCEPT ![w] = page[w].cursor]
        /\ cursors' = [cursors EXCEPT ![c] = [ledger |-> lastLedger[w], cursor |-> page[w].cursor]]
    BY <1>2, <2>1 DEF SaveCursor
  <2>3. /\ pc'[w] = "fetch" /\ cursor'[w] = page[w].cursor
        /\ cursors'[c].ledger = lastLedger[w] /\ cursors'[c].cursor = page[w].cursor
    BY <2>2 DEF Inv, TypeOK
  <2> QED
    BY <2>1, <2>2, <2>3 DEF AtCursor, HasPage
<1> QED
  BY <1>1, <1>2

(* The statements that end with the loop body over page.events.              *)
Storing(w) ==
    \/ StoreNullifier(w) \/ StoreNote(w) \/ AddPoolTotal(w) \/ StoreIssuer(w) \/ SkipEvent(w)
    \/ StoreCommitment(w) /\ ~ Current(w).paid

(* They move past the event and leave the cursor row alone.                  *)
LEMMA StoringFacts ==
    ASSUME NEW w \in Worker, Storing(w)
    PROVE  /\ pc[w] \in {"store", "total"} /\ NextEvent(w)
           /\ UNCHANGED <<cursors, at, page, faults, overlapped>>
BY DEF Storing, StoreNullifier, StoreNote, AddPoolTotal, StoreIssuer, SkipEvent,
       StoreCommitment, db

(* A deposit whose total is still to come.                                   *)
LEMMA DepositFacts ==
    ASSUME Inv, NEW w \in Worker, StoreCommitment(w), Current(w).paid
    PROVE  /\ pc[w] = "store" /\ pc'[w] = "total" /\ pc' = [pc EXCEPT ![w] = "total"]
           /\ UNCHANGED <<cursors, nullifiers, noteRows, totals, issuers, at, cursor, page,
                          lastLedger, pos, faults, overlapped>>
BY DEF StoreCommitment, Inv, TypeOK

(* Every step of a worker that is up leaves it in agreement.                 *)
LEMMA StepAtCursor ==
    ASSUME Inv, NEW w \in Worker, AtCursor(w),
           Work(w) \/ SyncError(w) \/ Crash(w) \/ ShutdownSignal(w)
    PROVE  pc[w] # "down" /\ pc' = [pc EXCEPT ![w] = pc'[w]] /\ AtCursor(w)'
<1>0. pc \in [Worker -> {"down", "read", "fetch", "store", "total", "save", "sleep"}]
  BY DEF Inv, TypeOK
<1>1. CASE ReadCursor(w)
  <2>1. PICK c \in Contract : c = Here(w) /\ c = Here(w)'
    BY <1>1, HereFacts DEF Inv, Here, ReadCursor
  <2>2. /\ pc[w] = "read" /\ pc' = [pc EXCEPT ![w] = "fetch"] /\ UNCHANGED cursors
        /\ lastLedger'[w] = cursors[c].ledger /\ cursor'[w] = cursors[c].cursor
    BY <1>1, <2>1 DEF ReadCursor, Inv, TypeOK, db
  <2> QED
    BY <1>0, <2>1, <2>2 DEF AtCursor, HasPage
<1>2. CASE GetEvents(w)
  <2>1. pc[w] = "fetch" /\ \E s : pc' = [pc EXCEPT ![w] = s]
    BY <1>2 DEF GetEvents
  <2> QED
    BY <1>0, <1>2, <2>1, FetchAtCursor
<1>3. CASE Storing(w)
  <2>1. pc[w] \in {"store", "total"} /\ pc' = [pc EXCEPT ![w] = pc'[w]]
    BY <1>0, <1>3, StoringFacts DEF NextEvent
  <2> QED
    BY <1>3, <2>1, StoringFacts, EventAtCursor
<1>4. CASE StoreCommitment(w) /\ Current(w).paid
  <2>1. /\ pc[w] = "store" /\ pc'[w] = "total" /\ pc' = [pc EXCEPT ![w] = "total"]
        /\ UNCHANGED <<cursors, at, page, lastLedger, pos>>
    BY <1>4, DepositFacts
  <2>2. PageAtCursor(w)'
    BY <2>1 DEF AtCursor, HasPage, PageAtCursor, Here, Settled, Covers
  <2> QED
    BY <2>1, <2>2 DEF AtCursor
<1>5. CASE SaveCursor(w)
  <2>1. pc[w] = "save" /\ \E s : pc' = [pc EXCEPT ![w] = s]
    BY <1>5 DEF SaveCursor, Leave
  <2> QED
    BY <1>0, <1>5, <2>1, SaveAtCursor
<1>6. CASE Wake(w) \/ RefusedByStore(w) \/ SyncError(w) \/ Crash(w) \/ ShutdownSignal(w)
  <2>1. /\ pc[w] # "down"
        /\ \E s \in {"down", "read", "sleep"} : pc' = [pc EXCEPT ![w] = s]
    BY <1>6 DEF Wake, RefusedByStore, SyncError, Crash, ShutdownSignal, Running, Leave, Stop
  <2>2. pc'[w] \in {"down", "read", "sleep"} /\ pc' = [pc EXCEPT ![w] = pc'[w]]
    BY <1>0, <2>1
  <2> QED
    BY <2>1, <2>2, NothingHeld
<1> QED
  BY <1>1, <1>2, <1>3, <1>4, <1>5, <1>6 DEF Work, Proceed, Storing

(* SoloInv is inductive given Inv.                                           *)
LEMMA SoloNext == Inv /\ SoloInv /\ [Next]_vars => SoloInv'
<1> SUFFICES ASSUME Inv, SoloInv, [Next]_vars, ~ overlapped'
             PROVE  Alone' /\ \A w \in Worker : AtCursor(w)'
  BY DEF SoloInv
<1>1. CASE UNCHANGED vars \/ CloseLedger
  <2>1. UNCHANGED <<db, local, overlapped>>
    BY <1>1 DEF vars, CloseLedger
  <2> QED
    BY <2>1 DEF db, local, SoloInv, Alone, AtCursor, HasPage, PageAtCursor, Here, Settled, Covers
<1>2. ASSUME NEW w \in Worker, Start(w)
      PROVE  Alone' /\ \A v \in Worker : AtCursor(v)'
  <2>1. /\ \A v \in Worker : pc[v] = "down"
        /\ pc' = [pc EXCEPT ![w] = "read"]
    BY <1>2 DEF Start
  <2>2. \A v \in Worker : pc'[v] = IF v = w THEN "read" ELSE "down"
    BY <2>1 DEF Inv, TypeOK
  <2> QED
    BY <2>2 DEF Alone, AtCursor, HasPage
<1>3. ASSUME NEW w \in Worker, Work(w) \/ SyncError(w) \/ Crash(w) \/ ShutdownSignal(w)
      PROVE  Alone' /\ \A v \in Worker : AtCursor(v)'
  <2>1. UNCHANGED overlapped
    BY <1>3 DEF Work, Proceed, ReadCursor, GetEvents, StoreCommitment, StoreNullifier, StoreNote,
                AddPoolTotal, StoreIssuer, SkipEvent, RefusedByStore, SaveCursor, Wake,
                SyncError, Crash, ShutdownSignal
  <2>2. Alone /\ AtCursor(w)
    BY <2>1 DEF SoloInv
  <2> QED
    BY <1>3, <2>2, StepAtCursor, SoloByStep DEF Inv
<1> QED
  BY <1>1, <1>2, <1>3 DEF Next

(* As long as no two indexers ran together, the one that is up is at the     *)
(* cursor row.                                                               *)
THEOREM SoloInvariance == Spec => [](Inv /\ SoloInv)
<1>1. Init => SoloInv
  BY DEF Init, SoloInv, Alone, AtCursor, HasPage
<1> QED
  BY <1>1, Invariance, SoloNext, PTL DEF Spec

(* Two indexers that ran together stay on record.                            *)
LEMMA OverlapRecorded == [Next]_vars /\ ~ overlapped' => ~ overlapped
BY DEF Next, Work, Proceed, vars, CloseLedger, Start, ReadCursor, GetEvents, StoreCommitment,
       StoreNullifier, StoreNote, AddPoolTotal, StoreIssuer, SkipEvent, SaveCursor,
       Wake, RefusedByStore, SyncError, Crash, ShutdownSignal

(* The tables a step other than the two plain inserts leaves as they are.    *)
LEMMA PlainInserts ==
    ASSUME [Next]_vars, ~ \E w \in Worker : StoreNote(w) \/ AddPoolTotal(w)
    PROVE  UNCHANGED <<noteRows, totals>>
BY DEF Next, Work, Proceed, vars, db, rows, CloseLedger, Start, ReadCursor, GetEvents,
       StoreCommitment, StoreNullifier, StoreNote, AddPoolTotal, StoreIssuer, SkipEvent,
       SaveCursor, Wake, RefusedByStore, SyncError, Crash, ShutdownSignal

(* The row that one of the two inserts touches.                              *)
LEMMA PlainInsertAt ==
    ASSUME Inv, NEW w \in Worker, StoreNote(w) \/ AddPoolTotal(w)
    PROVE  \E c \in Contract, k \in Events(Here(w)) :
             /\ c = Here(w) /\ k = pos[w] /\ HasPage(w)
             /\ \A d \in Contract, j \in Position :
                   d # c \/ j # k => /\ noteRows'[d][j] = noteRows[d][j]
                                     /\ totals'[d][j] = totals[d][j]
             /\ noteRows'[c][k] <= noteRows[c][k] + 1 /\ totals'[c][k] <= totals[c][k] + 1
<1>1. PICK c \in Contract, k \in Events(Here(w)) : c = Here(w) /\ k = pos[w]
  BY HereFacts, CurrentFacts DEF Inv, StoreNote, AddPoolTotal
<1>2. k \in Position /\ HasPage(w)
  BY <1>1, HereFacts DEF Inv, Position, HasPage, StoreNote, AddPoolTotal
<1>3. /\ noteRows \in [Contract -> [Position -> 0..MaxCopies]]
      /\ totals \in [Contract -> [Position -> 0..MaxCopies]] /\ MaxCopies \in Nat
  BY IndexerAssumption DEF Inv, TypeOK
<1>4. CASE StoreNote(w)
  <2>1. /\ noteRows' = [noteRows EXCEPT ![c][k] = OneMore(@)] /\ totals' = totals
    BY <1>1, <1>4 DEF StoreNote
  <2>2. /\ \A d \in Contract, j \in Position :
                   d # c \/ j # k => noteRows'[d][j] = noteRows[d][j]
        /\ noteRows'[c][k] = OneMore(noteRows[c][k])
    BY <1>2, <1>3, <2>1
  <2>3. noteRows[c][k] \in Nat /\ totals[c][k] \in Nat
    BY <1>2, <1>3
  <2> QED
    BY <1>1, <1>2, <2>1, <2>2, <2>3 DEF OneMore
<1>5. CASE AddPoolTotal(w)
  <2>1. /\ totals' = [totals EXCEPT ![c][k] = OneMore(@)] /\ noteRows' = noteRows
    BY <1>1, <1>5 DEF AddPoolTotal
  <2>2. /\ \A d \in Contract, j \in Position :
                   d # c \/ j # k => totals'[d][j] = totals[d][j]
        /\ totals'[c][k] = OneMore(totals[c][k])
    BY <1>2, <1>3, <2>1
  <2>3. noteRows[c][k] \in Nat /\ totals[c][k] \in Nat
    BY <1>2, <1>3
  <2> QED
    BY <1>1, <1>2, <2>1, <2>2, <2>3 DEF OneMore
<1> QED
  BY <1>4, <1>5

(* sync_contract writes note rows and totals for events past the cursor row  *)
(* only, so what one indexer at a time replays is never covered.             *)
THEOREM SettledCountsStand == Spec => SettledOnce
<1> DEFINE P == ~ overlapped' => \A c \in Contract : \A j \in Events(c) :
                  Settled(c, j) => /\ noteRows'[c][j] = noteRows[c][j]
                                   /\ totals'[c][j] = totals[c][j]
<1>1. Inv /\ SoloInv /\ [Next]_vars => P
  <2> SUFFICES ASSUME Inv, SoloInv, [Next]_vars, ~ overlapped',
                      NEW c \in Contract, NEW j \in Events(c), Settled(c, j)
               PROVE  noteRows'[c][j] = noteRows[c][j] /\ totals'[c][j] = totals[c][j]
    OBVIOUS
  <2>1. CASE ~ \E w \in Worker : StoreNote(w) \/ AddPoolTotal(w)
    BY <2>1, PlainInserts
  <2>2. ASSUME NEW w \in Worker, StoreNote(w) \/ AddPoolTotal(w)
        PROVE  noteRows'[c][j] = noteRows[c][j] /\ totals'[c][j] = totals[c][j]
    <3>1. PICK d \in Contract, k \in Events(Here(w)) :
             /\ d = Here(w) /\ k = pos[w] /\ HasPage(w)
             /\ \A e \in Contract, i \in Position :
                   e # d \/ i # k => /\ noteRows'[e][i] = noteRows[e][i]
                                     /\ totals'[e][i] = totals[e][i]
      BY <2>2, PlainInsertAt
    <3>2. c = d /\ j = k => j <= page[w].from
      BY <3>1, OverlapRecorded DEF SoloInv, AtCursor, PageAtCursor
    <3>3. page[w].from \in Nat /\ page[w].from < pos[w] /\ pos[w] \in Nat
      BY <3>1 DEF Inv, TypeOK, SyncInv, GoodWorker, GoodPage, Page, HasPage
    <3>4. j \in Position
      BY DEF Position
    <3> QED
      BY <3>1, <3>2, <3>3, <3>4
  <2> QED
    BY <2>1, <2>2
<1>2. Inv /\ SoloInv /\ [Next]_vars => [P]_vars
  BY <1>1
<1> QED
  BY <1>2, SoloInvariance, PTL DEF Spec, SettledOnce

(* Every write of the cursor row covers what the row covered before.         *)
LEMMA SettledForward ==
    ASSUME Inv, SoloInv, [Next]_vars, ~ overlapped',
           NEW c \in Contract, NEW j \in Events(c), Settled(c, j)
    PROVE  Settled(c, j)'
<1>1. CASE ~ \E w \in Worker : SaveCursor(w)
  <2>1. UNCHANGED cursors
    BY <1>1 DEF Next, Work, Proceed, vars, db, CloseLedger, Start, ReadCursor, GetEvents,
         StoreCommitment, StoreNullifier, StoreNote, AddPoolTotal, StoreIssuer, SkipEvent,
         Wake, RefusedByStore, SyncError, Crash, ShutdownSignal
  <2> QED
    BY <2>1, SettledKept
<1>2. ASSUME NEW w \in Worker, SaveCursor(w) PROVE Settled(c, j)'
  <2>1. CASE c = Here(w)
    <3>1. AtCursor(w)
      BY OverlapRecorded DEF SoloInv
    <3> QED
      BY <1>2, <2>1, <3>1, SaveSettles
  <2>2. CASE c # Here(w)
    <3>1. cursors'[c] = cursors[c]
      BY <1>2, <2>2 DEF SaveCursor, Inv, TypeOK
    <3> QED
      BY <3>1, SettledKept
  <2> QED
    BY <2>1, <2>2
<1> QED
  BY <1>1, <1>2

(* With one indexer at a time the cursor row only moves forward, whichever   *)
(* of its two forms it takes.                                                *)
THEOREM CursorNeverReturns == Spec => CursorForward
<1> DEFINE P == ~ overlapped' => \A c \in Contract : \A j \in Events(c) :
                  Settled(c, j) => Settled(c, j)'
<1>1. Inv /\ SoloInv /\ [Next]_vars => [P]_vars
  BY SettledForward
<1> QED
  BY <1>1, SoloInvariance, PTL DEF Spec, CursorForward

-----------------------------------------------------------------------------
(* Event j of contract c is behind the cursor row or behind the worker that  *)
(* holds the page: what has been stored, and not given up since.             *)
Passed(c, j) ==
    Settled(c, j) \/ \E w \in Worker : HasPage(w) /\ Here(w) = c /\ j < pos[w]

(* The only worker that can hold a page takes every step while it does.      *)
LEMMA HolderSteps ==
    ASSUME TypeOK, Alone, Next, NEW w \in Worker, HasPage(w), ~ overlapped', ~ CloseLedger
    PROVE  Work(w) \/ SyncError(w) \/ Crash(w) \/ ShutdownSignal(w)
<1>1. pc[w] # "down"
  BY DEF HasPage
<1>2. ASSUME NEW v \in Worker, Start(v) PROVE FALSE
  BY <1>1, <1>2 DEF Start
<1>3. ASSUME NEW v \in Worker, Work(v) \/ SyncError(v) \/ Crash(v) \/ ShutdownSignal(v)
      PROVE  v = w
  <2>1. pc[v] # "down"
    BY <1>3 DEF Work, Proceed, ReadCursor, GetEvents, StoreCommitment, StoreNullifier, StoreNote,
                AddPoolTotal, StoreIssuer, SkipEvent, RefusedByStore, SaveCursor, Wake,
                SyncError, Crash, ShutdownSignal, Running
  <2> QED
    BY <1>1, <2>1 DEF Alone
<1> QED
  BY <1>2, <1>3 DEF Next

(* Storing goes past the event stored.                                       *)
LEMMA StoringMoves ==
    ASSUME TypeOK, NEW w \in Worker, Storing(w)
    PROVE  /\ HasPage(w) /\ HasPage(w)' /\ Here(w)' = Here(w) /\ pos[w] \in Nat
           /\ pos' = [pos EXCEPT ![w] = pos[w] + 1] /\ pos'[w] = pos[w] + 1
           /\ \A v \in Worker \ {w} : pc'[v] = pc[v]
<1>1. pc[w] \in {"store", "total"} /\ NextEvent(w) /\ UNCHANGED at
  BY StoringFacts
<1>2. /\ pc' = [pc EXCEPT ![w] = IF pos[w] = page[w].to THEN "save" ELSE "store"]
      /\ pos' = [pos EXCEPT ![w] = pos[w] + 1]
  BY <1>1 DEF NextEvent
<1> QED
  BY <1>1, <1>2 DEF TypeOK, HasPage, Here

(* Without faults and refused rows nothing stored is given up.               *)
LEMMA PassedKept ==
    ASSUME Inv, SoloInv, [Next]_vars, ~ overlapped', faults' = 0,
           NEW c \in Contract, \A k \in Events(c) : Chain[c][k].kind # "refused",
           NEW j \in Events(c), Passed(c, j)
    PROVE  Passed(c, j)'
<1>1. CASE Settled(c, j)
  BY <1>1, SettledForward DEF Passed
<1>2. ASSUME NEW w \in Worker, HasPage(w), Here(w) = c, j < pos[w]
      PROVE  Passed(c, j)'
  <2>0. j \in Nat /\ pos[w] \in Nat /\ faults \in Nat
    BY EventFacts, IndexerAssumption DEF Inv, TypeOK
  <2>1. Alone /\ AtCursor(w)
    BY OverlapRecorded DEF SoloInv
  <2>2. CASE UNCHANGED vars \/ CloseLedger
    <3>1. UNCHANGED <<pc, at, pos>>
      BY <2>2 DEF vars, local, CloseLedger
    <3> QED
      BY <1>2, <3>1 DEF Passed, HasPage, Here
  <2>3. CASE Storing(w)
    <3>1. HasPage(w)' /\ Here(w)' = Here(w) /\ pos'[w] = pos[w] + 1
      BY <2>3, StoringMoves DEF Inv
    <3> QED
      BY <1>2, <2>0, <3>1 DEF Passed
  <2>4. CASE StoreCommitment(w) /\ Current(w).paid
    <3>1. pc'[w] = "total" /\ UNCHANGED <<at, pos>>
      BY <2>4, DepositFacts
    <3> QED
      BY <1>2, <3>1 DEF Passed, HasPage, Here
  <2>5. CASE SaveCursor(w)
    BY <1>2, <2>1, <2>5, SaveSettles DEF Passed
  <2>6. ~ RefusedByStore(w)
    <3>1. pc[w] = "store" => pos[w] \in Events(c)
      BY <1>2, CurrentFacts DEF Inv
    <3> QED
      BY <1>2, <3>1 DEF RefusedByStore, Current
  <2>7. ~ SyncError(w) /\ ~ Crash(w)
    BY <2>0 DEF SyncError, Crash
  <2>8. ~ ReadCursor(w) /\ ~ GetEvents(w) /\ ~ Wake(w) /\ ~ ShutdownSignal(w)
    BY <1>2 DEF HasPage, ReadCursor, GetEvents, Wake, ShutdownSignal
  <2>9. Next /\ ~ CloseLedger => Work(w) \/ SyncError(w) \/ Crash(w) \/ ShutdownSignal(w)
    BY <1>2, <2>1, HolderSteps DEF Inv
  <2> QED
    BY <2>2, <2>3, <2>4, <2>5, <2>6, <2>7, <2>8, <2>9 DEF Work, Proceed, Storing
<1> QED
  BY <1>1, <1>2 DEF Passed

(* The event a lone worker is storing has not been passed before.            *)
LEMMA CurrentNotPassed ==
    ASSUME Inv, SoloInv, ~ overlapped, NEW w \in Worker, pc[w] \in {"store", "total"},
           NEW c \in Contract, c = Here(w)
    PROVE  pos[w] \in Events(c) /\ ~ Passed(c, pos[w])
<1>1. pos[w] \in Events(c) /\ pos[w] \in Nat /\ page[w].from \in Nat
      /\ page[w].from < pos[w]
  BY CurrentFacts DEF Inv, GoodPage
<1>2. ~ Settled(c, pos[w])
  BY <1>1 DEF SoloInv, AtCursor, HasPage, PageAtCursor
<1>3. ASSUME NEW v \in Worker, HasPage(v) PROVE v = w
  BY <1>3 DEF SoloInv, Alone, HasPage
<1> QED
  BY <1>1, <1>2, <1>3 DEF Passed

(* What has not been passed left no trace in the two tables without a key,   *)
(* and what has been left one.                                               *)
Undisturbed == faults = 0 /\ ~ overlapped
Unrefused(c) == \A k \in Events(c) : Chain[c][k].kind # "refused"

OnceInv ==
    Undisturbed =>
        \A c \in Contract : Unrefused(c) => \A j \in Events(c) :
            /\ noteRows[c][j] <= 1 /\ totals[c][j] <= 1
            /\ ~ Passed(c, j) => noteRows[c][j] = 0 /\ totals[c][j] = 0

(* An insert is for an event not passed, and passes it.                      *)
LEMMA OnceNext == Inv /\ SoloInv /\ OnceInv /\ [Next]_vars => OnceInv'
<1> SUFFICES ASSUME Inv, SoloInv, OnceInv, [Next]_vars, ~ overlapped', faults' = 0,
                    NEW c \in Contract, Unrefused(c), NEW j \in Events(c)
             PROVE  /\ noteRows'[c][j] <= 1 /\ totals'[c][j] <= 1
                    /\ ~ Passed(c, j)' => noteRows'[c][j] = 0 /\ totals'[c][j] = 0
  BY DEF OnceInv, Undisturbed, Unrefused
<1>1. Undisturbed
  <2>1. faults \in Nat
    BY IndexerAssumption DEF Inv, TypeOK
  <2>2. CASE \E w \in Worker : SyncError(w) \/ Crash(w)
    BY <2>1, <2>2 DEF SyncError, Crash
  <2>3. CASE ~ \E w \in Worker : SyncError(w) \/ Crash(w)
    <3>1. faults' = faults
      BY <2>3 DEF Next, Work, Proceed, vars, CloseLedger, Start, ReadCursor, GetEvents, StoreCommitment,
           StoreNullifier, StoreNote, AddPoolTotal, StoreIssuer, SkipEvent, SaveCursor, Wake,
           RefusedByStore, ShutdownSignal
    <3> QED
      BY <3>1, OverlapRecorded DEF Undisturbed
  <2> QED
    BY <2>2, <2>3
<1>2. /\ noteRows[c][j] <= 1 /\ totals[c][j] <= 1
      /\ ~ Passed(c, j) => noteRows[c][j] = 0 /\ totals[c][j] = 0
  BY <1>1 DEF OnceInv
<1>3. Passed(c, j) => Passed(c, j)'
  BY PassedKept DEF Unrefused
<1>4. j \in Nat /\ j \in Position
  BY EventFacts
<1>5. CASE noteRows'[c][j] = noteRows[c][j] /\ totals'[c][j] = totals[c][j]
  BY <1>2, <1>3, <1>5
<1>6. ASSUME NEW w \in Worker, StoreNote(w) \/ AddPoolTotal(w),
             ~ (noteRows'[c][j] = noteRows[c][j] /\ totals'[c][j] = totals[c][j])
      PROVE  /\ noteRows'[c][j] <= 1 /\ totals'[c][j] <= 1
             /\ Passed(c, j)'
  <2>1. PICK d \in Contract, k \in Events(Here(w)) :
           /\ d = Here(w) /\ k = pos[w] /\ HasPage(w)
           /\ \A e \in Contract, i \in Position :
                 e # d \/ i # k => /\ noteRows'[e][i] = noteRows[e][i]
                                   /\ totals'[e][i] = totals[e][i]
           /\ noteRows'[d][k] <= noteRows[d][k] + 1 /\ totals'[d][k] <= totals[d][k] + 1
    BY <1>6, PlainInsertAt
  <2>2. c = d /\ j = k
    BY <1>4, <1>6, <2>1
  <2>3. Storing(w) /\ pc[w] \in {"store", "total"}
    BY <1>6, StoringFacts DEF Storing
  <2>4. ~ Passed(c, j)
    BY <1>1, <2>1, <2>2, <2>3, CurrentNotPassed DEF Undisturbed
  <2>5. Passed(c, j)'
    <3>1. HasPage(w)' /\ Here(w)' = c /\ j < pos'[w]
      BY <1>4, <2>1, <2>2, <2>3, StoringMoves DEF Inv
    <3> QED
      BY <3>1 DEF Passed
  <2>6. noteRows[c][j] = 0 /\ totals[c][j] = 0
    BY <1>2, <2>4
  <2>7. noteRows'[c][j] <= noteRows[c][j] + 1 /\ totals'[c][j] <= totals[c][j] + 1
    BY <2>1, <2>2
  <2> QED
    BY <2>5, <2>6, <2>7
<1> QED
  BY <1>5, <1>6, PlainInserts

(* As long as nothing fails, no second indexer runs and Postgres takes every *)
(* row, each note is inserted once and each amount added once.               *)
THEOREM StoredOnce == Spec => []OnceWithoutFaults
<1>1. Init => OnceInv
  <2> SUFFICES ASSUME Init, NEW c \in Contract, NEW j \in Events(c)
               PROVE  noteRows[c][j] = 0 /\ totals[c][j] = 0
    BY DEF OnceInv
  <2> QED
    BY EventFacts DEF Init
<1>2. OnceInv => OnceWithoutFaults
  BY DEF OnceInv, OnceWithoutFaults, Undisturbed, Unrefused
<1> QED
  BY <1>1, <1>2, OnceNext, SoloInvariance, PTL DEF Spec

-----------------------------------------------------------------------------
(* The issuer rows. An issuer is registered with one contract: the rows of   *)
(* two that both spoke of it would show whichever was synced last.           *)
OneRegistry ==
    \A c, d \in Contract : \A j \in Events(c), k \in Events(d) :
        /\ Chain[c][j].kind = "issuer" /\ Chain[d][k].kind = "issuer"
        /\ Chain[c][j].issuer = Chain[d][k].issuer
        => c = d

(* The issuer's row shows event j of contract c, or a later one.             *)
AsNewAs(c, j) ==
    \E k \in Events(c) : /\ k >= j /\ Chain[c][k].kind = "issuer"
                         /\ Chain[c][k].issuer = Chain[c][j].issuer
                         /\ Chain[c][k].status = issuers[Chain[c][j].issuer]

IssuerInv ==
    ~ overlapped =>
        \A c \in Contract : \A j \in Events(c) :
            Chain[c][j].kind = "issuer" /\ Passed(c, j) => AsNewAs(c, j)

(* Nothing is passed but by storing it.                                      *)
LEMMA PassedByStoring ==
    ASSUME Inv, SoloInv, [Next]_vars, ~ overlapped',
           NEW c \in Contract, NEW j \in Events(c), Passed(c, j)', ~ Passed(c, j)
    PROVE  \E w \in Worker : Storing(w) /\ Here(w) = c /\ pos[w] = j
<1>0. j \in Nat
  BY EventFacts
<1>1. ASSUME Settled(c, j)' PROVE FALSE
  <2>1. PICK w \in Worker : SaveCursor(w)
    <3> SUFFICES ASSUME ~ \E w \in Worker : SaveCursor(w) PROVE FALSE
      OBVIOUS
    <3>1. UNCHANGED cursors
      BY DEF Next, Work, Proceed, vars, db, CloseLedger, Start, ReadCursor, GetEvents,
           StoreCommitment, StoreNullifier, StoreNote, AddPoolTotal, StoreIssuer, SkipEvent,
           Wake, RefusedByStore, SyncError, Crash, ShutdownSignal
    <3> QED
      BY <1>1, <3>1, SettledKept DEF Passed
  <2>2. CASE c = Here(w)
    <3>1. AtCursor(w) /\ HasPage(w)
      BY <2>1, OverlapRecorded DEF SoloInv, SaveCursor, HasPage
    <3>2. j < pos[w]
      BY <1>1, <2>1, <2>2, <3>1, SaveSettles
    <3> QED
      BY <2>2, <3>1, <3>2 DEF Passed
  <2>3. CASE c # Here(w)
    <3>1. cursors'[c] = cursors[c]
      BY <2>1, <2>3 DEF SaveCursor, Inv, TypeOK
    <3> QED
      BY <1>1, <3>1, SettledKept DEF Passed
  <2> QED
    BY <2>2, <2>3
<1>2. PICK w \in Worker : HasPage(w)' /\ Here(w)' = c /\ j < pos'[w]
  BY <1>1 DEF Passed
<1>3. CASE HasPage(w) /\ ~ GetEvents(w)
  <2>1. Alone /\ AtCursor(w)
    BY OverlapRecorded DEF SoloInv
  <2>2. CASE UNCHANGED vars \/ CloseLedger
    <3>1. UNCHANGED <<pc, at, pos>>
      BY <2>2 DEF vars, local, CloseLedger
    <3> QED
      BY <1>2, <1>3, <3>1 DEF Passed, HasPage, Here
  <2>3. CASE Storing(w)
    <3>1. Here(w) = c /\ pos[w] \in Nat /\ pos'[w] = pos[w] + 1
      BY <1>2, <2>3, StoringMoves DEF Inv
    <3>2. ~ (j < pos[w])
      BY <1>3, <3>1 DEF Passed
    <3> QED
      BY <1>0, <1>2, <2>3, <3>1, <3>2
  <2>4. CASE StoreCommitment(w) /\ Current(w).paid
    <3>1. UNCHANGED <<at, pos>>
      BY <2>4, DepositFacts DEF Inv
    <3> QED
      BY <1>2, <1>3, <3>1 DEF Passed, Here
  <2>5. CASE ReadCursor(w) \/ SaveCursor(w) \/ Wake(w) \/ RefusedByStore(w) \/ SyncError(w)
             \/ Crash(w) \/ ShutdownSignal(w)
    <3>1. \E s \in {"down", "read", "fetch", "sleep"} : pc' = [pc EXCEPT ![w] = s]
      BY <2>5 DEF ReadCursor, SaveCursor, Wake, RefusedByStore, SyncError, Crash,
                  ShutdownSignal, Leave, Stop
    <3> QED
      BY <1>2, <3>1 DEF HasPage, Inv, TypeOK
  <2>6. Next /\ ~ CloseLedger => Work(w) \/ SyncError(w) \/ Crash(w) \/ ShutdownSignal(w)
    BY <1>3, <2>1, HolderSteps DEF Inv
  <2> QED
    BY <1>3, <2>2, <2>3, <2>4, <2>5, <2>6 DEF Work, Proceed, Storing
<1>4. CASE GetEvents(w)
  <2>1. AtCursor(w) /\ AtCursor(w)' /\ Here(w) = c /\ UNCHANGED cursors
    BY <1>2, <1>4, OverlapRecorded, FetchAtCursor DEF SoloInv, GetEvents, db, Here
  <2>2. Settled(c, j)' <=> j <= page'[w].from
    BY <1>2, <2>1 DEF AtCursor, PageAtCursor
  <2>3. \E from \in 0..Len(Chain[c]) : page'[w].from = from /\ pos'[w] = from + 1
    BY <1>4, <2>1 DEF GetEvents, Inv, TypeOK
  <2>4. j <= page'[w].from
    BY <1>0, <1>2, <2>3, EventFacts
  <2> QED
    BY <1>1, <2>2, <2>4
<1>5. CASE ~ HasPage(w) /\ ~ GetEvents(w)
  <2>1. ASSUME UNCHANGED vars \/ CloseLedger PROVE ~ HasPage(w)'
    <3>1. UNCHANGED pc
      BY <2>1 DEF vars, local, CloseLedger
    <3> QED
      BY <1>5, <3>1 DEF HasPage
  <2>2. ASSUME NEW v \in Worker, Start(v) PROVE ~ HasPage(w)'
    <3>1. pc' = [pc EXCEPT ![v] = "read"]
      BY <2>2 DEF Start
    <3> QED
      BY <1>5, <3>1 DEF HasPage, Inv, TypeOK
  <2>3. ASSUME NEW v \in Worker, v # w,
               Work(v) \/ SyncError(v) \/ Crash(v) \/ ShutdownSignal(v)
        PROVE  ~ HasPage(w)'
    <3>1. pc' = [pc EXCEPT ![v] = pc'[v]]
      BY <2>3, StepAtCursor, OverlapRecorded DEF SoloInv
    <3> QED
      BY <1>5, <2>3, <3>1 DEF HasPage, Inv, TypeOK
  <2>4. ASSUME Work(w) \/ SyncError(w) \/ Crash(w) \/ ShutdownSignal(w)
        PROVE  ~ HasPage(w)'
    <3>1. ReadCursor(w) \/ Wake(w) \/ SyncError(w) \/ Crash(w) \/ ShutdownSignal(w)
      BY <1>5, <2>4 DEF HasPage, Work, Proceed, StoreCommitment, StoreNullifier, StoreNote, AddPoolTotal,
                       StoreIssuer, SkipEvent, SaveCursor, RefusedByStore
    <3>2. \E s \in {"down", "read", "fetch", "sleep"} : pc' = [pc EXCEPT ![w] = s]
      BY <3>1 DEF ReadCursor, Wake, SyncError, Crash, ShutdownSignal, Leave, Stop
    <3> QED
      BY <3>2 DEF HasPage, Inv, TypeOK
  <2>5. ASSUME NEW v \in Worker, Work(v) \/ SyncError(v) \/ Crash(v) \/ ShutdownSignal(v)
        PROVE  ~ HasPage(w)'
    <3>1. CASE v = w
      BY <2>4, <2>5, <3>1
    <3>2. CASE v # w
      BY <2>3, <2>5, <3>2
    <3> QED
      BY <3>1, <3>2
  <2>6. ~ HasPage(w)'
    BY <2>1, <2>2, <2>5 DEF Next
  <2> QED
    BY <1>2, <2>6
<1> QED
  BY <1>3, <1>4, <1>5

(* StoreIssuer shows the event it stores, the last one passed.               *)
LEMMA IssuerNext ==
    ASSUME OneRegistry, Inv, SoloInv, IssuerInv, [Next]_vars
    PROVE  IssuerInv'
<1> SUFFICES ASSUME ~ overlapped', NEW c \in Contract, NEW j \in Events(c),
                    Chain[c][j].kind = "issuer", Passed(c, j)'
             PROVE  AsNewAs(c, j)'
  BY DEF IssuerInv
<1>0. j \in Nat /\ ~ overlapped
  BY EventFacts, OverlapRecorded
<1>1. CASE \E w \in Worker : StoreIssuer(w)
  <2> PICK w \in Worker : StoreIssuer(w)
    BY <1>1
  <2>1. Storing(w) /\ pc[w] \in {"store", "total"}
    BY StoringFacts DEF Storing
  <2>2. PICK d \in Contract : d = Here(w) /\ pos[w] \in Events(d)
    BY <2>1, HereFacts, CurrentFacts DEF Inv
  <2> PICK k \in Events(d) : k = pos[w]
    BY <2>2
  <2>3. PICK i \in Issuer :
          /\ i = Chain[d][k].issuer /\ Chain[d][k].kind = "issuer"
          /\ issuers' = [issuers EXCEPT ![i] = Chain[d][k].status]
    <3>1. Chain[d][k] \in Event /\ Chain[d][k].kind = "issuer"
      BY <2>2, EventFacts DEF StoreIssuer, Current
    <3> QED
      BY <2>2, <3>1 DEF StoreIssuer, Current, Event
  <2>4. /\ issuers'[i] = Chain[d][k].status
        /\ \A x \in Issuer : x # i => issuers'[x] = issuers[x]
    BY <2>3 DEF Inv, TypeOK
  <2>5. CASE Chain[c][j].issuer = i
    <3>1. c = d
      BY <2>3, <2>5 DEF OneRegistry
    <3>2. j <= k
      <4>1. CASE Passed(c, j)
        <5>1. CASE Settled(c, j)
          BY <1>0, <2>1, <2>2, <3>1, <5>1, CurrentFacts
             DEF SoloInv, AtCursor, HasPage, PageAtCursor, Inv, GoodPage
        <5>2. ASSUME NEW v \in Worker, HasPage(v), Here(v) = c, j < pos[v]
              PROVE  j <= k
          <6>1. v = w
            BY <1>0, <2>1, <5>2 DEF SoloInv, Alone, HasPage
          <6> QED
            BY <1>0, <2>1, <2>2, <5>2, <6>1, CurrentFacts DEF Inv
        <5> QED
          BY <4>1, <5>1, <5>2 DEF Passed
      <4>2. CASE ~ Passed(c, j)
        <5>1. PICK v \in Worker : Storing(v) /\ Here(v) = c /\ pos[v] = j
          BY <4>2, PassedByStoring
        <5>2. v = w
          BY <1>0, <2>1, <5>1, StoringFacts DEF SoloInv, Alone
        <5> QED
          BY <1>0, <2>2, <5>1, <5>2
      <4> QED
        BY <4>1, <4>2
    <3> QED
      BY <1>0, <2>2, <2>3, <2>4, <2>5, <3>1, <3>2, EventFacts DEF AsNewAs
  <2>6. CASE Chain[c][j].issuer # i
    <3>1. Passed(c, j)
      <4> SUFFICES ASSUME ~ Passed(c, j) PROVE FALSE
        OBVIOUS
      <4>1. PICK v \in Worker : Storing(v) /\ Here(v) = c /\ pos[v] = j
        BY PassedByStoring
      <4>2. v = w
        BY <1>0, <2>1, <4>1, StoringFacts DEF SoloInv, Alone
      <4> QED
        BY <2>2, <2>3, <2>6, <4>1, <4>2
    <3>2. AsNewAs(c, j)
      BY <1>0, <3>1 DEF IssuerInv
    <3>3. Chain[c][j].issuer \in Issuer
      BY EventFacts DEF Event
    <3> QED
      BY <2>4, <2>6, <3>2, <3>3 DEF AsNewAs
  <2> QED
    BY <2>5, <2>6
<1>2. CASE ~ \E w \in Worker : StoreIssuer(w)
  <2>1. UNCHANGED issuers
    BY <1>2 DEF Next, Work, Proceed, vars, db, rows, CloseLedger, Start, ReadCursor, GetEvents,
         StoreCommitment, StoreNullifier, StoreNote, AddPoolTotal, SkipEvent, SaveCursor,
         Wake, RefusedByStore, SyncError, Crash, ShutdownSignal
  <2>2. Passed(c, j)
    <3> SUFFICES ASSUME ~ Passed(c, j) PROVE FALSE
      OBVIOUS
    <3>1. PICK v \in Worker : Storing(v) /\ Here(v) = c /\ pos[v] = j
      BY PassedByStoring
    <3>2. Current(v).kind # "issuer"
      <4>1. pc[v] = "total" => Current(v).kind = "commit"
        BY DEF Inv, SyncInv, GoodWorker, GoodPage
      <4> QED
        BY <1>2, <3>1, <4>1 DEF Storing, StoreNullifier, StoreNote, AddPoolTotal, SkipEvent,
                             StoreCommitment
    <3> QED
      BY <3>1, <3>2 DEF Current
  <2> QED
    BY <1>0, <2>1, <2>2 DEF IssuerInv, AsNewAs
<1> QED
  BY <1>1, <1>2

(* issuer.rs accepts deliveries on the issuer's row alone: with one indexer  *)
(* at a time it is as new as the cursor, whatever is replayed on the way, if *)
(* each issuer is registered with one contract.                              *)
THEOREM IssuersAreCurrent ==
    ASSUME OneRegistry
    PROVE  Spec => []IssuerCurrent
<1>1. Init => IssuerInv
  <2> SUFFICES ASSUME Init, NEW c \in Contract, NEW j \in Events(c) PROVE ~ Passed(c, j)
    BY DEF IssuerInv
  <2>1. ~ Settled(c, j)
    BY EventFacts DEF Init, Settled, Covers
  <2> QED
    BY <2>1 DEF Init, Passed, HasPage
<1>2. Inv /\ SoloInv /\ IssuerInv /\ [Next]_vars => IssuerInv'
  BY IssuerNext
<1>3. IssuerInv => IssuerCurrent
  BY DEF IssuerInv, IssuerCurrent, IssuerAsNewAsCursor, AsNewAs, Passed
<1> QED
  BY <1>1, <1>2, <1>3, SoloInvariance, PTL DEF Spec
=============================================================================
