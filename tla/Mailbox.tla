------------------------------ MODULE Mailbox ------------------------------
(***************************************************************************)
(* attesta-api: the credential mailbox of routes/issuer.rs and its sweeper *)
(* retention.rs. Issuers deposit ciphertexts in credential_deliveries,     *)
(* recipients page through the unclaimed ones and claim them with a token, *)
(* and every replica runs an hourly sweep that deletes what is past its    *)
(* retention window, under one Postgres advisory lock.                     *)
(*                                                                         *)
(* Every SQL statement commits on its own, so each is a step. A DELETE     *)
(* finds its rows on a snapshot and then deletes them by id without        *)
(* looking at them again, and an INSERT draws its sequence number before   *)
(* it commits: both are two steps. A request slot stays taken until        *)
(* Postgres is done with its statement, even when its client has left.     *)
(*                                                                         *)
(* Only ages matter, so a tick makes everything older, up to OldAge. A row *)
(* is named by its seq. One issuer and one recipient_hint: rows of other   *)
(* issuers and mailboxes meet these only in the sweep.                     *)
(***************************************************************************)
EXTENDS Naturals, FiniteSets

CONSTANTS
    Delivery,          \* slots for delivery requests in flight
    Claim,             \* claim requests, each made once
    Recipient,         \* recipients paging through the mailbox
    Replica,           \* API processes, one sweeper each
    Hour,              \* ticks per hour: SWEEP_INTERVAL and the quota's window
    Quota,             \* issuer_deliveries_per_hour, 0 = unlimited
    ClaimedWindow,     \* credential_retention_claimed_days in ticks, 0 = keep
    UnclaimedWindow,   \* credential_retention_unclaimed_days in ticks, 0 = keep
    PageSize,          \* DELIVERIES_PAGE_SIZE (200)
    SweepBatch,        \* SWEEP_BATCH (10000)
    MaxSeq,            \* bound: sequence numbers drawn
    MaxFaults          \* bound: failures, lost clients and restarts

VARIABLES
    deliveries,   \* table credential_deliveries, by seq
    active,       \* issuers.status = 'active', written by the indexer
    delivering,   \* what each delivery request has done so far
    claiming,     \* each claim request: its target, token and answer
    paging,       \* each recipient's pass over the mailbox
    sweeper,      \* each replica's retention task
    locks,        \* times each replica's sweep session holds the advisory lock
    late,         \* history: rows stored since the issuer became inactive
    faults        \* history: failures so far

api  == <<delivering, claiming, paging>>
hist == <<late, faults>>
vars == <<deliveries, active, api, sweeper, locks, hist>>

(* The windows are whole days, so none is shorter than the quota's hour.     *)
ASSUME MailboxAssumption ==
    /\ IsFiniteSet(Delivery)
    /\ Hour \in Nat \ {0} /\ PageSize \in Nat \ {0} /\ SweepBatch \in Nat \ {0}
    /\ Quota \in Nat /\ MaxSeq \in Nat /\ MaxFaults \in Nat
    /\ ClaimedWindow \in Nat /\ (ClaimedWindow = 0 \/ ClaimedWindow >= Hour)
    /\ UnclaimedWindow \in Nat /\ (UnclaimedWindow = 0 \/ UnclaimedWindow >= Hour)

-----------------------------------------------------------------------------
Seqs == 1..MaxSeq
OldAge == LET limits == {Hour, ClaimedWindow, UnclaimedWindow}
          IN  1 + CHOOSE n \in limits : \A m \in limits : m <= n
Ages == 0..OldAge

(* A row: its INSERT not yet committed, unclaimed, claimed `since` ticks, or *)
(* deleted (or never committed). `token` says that it has a                  *)
(* claim_token_hash.                                                         *)
Row == [st : {"none", "writing", "unclaimed", "claimed", "gone"},
        age : Ages, since : Ages, token : BOOLEAN]
NoRow == [st |-> "none", age |-> 0, since |-> 0, token |-> FALSE]
GoneRow == [NoRow EXCEPT !.st = "gone"]

Unclaimed == {n \in Seqs : deliveries[n].st = "unclaimed"}
Claimed == {n \in Seqs : deliveries[n].st = "claimed"}
Stored == Unclaimed \cup Claimed

(* Variant: the quota counts what is still in the mailbox only.             *)
RecentUnclaimed == {n \in Unclaimed : deliveries[n].age < Hour}

(* The quota's window: created_at > now() - interval '1 hour'.               *)
Recent == {n \in Stored : deliveries[n].age < Hour}

(* Variant: the second sweep's predicate is the first one's.                *)
ExpiredClaimedTwice(kind) == {n \in Claimed : deliveries[n].since > ClaimedWindow}

(* The rows each of the two sweeps is after.                                 *)
Expired(kind) ==
    IF kind = "claimed" THEN {n \in Claimed : deliveries[n].since > ClaimedWindow}
    ELSE {n \in Unclaimed : deliveries[n].age > UnclaimedWindow}

Fail == faults < MaxFaults /\ faults' = faults + 1

-----------------------------------------------------------------------------
(* POST /v1/issuer/credentials. An inactive issuer gets 400 and a full quota *)
(* 429; both free the slot.                                                  *)
Idle == [at |-> "idle", seq |-> 0]

(* Variant: the status is not looked at.                                    *)
CheckAnyIssuer(d) ==
    /\ delivering[d].at = "idle"
    /\ delivering' = [delivering EXCEPT ![d].at = "checked"]
    /\ UNCHANGED <<deliveries, active, claiming, paging, sweeper, locks, hist>>

CheckIssuer(d) ==
    /\ delivering[d].at = "idle"
    /\ active
    /\ delivering' = [delivering EXCEPT ![d].at = "checked"]
    /\ UNCHANGED <<deliveries, active, claiming, paging, sweeper, locks, hist>>

UnderQuota == Quota = 0 \/ Cardinality(Recent) < Quota

CheckQuota(d) ==
    /\ delivering[d].at = "checked"
    /\ delivering' = [delivering EXCEPT ![d] =
                         IF UnderQuota THEN [@ EXCEPT !.at = "counted"] ELSE Idle]
    /\ UNCHANGED <<deliveries, active, claiming, paging, sweeper, locks, hist>>

(* The INSERT starts: it draws the next seq and sets created_at.             *)
Insert(d) ==
    /\ delivering[d].at = "counted"
    /\ \E n \in Seqs, token \in BOOLEAN :
          /\ \A m \in Seqs : deliveries[m].st = "none" <=> m >= n
          /\ deliveries' = [deliveries EXCEPT ![n] =
                               [NoRow EXCEPT !.st = "writing", !.token = token]]
          /\ delivering' = [delivering EXCEPT ![d] = [at |-> "writing", seq |-> n]]
    /\ UNCHANGED <<active, claiming, paging, sweeper, locks, hist>>

CommitInsert(d) ==
    /\ delivering[d].at = "writing"
    /\ deliveries' = [deliveries EXCEPT ![delivering[d].seq].st = "unclaimed"]
    /\ delivering' = [delivering EXCEPT ![d] = Idle]
    /\ late' = IF active THEN 0 ELSE late + 1
    /\ UNCHANGED <<active, claiming, paging, sweeper, locks, faults>>

(* A statement fails, or the client leaves before the INSERT is sent.        *)
CutDelivery(d) ==
    /\ delivering[d].at # "idle"
    /\ deliveries' = IF delivering[d].at = "writing"
                     THEN [deliveries EXCEPT ![delivering[d].seq] = GoneRow]
                     ELSE deliveries
    /\ delivering' = [delivering EXCEPT ![d] = Idle]
    /\ Fail
    /\ UNCHANGED <<active, claiming, paging, sweeper, locks, late>>

(* External: the indexer writes another status.                              *)
SetStatus ==
    /\ active' = ~ active
    /\ late' = 0
    /\ UNCHANGED <<deliveries, api, sweeper, locks, faults>>

-----------------------------------------------------------------------------
(* POST /v1/credentials/{delivery_id}/claim, for one delivery with the right *)
(* token or another one.                                                     *)
NewClaim == [at |-> "new", seq |-> 0, right |-> FALSE, answer |-> 0]
Refused(code) == [NewClaim EXCEPT !.at = "done", !.answer = code]

(* Variant: a delivery without a claim_token_hash is anybody's.             *)
AuthorizedWithoutHash(n, right) == deliveries[n].token => right

Authorized(n, right) == deliveries[n].token /\ right

ReadClaim(k) ==
    /\ claiming[k].at = "new"
    /\ \E n \in Seqs, right \in BOOLEAN :
          claiming' = [claiming EXCEPT ![k] =
              CASE n \notin Stored -> Refused(404)
                [] n \in Claimed   -> Refused(409)
                [] n \in Unclaimed /\ ~ Authorized(n, right) -> Refused(403)
                [] OTHER -> [at |-> "read", seq |-> n, right |-> right, answer |-> 0]]
    /\ UNCHANGED <<deliveries, active, delivering, paging, sweeper, locks, hist>>

(* Variant: the UPDATE does not look at claimed_at again.                   *)
ClaimableAgain(n) == Stored \cap {n}

(* UPDATE ... WHERE claimed_at IS NULL: the rows that the claim changes.     *)
Claimable(n) == Unclaimed \cap {n}

(* No row changed is answered 409, also when the sweep has taken the row. If *)
(* the client has left, nobody hears the answer (0).                         *)
UpdateClaim(k) ==
    LET n == claiming[k].seq
        answered == IF Claimable(n) = {} THEN Refused(409)
                    ELSE [claiming[k] EXCEPT !.at = "done", !.answer = 204]
    IN  /\ claiming[k].at = "read"
        /\ deliveries' = [m \in Seqs |->
               IF m \in Claimable(n)
               THEN [deliveries[m] EXCEPT !.st = "claimed", !.since = 0]
               ELSE deliveries[m]]
        /\ \/ claiming' = [claiming EXCEPT ![k] = answered] /\ UNCHANGED faults
           \/ claiming' = [claiming EXCEPT ![k] = Refused(0)] /\ Fail
        /\ UNCHANGED <<active, delivering, paging, sweeper, locks, late>>

CutClaim(k) ==
    /\ claiming[k].at = "read"
    /\ claiming' = [claiming EXCEPT ![k] = Refused(0)]
    /\ Fail
    /\ UNCHANGED <<deliveries, active, delivering, paging, sweeper, locks, late>>

-----------------------------------------------------------------------------
(* GET /v1/credentials: one page of unclaimed rows past the cursor, by seq.  *)
(* `missing` is history: rows that were listed when the pass began and have  *)
(* not been handed out.                                                      *)
NewPass == [at |-> "new", since |-> 0, missing |-> {}]

PageAfter(since) ==
    {n \in Unclaimed : n > since /\ Cardinality({m \in Unclaimed : since < m /\ m < n}) < PageSize}
(* Variant: a cursor is returned with overfull pages only.                  *)
PageIsOverfull(page) == Cardinality(page) > PageSize
PageIsFull(page) == Cardinality(page) = PageSize
LastSeq(page) == CHOOSE n \in page : \A m \in page : m <= n

ListDeliveries(p) ==
    LET page == PageAfter(paging[p].since)
        listed == IF paging[p].at = "new" THEN Unclaimed ELSE paging[p].missing
    IN  /\ paging[p].at # "done"
        /\ paging' = [paging EXCEPT ![p] =
               IF PageIsFull(page)
               THEN [at |-> "more", since |-> LastSeq(page), missing |-> listed \ page]
               ELSE [at |-> "done", since |-> 0, missing |-> listed \ page]]
        /\ UNCHANGED <<deliveries, active, delivering, claiming, sweeper, locks, hist>>

-----------------------------------------------------------------------------
(* retention.rs. A sweeper sleeps, or is in one of the two sweeps, before or *)
(* after its DELETE has found its rows, or about to unlock. `swept` is       *)
(* history: it sleeps after a cycle that was neither skipped nor failed.     *)
Sleep(h, swept) ==
    [at |-> "sleep", left |-> h, swept |-> swept, found |-> FALSE, picked |-> {}]
Sweep(kind) ==
    [at |-> kind, left |-> 0, swept |-> FALSE, found |-> FALSE, picked |-> {}]

FirstSweep ==
    IF ClaimedWindow > 0 THEN "claimed" ELSE "unclaimed"
NextSweep(kind) ==
    IF kind = "claimed" /\ UnclaimedWindow > 0 THEN "unclaimed" ELSE "unlock"
Sweeping(r) == sweeper[r].at # "sleep"

(* `run` returns at once when both windows are 0.                            *)
CycleDue(r) ==
    /\ ClaimedWindow + UnclaimedWindow > 0
    /\ sweeper[r].at = "sleep" /\ sweeper[r].left = 0

(* pg_try_advisory_lock: it succeeds if no other session holds the lock. The *)
(* replica's own leaked lock is no obstacle when the pool hands out the      *)
(* session that holds it.                                                    *)
MayLock(r) == \A s \in Replica \ {r} : locks[s] = 0

BeginCycle(r) ==
    /\ CycleDue(r)
    /\ MayLock(r)
    /\ locks' = [locks EXCEPT ![r] = @ + 1]
    /\ sweeper' = [sweeper EXCEPT ![r] = Sweep(FirstSweep)]
    /\ UNCHANGED <<deliveries, active, api, hist>>

(* Variant: the return after a failed try is missing.                       *)
SkipNothing(r) ==
    /\ CycleDue(r)
    /\ \E s \in Replica : locks[s] > 0
    /\ sweeper' = [sweeper EXCEPT ![r] = Sweep(FirstSweep)]
    /\ UNCHANGED <<deliveries, active, api, locks, hist>>

SkipCycle(r) ==
    /\ CycleDue(r)
    /\ \E s \in Replica : locks[s] > 0
    /\ sweeper' = [sweeper EXCEPT ![r] = Sleep(Hour, FALSE)]
    /\ UNCHANGED <<deliveries, active, api, locks, hist>>

(* No connection, or the lock query fails.                                   *)
FailCycle(r) ==
    /\ CycleDue(r)
    /\ sweeper' = [sweeper EXCEPT ![r] = Sleep(Hour, FALSE)]
    /\ Fail
    /\ UNCHANGED <<deliveries, active, api, locks, late>>

FindRows(r) ==
    LET expired == Expired(sweeper[r].at)
    IN  /\ sweeper[r].at \in {"claimed", "unclaimed"} /\ ~ sweeper[r].found
        /\ \E batch \in SUBSET expired :
              /\ Cardinality(batch) <= SweepBatch
              /\ Cardinality(batch) = SweepBatch \/ batch = expired
              /\ sweeper' = [sweeper EXCEPT ![r].found = TRUE, ![r].picked = batch]
        /\ UNCHANGED <<deliveries, active, api, locks, hist>>

(* A batch smaller than SWEEP_BATCH ends the sweep.                          *)
DeleteRows(r) ==
    LET deleted == sweeper[r].picked \cap Stored
    IN  /\ sweeper[r].found
        /\ deliveries' = [n \in Seqs |-> IF n \in deleted THEN GoneRow ELSE deliveries[n]]
        /\ sweeper' = [sweeper EXCEPT ![r] =
               Sweep(IF Cardinality(deleted) < SweepBatch
                     THEN NextSweep(sweeper[r].at) ELSE sweeper[r].at)]
        /\ UNCHANGED <<active, api, locks, hist>>

FailDelete(r) ==
    /\ sweeper[r].found
    /\ sweeper' = [sweeper EXCEPT ![r] = Sweep(NextSweep(sweeper[r].at))]
    /\ Fail
    /\ UNCHANGED <<deliveries, active, api, locks, late>>

EndCycle(r) ==
    /\ sweeper' = [sweeper EXCEPT ![r] = Sleep(Hour, TRUE)]
    /\ UNCHANGED <<deliveries, active, api, late>>

Unlock(r) ==
    /\ sweeper[r].at = "unlock"
    /\ locks' = [locks EXCEPT ![r] = @ - 1]
    /\ EndCycle(r)
    /\ UNCHANGED faults

(* The failure is logged and the session goes back to the pool with the lock.*)
FailUnlock(r) ==
    /\ sweeper[r].at = "unlock"
    /\ EndCycle(r)
    /\ Fail
    /\ UNCHANGED locks

(* The session breaks in mid-cycle: what is left of the cycle only fails.    *)
LoseSession(r) ==
    /\ Sweeping(r)
    /\ locks' = [locks EXCEPT ![r] = 0]
    /\ EndCycle(r)
    /\ Fail

(* External: the pool closes an idle session (its lifetime is 30 minutes).   *)
CloseSession(r) ==
    /\ ~ Sweeping(r) /\ locks[r] > 0
    /\ locks' = [locks EXCEPT ![r] = 0]
    /\ UNCHANGED <<deliveries, active, api, sweeper, hist>>

(* A replica restarts, and `run` starts with a cycle.                        *)
Restart(r) ==
    /\ locks' = [locks EXCEPT ![r] = 0]
    /\ sweeper' = [sweeper EXCEPT ![r] = Sleep(0, FALSE)]
    /\ Fail
    /\ UNCHANGED <<deliveries, active, api, late>>

-----------------------------------------------------------------------------
Older(age) == IF age < OldAge THEN age + 1 ELSE age

Tick ==
    /\ deliveries' = [n \in Seqs |->
           IF deliveries[n].st \in {"none", "gone"} THEN deliveries[n]
           ELSE [deliveries[n] EXCEPT !.age = Older(@),
                     !.since = IF n \in Claimed THEN Older(@) ELSE @]]
    /\ sweeper' = [r \in Replica |->
           IF sweeper[r].left > 1 THEN [sweeper[r] EXCEPT !.left = @ - 1]
           ELSE [sweeper[r] EXCEPT !.left = 0, !.swept = FALSE]]
    /\ UNCHANGED <<active, api, locks, late, faults>>

MailboxInit ==
    /\ deliveries = [n \in Seqs |-> NoRow]
    /\ active = TRUE
    /\ delivering = [d \in Delivery |-> Idle]
    /\ claiming = [k \in Claim |-> NewClaim]
    /\ paging = [p \in Recipient |-> NewPass]
    /\ sweeper = [r \in Replica |-> Sleep(0, FALSE)]
    /\ locks = [r \in Replica |-> 0]
    /\ late = 0
    /\ faults = 0

Deliver(d) ==
    CheckIssuer(d) \/ CheckQuota(d) \/ Insert(d) \/ CommitInsert(d) \/ CutDelivery(d)
ClaimDelivery(k) == ReadClaim(k) \/ UpdateClaim(k) \/ CutClaim(k)
RunCycle(r) ==
    BeginCycle(r) \/ SkipCycle(r) \/ FindRows(r) \/ DeleteRows(r) \/ Unlock(r)
Disturb(r) ==
    \/ FailCycle(r) \/ FailDelete(r) \/ FailUnlock(r)
    \/ LoseSession(r) \/ CloseSession(r) \/ Restart(r)

MailboxNext ==
    \/ \E d \in Delivery : Deliver(d)
    \/ \E k \in Claim : ClaimDelivery(k)
    \/ \E p \in Recipient : ListDeliveries(p)
    \/ \E r \in Replica : RunCycle(r) \/ Disturb(r)
    \/ SetStatus
    \/ Tick

MailboxSpec == MailboxInit /\ [][MailboxNext]_vars

(* Time passes, the retention task is never stopped, and the pool's sessions *)
(* have a lifetime. Nothing is assumed of clients.                           *)
MailboxFairSpec ==
    /\ MailboxSpec
    /\ WF_vars(Tick)
    /\ \A r \in Replica : WF_vars(RunCycle(r)) /\ WF_vars(CloseSession(r))

-----------------------------------------------------------------------------
(* Every variable has its type; locks are counted, and a sweep's batch is no *)
(* larger than SWEEP_BATCH.                                                  *)
MailboxTypeOK ==
    /\ deliveries \in [Seqs -> Row]
    /\ active \in BOOLEAN
    /\ delivering \in [Delivery -> [at : {"idle", "checked", "counted", "writing"},
                                    seq : Seqs \cup {0}]]
    /\ claiming \in [Claim -> [at : {"new", "read", "done"}, seq : Seqs \cup {0},
                               right : BOOLEAN, answer : {0, 204, 403, 404, 409}]]
    /\ paging \in [Recipient -> [at : {"new", "more", "done"}, since : Seqs \cup {0},
                                 missing : SUBSET Seqs]]
    /\ sweeper \in [Replica -> [at : {"sleep", "claimed", "unclaimed", "unlock"},
                                left : 0..Hour, swept : BOOLEAN,
                                found : BOOLEAN, picked : SUBSET Seqs]]
    /\ locks \in [Replica -> Nat]
    /\ late \in Nat /\ faults \in 0..MaxFaults

(* issuer.rs:181: "a concurrent claim race resolves to exactly one winner",  *)
(* and a delivery whose claim was answered 204 is never listed again.        *)
OneWinner ==
    \A k \in Claim : claiming[k].answer = 204 =>
        /\ claiming[k].seq \notin Unclaimed
        /\ \A j \in Claim \ {k} :
              claiming[j].seq = claiming[k].seq => claiming[j].answer # 204

(* issuer.rs:215: a delivery leaves the mailbox only by a claim with its own *)
(* token, whatever other claims, sweeps and failures happen meanwhile, or by *)
(* retention, and that not before its window is over.                        *)
LeavesOnlyWhenDue ==
    [][\A n \in Seqs :
          /\ deliveries[n].st = "unclaimed" /\ deliveries'[n].st = "claimed" =>
                /\ deliveries[n].token
                /\ \E k \in Claim : claiming[k].seq = n /\ claiming[k].right
          /\ n \in Stored /\ deliveries'[n].st = "gone" =>
                \/ ClaimedWindow > 0 /\ n \in Claimed /\ deliveries[n].since > ClaimedWindow
                \/ UnclaimedWindow > 0 /\ deliveries[n].age > UnclaimedWindow]_vars

(* issuer.rs:95: the quota is counted before the insert, so concurrent       *)
(* deliveries can exceed it, but by fewer than there are requests in flight; *)
(* rows claimed within the hour still count.                                 *)
QuotaOvershoot ==
    Quota > 0 =>
        Cardinality({n \in Stored : deliveries[n].age < Hour}) < Quota + Cardinality(Delivery)

(* issuer.rs:78: once the issuer is suspended or revoked, only the requests  *)
(* that were in flight can still store a delivery, one each.                 *)
RevokedOvershoot ==
    ~ active =>
        late + Cardinality({d \in Delivery : delivering[d].at # "idle"}) <= Cardinality(Delivery)

(* issuer.rs:213: a pass over the pages hands out every delivery that was in *)
(* the mailbox when it began and still is when it ends, whatever is claimed, *)
(* swept or committed out of order meanwhile.                                *)
PassComplete ==
    \A p \in Recipient : paging[p].at = "done" => paging[p].missing \cap Unclaimed = {}

(* retention.rs:40: the lock covers the deletes, so two replicas are never   *)
(* sweeping at once, even when sessions break or a lock is leaked.           *)
OneSweeper ==
    \A r, s \in Replica : Sweeping(r) /\ Sweeping(s) => r = s

(* retention.rs:3: every delivery, claimed or not, is deleted in the end,    *)
(* whatever cycles fail, are skipped, or leak their lock.                    *)
ExpiredGo ==
    ClaimedWindow > 0 /\ UnclaimedWindow > 0 =>
        \A n \in Seqs : n \in Stored ~> deliveries[n].st = "gone"
=============================================================================
