--------------------------- MODULE MailboxProofs ---------------------------
(***************************************************************************)
(* Proofs about Mailbox, for any number of requests, rows, recipients and  *)
(* replicas and any windows, quota and sizes: the sweeps' advisory lock    *)
(* (LockInv), then what the mailbox promises its users (DeliveryInv: who   *)
(* owns a row that is being written, what a claim has checked, what a      *)
(* sweep has picked, what a pass still misses, and the two counts).        *)
(***************************************************************************)
EXTENDS Mailbox, FiniteSetTheorems, WellFoundedInduction, TLAPS

SweeperState ==
    [at : {"sleep", "claimed", "unclaimed", "unlock"}, left : Nat, swept : BOOLEAN,
     found : BOOLEAN, picked : SUBSET Seqs]

(* A replica that sweeps holds the lock, and only one replica's session      *)
(* holds it. OneSweeper is not inductive without the counts.                 *)
LockTypes == locks \in [Replica -> Nat] /\ sweeper \in [Replica -> SweeperState]
FoundInSweep ==
    \A r \in Replica : sweeper[r].found => sweeper[r].at \in {"claimed", "unclaimed"}
SweeperHolds == \A r \in Replica : Sweeping(r) => locks[r] > 0
OneHolder == \A r, s \in Replica : locks[r] > 0 /\ locks[s] > 0 => r = s
LockInv == LockTypes /\ FoundInSweep /\ SweeperHolds /\ OneHolder

-----------------------------------------------------------------------------
(* What Sleep and Sweep build, and where a cycle goes next (retention.rs     *)
(* 68-85).                                                                   *)
LEMMA SleepState ==
    ASSUME NEW h \in Nat, NEW b \in BOOLEAN
    PROVE  Sleep(h, b) \in SweeperState /\ Sleep(h, b).at = "sleep" /\ ~ Sleep(h, b).found
  BY DEF Sleep, SweeperState

(* A sweep begins with nothing found.                                        *)
LEMMA SweepState ==
    ASSUME NEW kind \in {"claimed", "unclaimed", "unlock"}
    PROVE  /\ Sweep(kind) \in SweeperState /\ ~ Sweep(kind).found
           /\ Sweep(kind).at \in {"claimed", "unclaimed", "unlock"}
  BY DEF Sweep, SweeperState

(* After a sweep comes another, or the unlock.                               *)
LEMMA NextSweepIsOne ==
    ASSUME NEW kind
    PROVE  NextSweep(kind) \in {"claimed", "unclaimed", "unlock"}
  BY DEF NextSweep

(* One replica changes its sweeper and its hold on the lock: it may raise it *)
(* from zero only when no other session holds it, and give it up only as it  *)
(* goes to sleep.                                                            *)
LEMMA OneReplicaSteps ==
    ASSUME LockInv,
           NEW r \in Replica, NEW held \in Nat, NEW next \in SweeperState,
           locks' = [locks EXCEPT ![r] = held],
           sweeper' = [sweeper EXCEPT ![r] = next],
           held > 0 => MayLock(r) \/ locks[r] > 0,
           next.at # "sleep" => held > 0,
           next.found => next.at \in {"claimed", "unclaimed"}
    PROVE  LockInv'
<1>1. LockTypes'
  BY DEF LockInv, LockTypes
<1>2. /\ locks'[r] = held /\ sweeper'[r] = next
      /\ \A s \in Replica \ {r} : locks'[s] = locks[s] /\ sweeper'[s] = sweeper[s]
  BY DEF LockInv, LockTypes
<1>3. FoundInSweep'
  BY <1>2 DEF LockInv, FoundInSweep
<1>4. SweeperHolds'
  BY <1>2 DEF LockInv, SweeperHolds, Sweeping
<1>5. OneHolder'
  <2> SUFFICES ASSUME NEW s \in Replica, NEW t \in Replica,
                      locks'[s] > 0, locks'[t] > 0, s # t
               PROVE  FALSE
    BY DEF OneHolder
  <2>1. CASE s # r /\ t # r
    BY <1>2, <2>1 DEF LockInv, OneHolder
  <2>2. CASE s = r
    <3>1. t \in Replica \ {r} /\ locks[t] > 0 /\ held > 0
      BY <1>2, <2>2
    <3>2. ~ MayLock(r)
      BY <3>1 DEF MayLock
    <3> QED BY <3>1, <3>2 DEF LockInv, OneHolder
  <2>3. CASE t = r
    <3>1. s \in Replica \ {r} /\ locks[s] > 0 /\ held > 0
      BY <1>2, <2>3
    <3>2. ~ MayLock(r)
      BY <3>1 DEF MayLock
    <3> QED BY <3>1, <3>2 DEF LockInv, OneHolder
  <2> QED BY <2>1, <2>2, <2>3
<1> QED BY <1>1, <1>3, <1>4, <1>5 DEF LockInv

(* The steps that leave sweepers and locks alone.                            *)
LEMMA LockUnchanged ==
    ASSUME LockInv, UNCHANGED <<sweeper, locks>>
    PROVE  LockInv'
  BY DEF LockInv, LockTypes, FoundInSweep, SweeperHolds, OneHolder, Sweeping

(* A tick only shortens sleeps.                                              *)
LEMMA TickKeepsLock ==
    ASSUME LockInv, Tick
    PROVE  LockInv'
<1>1. /\ locks' = locks
      /\ sweeper' = [r \in Replica |->
             IF sweeper[r].left > 1 THEN [sweeper[r] EXCEPT !.left = @ - 1]
             ELSE [sweeper[r] EXCEPT !.left = 0, !.swept = FALSE]]
  BY DEF Tick
<1>2. \A r \in Replica :
         /\ sweeper'[r] \in SweeperState
         /\ sweeper'[r].at = sweeper[r].at /\ sweeper'[r].found = sweeper[r].found
  <2> TAKE r \in Replica
  <2>1. sweeper[r] \in SweeperState
    BY DEF LockInv, LockTypes
  <2>2. CASE sweeper[r].left > 1
    <3>1. sweeper'[r] = [sweeper[r] EXCEPT !.left = sweeper[r].left - 1]
      BY <1>1, <2>2
    <3>2. sweeper[r].left - 1 \in Nat
      BY <2>1, <2>2 DEF SweeperState
    <3> QED BY <2>1, <3>1, <3>2 DEF SweeperState
  <2>3. CASE ~ (sweeper[r].left > 1)
    <3>1. sweeper'[r] = [sweeper[r] EXCEPT !.left = 0, !.swept = FALSE]
      BY <1>1, <2>3
    <3>2. [sweeper[r] EXCEPT !.left = 0] \in SweeperState
      BY <2>1, 0 \in Nat DEF SweeperState
    <3> QED BY <2>1, <3>1, <3>2, FALSE \in BOOLEAN DEF SweeperState
  <2> QED BY <2>2, <2>3
<1>3. LockTypes'
  BY <1>1, <1>2 DEF LockInv, LockTypes
<1> QED
  BY <1>1, <1>2, <1>3 DEF LockInv, FoundInSweep, SweeperHolds, OneHolder, Sweeping

-----------------------------------------------------------------------------
(* The lock's bookkeeping survives every step of retention.rs and every      *)
(* failure in it.                                                            *)
THEOREM LockInvariance == MailboxSpec => []LockInv
<1>1. MailboxInit => LockInv
  <2> SUFFICES ASSUME MailboxInit PROVE LockInv
    OBVIOUS
  <2>1. Sleep(0, FALSE) \in SweeperState /\ Sleep(0, FALSE).at = "sleep" /\ ~ Sleep(0, FALSE).found
    BY SleepState
  <2>2. LockTypes
    BY <2>1 DEF MailboxInit, LockTypes
  <2>3. \A r \in Replica : locks[r] = 0 /\ sweeper[r] = Sleep(0, FALSE)
    BY DEF MailboxInit
  <2>4. FoundInSweep /\ SweeperHolds
    BY <2>1, <2>3 DEF FoundInSweep, SweeperHolds, Sweeping
  <2>5. OneHolder
    <3>1. \A r \in Replica : ~ (locks[r] > 0)
      BY <2>3, ~ (0 > 0)
    <3> QED BY <3>1 DEF OneHolder
  <2> QED BY <2>2, <2>4, <2>5 DEF LockInv
<1>2. LockInv /\ [MailboxNext]_vars => LockInv'
  <2> SUFFICES ASSUME LockInv, [MailboxNext]_vars PROVE LockInv'
    OBVIOUS
  <2> USE DEF Fail
  <2>0. Hour \in Nat /\ Sleep(Hour, TRUE) \in SweeperState
        /\ Sleep(Hour, FALSE) \in SweeperState /\ Sleep(0, FALSE) \in SweeperState
    BY SleepState, MailboxAssumption
  <2>zero. 0 \in Nat /\ ~ (0 > 0)
    OBVIOUS
  <2>types. locks \in [Replica -> Nat] /\ sweeper \in [Replica -> SweeperState]
    BY DEF LockInv, LockTypes
  <2>1. ASSUME NEW r \in Replica, BeginCycle(r) PROVE LockInv'
    <3>1. FirstSweep \in {"claimed", "unclaimed", "unlock"}
      BY DEF FirstSweep
    <3>2. Sweep(FirstSweep) \in SweeperState /\ ~ Sweep(FirstSweep).found
      BY <3>1, SweepState
    <3>3. /\ locks' = [locks EXCEPT ![r] = locks[r] + 1]
          /\ sweeper' = [sweeper EXCEPT ![r] = Sweep(FirstSweep)]
          /\ MayLock(r) /\ locks[r] + 1 \in Nat /\ locks[r] + 1 > 0
      BY <2>1, <2>types DEF BeginCycle
    <3> QED BY <3>2, <3>3, OneReplicaSteps
  <2>2. ASSUME NEW r \in Replica, SkipCycle(r) \/ FailCycle(r) PROVE LockInv'
    <3>1. /\ locks' = [locks EXCEPT ![r] = locks[r]]
          /\ sweeper' = [sweeper EXCEPT ![r] = Sleep(Hour, FALSE)]
          /\ locks[r] \in Nat
      BY <2>2, <2>types DEF SkipCycle, FailCycle
    <3>2. Sleep(Hour, FALSE).at = "sleep" /\ ~ Sleep(Hour, FALSE).found
      BY <2>0, SleepState
    <3> QED BY <2>0, <3>1, <3>2, OneReplicaSteps
  <2>3. ASSUME NEW r \in Replica, FindRows(r) PROVE LockInv'
    <3>1. PICK batch \in SUBSET Expired(sweeper[r].at) :
             sweeper' = [sweeper EXCEPT ![r].found = TRUE, ![r].picked = batch]
      BY <2>3 DEF FindRows
    <3> DEFINE next == [sweeper[r] EXCEPT !.found = TRUE, !.picked = batch]
    <3>2. batch \in SUBSET Seqs
      BY <3>1 DEF Expired, Claimed, Unclaimed
    <3>3. next \in SweeperState /\ next.at = sweeper[r].at
      BY <2>types, <3>2 DEF SweeperState
    <3>4. sweeper[r].at \in {"claimed", "unclaimed"}
      BY <2>3 DEF FindRows
    <3>5. locks[r] \in Nat /\ locks[r] > 0
      BY <3>4, <2>types DEF LockInv, SweeperHolds, Sweeping
    <3>6. /\ locks' = [locks EXCEPT ![r] = locks[r]]
          /\ sweeper' = [sweeper EXCEPT ![r] = next]
      BY <2>3, <2>types, <3>1 DEF FindRows
    <3> HIDE DEF next
    <3> QED BY <3>3, <3>4, <3>5, <3>6, OneReplicaSteps
  <2>4. ASSUME NEW r \in Replica, DeleteRows(r) \/ FailDelete(r) PROVE LockInv'
    <3>1. sweeper[r].at \in {"claimed", "unclaimed"}
      BY <2>4 DEF DeleteRows, FailDelete, LockInv, FoundInSweep
    <3>2. locks[r] \in Nat /\ locks[r] > 0
      BY <3>1, <2>types DEF LockInv, SweeperHolds, Sweeping
    <3>3. PICK kind \in {"claimed", "unclaimed", "unlock"} :
             sweeper' = [sweeper EXCEPT ![r] = Sweep(kind)]
      BY <2>4, <3>1, NextSweepIsOne DEF DeleteRows, FailDelete
    <3>4. Sweep(kind) \in SweeperState /\ ~ Sweep(kind).found
      BY SweepState
    <3>5. locks' = [locks EXCEPT ![r] = locks[r]]
      BY <2>4, <2>types DEF DeleteRows, FailDelete
    <3> QED BY <3>2, <3>3, <3>4, <3>5, OneReplicaSteps
  <2>5. ASSUME NEW r \in Replica, Unlock(r) \/ FailUnlock(r) PROVE LockInv'
    <3>1. locks[r] \in Nat /\ locks[r] > 0
      BY <2>5, <2>types DEF Unlock, FailUnlock, LockInv, SweeperHolds, Sweeping
    <3>2. PICK held \in Nat : locks' = [locks EXCEPT ![r] = held]
      <4>1. CASE Unlock(r)
        <5>1. locks[r] - 1 \in Nat /\ locks' = [locks EXCEPT ![r] = locks[r] - 1]
          BY <3>1, <4>1 DEF Unlock
        <5> QED BY <5>1
      <4>2. CASE FailUnlock(r)
        <5>1. locks' = [locks EXCEPT ![r] = locks[r]]
          BY <2>types, <4>2 DEF FailUnlock
        <5> QED BY <3>1, <5>1
      <4> QED BY <2>5, <4>1, <4>2
    <3>3. sweeper' = [sweeper EXCEPT ![r] = Sleep(Hour, TRUE)]
      BY <2>5 DEF Unlock, FailUnlock, EndCycle
    <3>4. Sleep(Hour, TRUE).at = "sleep" /\ ~ Sleep(Hour, TRUE).found
      BY <2>0, SleepState
    <3> QED BY <2>0, <3>1, <3>2, <3>3, <3>4, OneReplicaSteps
  <2>6. ASSUME NEW r \in Replica, LoseSession(r) PROVE LockInv'
    <3>1. /\ locks' = [locks EXCEPT ![r] = 0]
          /\ sweeper' = [sweeper EXCEPT ![r] = Sleep(Hour, TRUE)]
      BY <2>6 DEF LoseSession, EndCycle
    <3>2. Sleep(Hour, TRUE).at = "sleep" /\ ~ Sleep(Hour, TRUE).found
      BY <2>0, SleepState
    <3> QED BY <2>0, <2>zero, <3>1, <3>2, OneReplicaSteps
  <2>7. ASSUME NEW r \in Replica, Restart(r) PROVE LockInv'
    <3>1. /\ locks' = [locks EXCEPT ![r] = 0]
          /\ sweeper' = [sweeper EXCEPT ![r] = Sleep(0, FALSE)]
      BY <2>7 DEF Restart
    <3>2. Sleep(0, FALSE).at = "sleep" /\ ~ Sleep(0, FALSE).found
      BY SleepState
    <3> QED BY <2>0, <2>zero, <3>1, <3>2, OneReplicaSteps
  <2>8. ASSUME NEW r \in Replica, CloseSession(r) PROVE LockInv'
    <3>1. /\ locks' = [locks EXCEPT ![r] = 0]
          /\ sweeper' = [sweeper EXCEPT ![r] = sweeper[r]]
          /\ sweeper[r].at = "sleep"
      BY <2>8, <2>types DEF CloseSession, Sweeping
    <3>2. sweeper[r] \in SweeperState /\ ~ sweeper[r].found
      BY <2>types, <3>1 DEF LockInv, FoundInSweep
    <3> QED BY <2>zero, <3>1, <3>2, OneReplicaSteps
  <2>9. ASSUME NEW d \in Delivery, Deliver(d) PROVE LockInv'
    BY <2>9, LockUnchanged
       DEF Deliver, CheckIssuer, CheckQuota, Insert, CommitInsert, CutDelivery
  <2>10. ASSUME NEW k \in Claim, ClaimDelivery(k) PROVE LockInv'
    BY <2>10, LockUnchanged DEF ClaimDelivery, ReadClaim, UpdateClaim, CutClaim
  <2>11. ASSUME NEW p \in Recipient, ListDeliveries(p) PROVE LockInv'
    BY <2>11, LockUnchanged DEF ListDeliveries
  <2>12. CASE SetStatus
    BY <2>12, LockUnchanged DEF SetStatus
  <2>13. CASE UNCHANGED vars
    BY <2>13, LockUnchanged DEF vars
  <2> QED
    BY <2>1, <2>2, <2>3, <2>4, <2>5, <2>6, <2>7, <2>8, <2>9, <2>10, <2>11, <2>12,
       <2>13, TickKeepsLock DEF MailboxNext, RunCycle, Disturb
<1> QED BY <1>1, <1>2, PTL DEF MailboxSpec

(* retention.rs:40: two replicas are never sweeping at once.                 *)
THEOREM SweepsNeverOverlap == MailboxSpec => []OneSweeper
<1>1. LockInv => OneSweeper
  BY DEF LockInv, SweeperHolds, OneHolder, OneSweeper
<1> QED BY <1>1, LockInvariance, PTL

-----------------------------------------------------------------------------
(* Every other mailbox step leaves rows, requests and the issuer alone.      *)
SweeperOnly(r) ==
    \/ BeginCycle(r) \/ SkipCycle(r) \/ FindRows(r) \/ Unlock(r)
    \/ Disturb(r)

(* What only concerns a sweeper leaves the API alone.                        *)
LEMMA SweeperOnlyMovesSweeper ==
    ASSUME NEW r \in Replica, SweeperOnly(r)
    PROVE  UNCHANGED <<deliveries, active, api, late>>
  BY DEF SweeperOnly, Disturb, BeginCycle, SkipCycle, FindRows, Unlock, FailCycle,
         FailDelete, FailUnlock, LoseSession, CloseSession, Restart, EndCycle, api, hist

(* The kinds of step there are.                                              *)
LEMMA MailboxSteps ==
    ASSUME [MailboxNext]_vars
    PROVE  \/ \E d \in Delivery : Deliver(d)
           \/ \E k \in Claim : ClaimDelivery(k)
           \/ \E p \in Recipient : ListDeliveries(p)
           \/ \E r \in Replica : DeleteRows(r) \/ SweeperOnly(r)
           \/ SetStatus \/ Tick \/ UNCHANGED vars
  BY DEF MailboxNext, RunCycle, SweeperOnly

-----------------------------------------------------------------------------
(* Ages.                                                                     *)
LEMMA AgesAreNumbers == OldAge \in Nat /\ 0 \in Ages /\ \A a \in Ages : a \in Nat
<1> DEFINE limits == {Hour, ClaimedWindow, UnclaimedWindow}
<1>1. limits \subseteq Nat
  BY MailboxAssumption
<1>2. \E n \in limits : \A m \in limits : m <= n
  BY MailboxAssumption
<1>3. (CHOOSE n \in limits : \A m \in limits : m <= n) \in limits
  BY <1>2, Zenon
<1>4. OldAge \in Nat
  BY <1>1, <1>3 DEF OldAge
<1> QED BY <1>4 DEF Ages

(* Getting older stays within the bound, and goes one way.                   *)
LEMMA OlderIsAge ==
    ASSUME NEW a \in Ages
    PROVE  Older(a) \in Ages /\ Older(a) >= a
  BY AgesAreNumbers DEF Older, Ages

(* A tick keeps a row where it is.                                           *)
LEMMA TickOfRow ==
    ASSUME MailboxTypeOK, Tick, NEW n \in Seqs
    PROVE  /\ deliveries'[n] \in Row
           /\ deliveries'[n].st = deliveries[n].st
           /\ deliveries'[n].token = deliveries[n].token
           /\ deliveries'[n].age >= deliveries[n].age
           /\ deliveries'[n].since >= deliveries[n].since
<1>1. deliveries[n] \in Row
  BY DEF MailboxTypeOK
<1>2. deliveries'[n] = IF deliveries[n].st \in {"none", "gone"} THEN deliveries[n]
                       ELSE [deliveries[n] EXCEPT !.age = Older(deliveries[n].age),
                                !.since = IF n \in Claimed THEN Older(deliveries[n].since)
                                          ELSE deliveries[n].since]
  BY DEF Tick
<1>3. /\ Older(deliveries[n].age) \in Ages /\ Older(deliveries[n].age) >= deliveries[n].age
      /\ Older(deliveries[n].since) \in Ages
      /\ Older(deliveries[n].since) >= deliveries[n].since
  BY <1>1, OlderIsAge DEF Row
<1>4. deliveries[n].age \in Nat /\ deliveries[n].since \in Nat
  BY <1>1, AgesAreNumbers DEF Row
<1>5. CASE deliveries[n].st \in {"none", "gone"}
  BY <1>1, <1>2, <1>4, <1>5
<1>6. CASE deliveries[n].st \notin {"none", "gone"}
  <2> DEFINE s == IF n \in Claimed THEN Older(deliveries[n].since) ELSE deliveries[n].since
  <2>1. s \in Ages /\ s >= deliveries[n].since
    BY <1>1, <1>3, <1>4 DEF Row
  <2>2. deliveries'[n] = [deliveries[n] EXCEPT !.age = Older(deliveries[n].age), !.since = s]
    BY <1>2, <1>6
  <2> HIDE DEF s
  <2> QED BY <1>1, <1>3, <2>1, <2>2 DEF Row
<1> QED BY <1>5, <1>6

-----------------------------------------------------------------------------
(* A request whose INSERT has started owns the row it will commit.           *)
WritersOwn ==
    \A d \in Delivery : delivering[d].at = "writing" =>
        /\ delivering[d].seq \in Seqs
        /\ deliveries[delivering[d].seq].st = "writing"
        /\ \A e \in Delivery \ {d} :
              delivering[e].at = "writing" => delivering[e].seq # delivering[d].seq

(* What the sweeps and the claims do to one row.                             *)
LEMMA DeleteOfRow ==
    ASSUME MailboxTypeOK, NEW r \in Replica, DeleteRows(r), NEW n \in Seqs
    PROVE  /\ deliveries'[n] = IF n \in sweeper[r].picked /\ n \in Stored
                               THEN GoneRow ELSE deliveries[n]
           /\ GoneRow \in Row /\ GoneRow.st = "gone"
  BY AgesAreNumbers DEF DeleteRows, GoneRow, NoRow, Row

(* A claim takes the row it names if nobody has, and no other.               *)
LEMMA UpdateOfRow ==
    ASSUME MailboxTypeOK, NEW k \in Claim, UpdateClaim(k), NEW n \in Seqs
    PROVE  /\ IF n \in Unclaimed /\ n = claiming[k].seq
              THEN /\ deliveries'[n].st = "claimed"
                   /\ deliveries'[n].token = deliveries[n].token
                   /\ deliveries'[n].age = deliveries[n].age
              ELSE deliveries'[n] = deliveries[n]
           /\ deliveries'[n] \in Row
<1>1. deliveries[n] \in Row
  BY DEF MailboxTypeOK
<1>2. deliveries'[n] = IF n \in Unclaimed /\ n = claiming[k].seq
                       THEN [deliveries[n] EXCEPT !.st = "claimed", !.since = 0]
                       ELSE deliveries[n]
  BY DEF UpdateClaim, Claimable
<1> QED BY <1>1, <1>2, AgesAreNumbers DEF Row

(* A statement of a delivery touches the row it draws or owns.               *)
LEMMA DeliverOfRow ==
    ASSUME MailboxTypeOK, WritersOwn, NEW d \in Delivery, Deliver(d), NEW n \in Seqs
    PROVE  /\ deliveries'[n] \in Row
           /\ \/ deliveries'[n] = deliveries[n]
              \/ /\ delivering'[d] = [at |-> "writing", seq |-> n]
                 /\ deliveries[n].st = "none" /\ deliveries'[n].st = "writing"
              \/ /\ delivering[d].at = "writing" /\ delivering[d].seq = n
                 /\ deliveries[n].st = "writing"
                 /\ deliveries'[n].st \in {"unclaimed", "gone"}
                 /\ deliveries'[n].st = "unclaimed" =>
                       deliveries'[n].token = deliveries[n].token
<1>1. deliveries[n] \in Row /\ deliveries \in [Seqs -> Row]
      /\ DOMAIN delivering = Delivery
  BY DEF MailboxTypeOK
<1>2. CASE CheckIssuer(d) \/ CheckQuota(d)
  BY <1>1, <1>2 DEF CheckIssuer, CheckQuota
<1>3. CASE Insert(d)
  <2>1. PICK m \in Seqs, token \in BOOLEAN :
           /\ \A i \in Seqs : deliveries[i].st = "none" <=> i >= m
           /\ deliveries' = [deliveries EXCEPT ![m] =
                                [NoRow EXCEPT !.st = "writing", !.token = token]]
           /\ delivering' = [delivering EXCEPT ![d] = [at |-> "writing", seq |-> m]]
    BY <1>3 DEF Insert
  <2>2. [NoRow EXCEPT !.st = "writing", !.token = token] \in Row
        /\ [NoRow EXCEPT !.st = "writing", !.token = token].st = "writing"
    BY AgesAreNumbers DEF NoRow, Row
  <2>3. deliveries[m].st = "none"
    BY <2>1 DEF Seqs
  <2>4. CASE n = m
    BY <1>1, <2>1, <2>2, <2>3, <2>4
  <2>5. CASE n # m
    BY <1>1, <2>1, <2>5
  <2> QED BY <2>4, <2>5
<1>4. CASE CommitInsert(d)
  <2>1. delivering[d].seq \in Seqs /\ deliveries[delivering[d].seq].st = "writing"
        /\ delivering[d].at = "writing"
    BY <1>4 DEF CommitInsert, WritersOwn
  <2>2. deliveries' = [deliveries EXCEPT ![delivering[d].seq] =
                          [deliveries[delivering[d].seq] EXCEPT !.st = "unclaimed"]]
    BY <1>1, <1>4, <2>1 DEF CommitInsert
  <2>3. CASE n = delivering[d].seq
    <3>1. deliveries'[n] = [deliveries[n] EXCEPT !.st = "unclaimed"]
      BY <1>1, <2>2, <2>3
    <3> QED BY <1>1, <2>1, <2>3, <3>1 DEF Row
  <2>4. CASE n # delivering[d].seq
    BY <1>1, <2>2, <2>4
  <2> QED BY <2>3, <2>4
<1>5. CASE CutDelivery(d)
  <2>1. GoneRow \in Row /\ GoneRow.st = "gone"
    BY AgesAreNumbers DEF GoneRow, NoRow, Row
  <2>2. CASE delivering[d].at = "writing" /\ n = delivering[d].seq
    <3>1. deliveries'[n] = GoneRow /\ deliveries[n].st = "writing"
      BY <1>1, <1>5, <2>2 DEF CutDelivery, WritersOwn
    <3> QED BY <2>1, <2>2, <3>1
  <2>3. CASE ~ (delivering[d].at = "writing" /\ n = delivering[d].seq)
    <3>1. deliveries'[n] = deliveries[n]
      BY <1>1, <1>5, <2>3 DEF CutDelivery
    <3> QED BY <1>1, <3>1
  <2> QED BY <2>2, <2>3
<1> QED BY <1>2, <1>3, <1>4, <1>5 DEF Deliver

(* A row is drawn, committed, perhaps claimed, and deleted, never the other  *)
(* way; it keeps its token, and it does not get younger.                     *)
Advances(n) ==
    /\ deliveries[n].st = "unclaimed" => deliveries'[n].st \in {"unclaimed", "claimed", "gone"}
    /\ deliveries[n].st = "claimed" => deliveries'[n].st \in {"claimed", "gone"}
    /\ deliveries[n].st = "gone" => deliveries'[n].st = "gone"
    /\ deliveries'[n].st = "claimed" => deliveries[n].st \in {"unclaimed", "claimed"}
    /\ deliveries'[n].st \notin {"gone", "writing"} =>
          deliveries'[n].token = deliveries[n].token
    /\ n \in Stored /\ deliveries'[n].st # "gone" => deliveries'[n].age >= deliveries[n].age
    /\ n \in Claimed /\ deliveries'[n].st # "gone" =>
          deliveries'[n].since >= deliveries[n].since

(* Whatever the step, each row advances.                                     *)
LEMMA RowsAdvance ==
    ASSUME MailboxTypeOK, WritersOwn, [MailboxNext]_vars, NEW n \in Seqs
    PROVE  Advances(n) /\ deliveries'[n] \in Row
<1>1. deliveries[n] \in Row /\ deliveries[n].age \in Nat /\ deliveries[n].since \in Nat
  <2>1. deliveries[n] \in Row
    BY DEF MailboxTypeOK
  <2> QED BY <2>1, AgesAreNumbers DEF Row
<1>2. n \in Stored <=> deliveries[n].st \in {"unclaimed", "claimed"}
  BY DEF Stored, Claimed, Unclaimed
<1>3. n \in Claimed <=> deliveries[n].st = "claimed"
  BY DEF Claimed
<1>4. n \in Unclaimed <=> deliveries[n].st = "unclaimed"
  BY DEF Unclaimed
<1>5. ASSUME deliveries'[n] = deliveries[n]
      PROVE  Advances(n) /\ deliveries'[n] \in Row
  BY <1>1, <1>5 DEF Advances
<1>6. ASSUME NEW d \in Delivery, Deliver(d)
      PROVE  Advances(n) /\ deliveries'[n] \in Row
  <2>1. /\ deliveries'[n] \in Row
        /\ \/ deliveries'[n] = deliveries[n]
           \/ deliveries[n].st = "none" /\ deliveries'[n].st = "writing"
           \/ /\ deliveries[n].st = "writing"
              /\ deliveries'[n].st \in {"unclaimed", "gone"}
              /\ deliveries'[n].st = "unclaimed" =>
                    deliveries'[n].token = deliveries[n].token
    BY <1>6, DeliverOfRow
  <2> QED BY <1>1, <1>2, <1>3, <2>1 DEF Advances
<1>7. ASSUME NEW k \in Claim, ClaimDelivery(k)
      PROVE  Advances(n) /\ deliveries'[n] \in Row
  <2>1. CASE UpdateClaim(k)
    BY <1>1, <1>2, <1>3, <1>4, <2>1, UpdateOfRow DEF Advances
  <2>2. CASE ~ UpdateClaim(k)
    BY <1>5, <1>7, <2>2 DEF ClaimDelivery, ReadClaim, CutClaim
  <2> QED BY <2>1, <2>2
<1>8. ASSUME NEW p \in Recipient, ListDeliveries(p)
      PROVE  Advances(n) /\ deliveries'[n] \in Row
  BY <1>5, <1>8 DEF ListDeliveries
<1>9. ASSUME NEW r \in Replica, DeleteRows(r)
      PROVE  Advances(n) /\ deliveries'[n] \in Row
  BY <1>1, <1>2, <1>3, <1>9, DeleteOfRow DEF Advances
<1>10. ASSUME NEW r \in Replica, SweeperOnly(r)
       PROVE  Advances(n) /\ deliveries'[n] \in Row
  BY <1>5, <1>10, SweeperOnlyMovesSweeper
<1>11. ASSUME Tick
       PROVE  Advances(n) /\ deliveries'[n] \in Row
  BY <1>11, <1>2, <1>3, TickOfRow DEF Advances
<1>12. ASSUME SetStatus \/ UNCHANGED vars
       PROVE  Advances(n) /\ deliveries'[n] \in Row
  BY <1>5, <1>12 DEF SetStatus, vars
<1> QED
  BY <1>6, <1>7, <1>8, <1>9, <1>10, <1>11, <1>12, MailboxSteps

-----------------------------------------------------------------------------
(* Types.                                                                    *)
DeliveryRequest == [at : {"idle", "checked", "counted", "writing"}, seq : Seqs \cup {0}]
ClaimStages == {"new", "read", "done"}
ClaimAnswers == {0, 204, 403, 404, 409}
ClaimRequest == [at : ClaimStages, seq : Seqs \cup {0}, right : BOOLEAN,
                 answer : ClaimAnswers]
Pass == [at : {"new", "more", "done"}, since : Seqs \cup {0}, missing : SUBSET Seqs]
SweeperRecord ==
    [at : {"sleep", "claimed", "unclaimed", "unlock"}, left : 0..Hour, swept : BOOLEAN,
     found : BOOLEAN, picked : SUBSET Seqs]

(* The type invariant, by named sets.                                        *)
LEMMA MailboxTypes ==
    MailboxTypeOK <=>
        /\ deliveries \in [Seqs -> Row] /\ active \in BOOLEAN
        /\ delivering \in [Delivery -> DeliveryRequest]
        /\ claiming \in [Claim -> ClaimRequest]
        /\ paging \in [Recipient -> Pass]
        /\ sweeper \in [Replica -> SweeperRecord]
        /\ locks \in [Replica -> Nat]
        /\ late \in Nat /\ faults \in 0..MaxFaults
  BY DEF MailboxTypeOK, DeliveryRequest, ClaimRequest, ClaimStages, ClaimAnswers,
         Pass, SweeperRecord

(* The requests of a delivery and what they touch besides the rows.          *)
LEMMA DeliverMoves ==
    ASSUME MailboxTypeOK, NEW d \in Delivery, Deliver(d)
    PROVE  /\ delivering' \in [Delivery -> DeliveryRequest]
           /\ \A e \in Delivery \ {d} : delivering'[e] = delivering[e]
           /\ late' \in Nat /\ faults' \in 0..MaxFaults
           /\ UNCHANGED <<active, claiming, paging, sweeper, locks>>
<1>1. delivering \in [Delivery -> DeliveryRequest] /\ late \in Nat
      /\ faults \in 0..MaxFaults /\ MaxFaults \in Nat
  BY MailboxTypes, MailboxAssumption
<1>2. Idle \in DeliveryRequest
  BY DEF Idle, DeliveryRequest
<1>3. UNCHANGED <<active, claiming, paging, sweeper, locks>>
  BY DEF Deliver, CheckIssuer, CheckQuota, Insert, CommitInsert, CutDelivery, hist
<1>4. late' \in Nat /\ faults' \in 0..MaxFaults
  <2>1. /\ faults' = faults \/ (faults < MaxFaults /\ faults' = faults + 1)
        /\ late' \in {late, late + 1, 0}
    BY DEF Deliver, CheckIssuer, CheckQuota, Insert, CommitInsert, CutDelivery, hist, Fail
  <2> QED BY <1>1, <2>1
<1>5. \E new \in DeliveryRequest : delivering' = [delivering EXCEPT ![d] = new]
  <2>1. CASE CheckIssuer(d)
    <3>1. [delivering[d] EXCEPT !.at = "checked"] \in DeliveryRequest
      BY <1>1 DEF DeliveryRequest
    <3> QED BY <2>1, <3>1 DEF CheckIssuer
  <2>2. CASE CheckQuota(d)
    <3>1. [delivering[d] EXCEPT !.at = "counted"] \in DeliveryRequest
      BY <1>1 DEF DeliveryRequest
    <3> QED BY <1>2, <2>2, <3>1 DEF CheckQuota
  <2>3. CASE Insert(d)
    <3>1. PICK n \in Seqs : delivering' = [delivering EXCEPT ![d] = [at |-> "writing", seq |-> n]]
      BY <2>3 DEF Insert
    <3>2. [at |-> "writing", seq |-> n] \in DeliveryRequest
      BY DEF DeliveryRequest
    <3> QED BY <3>1, <3>2
  <2>4. CASE CommitInsert(d) \/ CutDelivery(d)
    BY <1>2, <2>4 DEF CommitInsert, CutDelivery
  <2> QED BY <2>1, <2>2, <2>3, <2>4 DEF Deliver
<1>6. delivering' \in [Delivery -> DeliveryRequest]
      /\ \A e \in Delivery \ {d} : delivering'[e] = delivering[e]
  BY <1>1, <1>5
<1> QED BY <1>3, <1>4, <1>6

(* A refused claim is over.                                                  *)
LEMMA RefusedIsRequest ==
    ASSUME NEW code \in {0, 403, 404, 409}
    PROVE  /\ Refused(code) \in ClaimRequest
           /\ Refused(code).at = "done" /\ Refused(code).answer = code
<1>1. NewClaim \in ClaimRequest
  BY DEF NewClaim, ClaimRequest, ClaimStages, ClaimAnswers
<1>2. "done" \in ClaimStages /\ code \in ClaimAnswers
  BY DEF ClaimStages, ClaimAnswers
<1>3. Refused(code) = [NewClaim EXCEPT !.at = "done", !.answer = code]
  BY Zenon DEF Refused
<1>4. /\ [NewClaim EXCEPT !.at = "done", !.answer = code] \in ClaimRequest
      /\ [NewClaim EXCEPT !.at = "done", !.answer = code].at = "done"
      /\ [NewClaim EXCEPT !.at = "done", !.answer = code].answer = code
  BY <1>1, <1>2 DEF ClaimRequest
<1> QED BY <1>3, <1>4, Zenon

(* A claim touches its own request and rows.                                 *)
LEMMA ClaimMoves ==
    ASSUME MailboxTypeOK, NEW k \in Claim, ClaimDelivery(k)
    PROVE  /\ claiming' \in [Claim -> ClaimRequest]
           /\ \A j \in Claim \ {k} : claiming'[j] = claiming[j]
           /\ faults' \in 0..MaxFaults
           /\ UNCHANGED <<active, delivering, paging, sweeper, locks, late>>
<1>1. claiming \in [Claim -> ClaimRequest] /\ faults \in 0..MaxFaults /\ MaxFaults \in Nat
  BY MailboxTypes, MailboxAssumption
<1>2. \A code \in {0, 403, 404, 409} : Refused(code) \in ClaimRequest
  BY RefusedIsRequest
<1>3. UNCHANGED <<active, delivering, paging, sweeper, locks, late>>
  BY DEF ClaimDelivery, ReadClaim, UpdateClaim, CutClaim, hist
<1>4. faults' \in 0..MaxFaults
  <2>1. faults' = faults \/ (faults < MaxFaults /\ faults' = faults + 1)
    BY DEF ClaimDelivery, ReadClaim, UpdateClaim, CutClaim, hist, Fail
  <2> QED BY <1>1, <2>1
<1>5. \E new \in ClaimRequest : claiming' = [claiming EXCEPT ![k] = new]
  <2>1. CASE ReadClaim(k)
    <3>1. PICK n \in Seqs, right \in BOOLEAN :
             claiming' = [claiming EXCEPT ![k] =
                 CASE n \notin Stored -> Refused(404)
                   [] n \in Claimed   -> Refused(409)
                   [] n \in Unclaimed /\ ~ Authorized(n, right) -> Refused(403)
                   [] OTHER -> [at |-> "read", seq |-> n, right |-> right, answer |-> 0]]
      BY <2>1 DEF ReadClaim
    <3>2. [at |-> "read", seq |-> n, right |-> right, answer |-> 0] \in ClaimRequest
      BY DEF ClaimRequest, ClaimStages, ClaimAnswers
    <3> DEFINE new == CASE n \notin Stored -> Refused(404)
                        [] n \in Claimed   -> Refused(409)
                        [] n \in Unclaimed /\ ~ Authorized(n, right) -> Refused(403)
                        [] OTHER -> [at |-> "read", seq |-> n, right |-> right, answer |-> 0]
    <3>3. new \in {Refused(404), Refused(409), Refused(403),
                   [at |-> "read", seq |-> n, right |-> right, answer |-> 0]}
      <4>1. CASE n \notin Stored
        BY <4>1 DEF Stored
      <4>2. CASE n \in Claimed
        BY <4>2 DEF Stored, Claimed, Unclaimed
      <4>3. CASE n \in Unclaimed
        BY <4>3 DEF Stored, Claimed, Unclaimed
      <4> QED BY <4>1, <4>2, <4>3 DEF Stored
    <3>4. claiming' = [claiming EXCEPT ![k] = new]
      BY <3>1
    <3> HIDE DEF new
    <3>5. new \in ClaimRequest
      BY <1>2, <3>2, <3>3
    <3> QED BY <3>4, <3>5
  <2>2. CASE UpdateClaim(k)
    <3>1. [claiming[k] EXCEPT !.at = "done", !.answer = 204] \in ClaimRequest
      <4>1. claiming[k] \in ClaimRequest
        BY <1>1
      <4>2. "done" \in ClaimStages /\ 204 \in ClaimAnswers
        BY DEF ClaimStages, ClaimAnswers
      <4> QED BY <4>1, <4>2 DEF ClaimRequest
    <3>2. claiming' \in {[claiming EXCEPT ![k] = Refused(409)], [claiming EXCEPT ![k] = Refused(0)],
                         [claiming EXCEPT ![k] =
                            [claiming[k] EXCEPT !.at = "done", !.answer = 204]]}
      BY <2>2 DEF UpdateClaim
    <3> QED BY <1>2, <3>1, <3>2
  <2>3. CASE CutClaim(k)
    BY <1>2, <2>3 DEF CutClaim
  <2> QED BY <2>1, <2>2, <2>3 DEF ClaimDelivery
<1>6. /\ claiming' \in [Claim -> ClaimRequest]
      /\ \A j \in Claim \ {k} : claiming'[j] = claiming[j]
  BY <1>1, <1>5
<1> QED BY <1>3, <1>4, <1>6

-----------------------------------------------------------------------------
(* Pages. A set of sequence numbers is finite and has a first and a last one.*)
LEMMA SeqSetsFinite ==
    ASSUME NEW S \in SUBSET Seqs
    PROVE  IsFiniteSet(S) /\ Cardinality(S) \in Nat
<1>1. IsFiniteSet(Seqs)
  BY MailboxAssumption, FS_Interval DEF Seqs
<1>2. IsFiniteSet(S)
  BY <1>1, FS_Subset
<1> QED BY <1>2, FS_CardinalityType

(* Of finitely many sets one contains no other strictly.                     *)
LEMMA SomeSetIsSmallest ==
    ASSUME NEW S \in SUBSET Seqs, S # {}, NEW F \in [S -> SUBSET S]
    PROVE  \E n \in S : \A m \in S : F[m] \subseteq F[n] => F[m] = F[n]
<1> DEFINE T == {F[n] : n \in S}
<1>1. T \subseteq FiniteSubsetsOf(S) /\ T # {}
  BY SeqSetsFinite DEF FiniteSubsetsOf
<1>2. PICK x \in T : \A y \in T : ~ (<<y, x>> \in StrictSubsetOrdering(S))
  <2>1. IsWellFoundedOn(StrictSubsetOrdering(S), FiniteSubsetsOf(S))
    BY FS_StrictSubsetOrderingWellFounded
  <2> HIDE DEF T
  <2> QED BY <1>1, <2>1, WFMin
<1>3. PICK n \in S : x = F[n]
  BY <1>2
<1>4. ASSUME NEW m \in S, F[m] \subseteq F[n], F[m] # F[n]
      PROVE  FALSE
  <2>1. <<F[m], F[n]>> \in StrictSubsetOrdering(S)
    BY <1>4 DEF StrictSubsetOrdering
  <2> QED BY <1>2, <1>3, <2>1
<1> QED BY <1>4

(* So a set of sequence numbers has a first.                                 *)
LEMMA FirstExists ==
    ASSUME NEW S \in SUBSET Seqs, S # {}
    PROVE  \E n \in S : \A m \in S : n <= m
<1> DEFINE F == [n \in S |-> {m \in S : m <= n}]
<1>1. PICK n \in S : \A m \in S : F[m] \subseteq F[n] => F[m] = F[n]
  <2>1. F \in [S -> SUBSET S]
    OBVIOUS
  <2> HIDE DEF F
  <2> QED BY <2>1, SomeSetIsSmallest
<1>2. ASSUME NEW m \in S, ~ (n <= m)
      PROVE  FALSE
  <2>1. \A x \in S : x \in Nat
    BY DEF Seqs
  <2>2. n \notin F[m] /\ \A x \in S : x <= m => x <= n
    BY <1>2, <2>1
  <2>3. F[m] \subseteq F[n] /\ n \in F[n]
    BY <2>1, <2>2
  <2> QED BY <1>1, <2>2, <2>3
<1> QED BY <1>2

(* And a last.                                                               *)
LEMMA LastSeqIsLast ==
    ASSUME NEW S \in SUBSET Seqs, S # {}
    PROVE  LastSeq(S) \in S /\ \A m \in S : m <= LastSeq(S)
<1> DEFINE F == [n \in S |-> {m \in S : n <= m}]
<1>1. PICK n \in S : \A m \in S : F[m] \subseteq F[n] => F[m] = F[n]
  <2>1. F \in [S -> SUBSET S]
    OBVIOUS
  <2> HIDE DEF F
  <2> QED BY <2>1, SomeSetIsSmallest
<1>2. \A m \in S : m <= n
  <2> SUFFICES ASSUME NEW m \in S, ~ (m <= n)
               PROVE  FALSE
    OBVIOUS
  <2>1. \A x \in S : x \in Nat
    BY DEF Seqs
  <2>2. n \notin F[m] /\ \A x \in S : m <= x => n <= x
    BY <2>1
  <2>3. F[m] \subseteq F[n] /\ n \in F[n]
    BY <2>1, <2>2
  <2> QED BY <1>1, <2>2, <2>3
<1> QED BY <1>2, Zenon DEF LastSeq

(* A full page holds everything up to its last row, a page that is not full  *)
(* holds everything (issuer.rs 243-260).                                     *)
LEMMA PageMissesNothing ==
    ASSUME NEW since \in Seqs \cup {0}
    PROVE  /\ PageAfter(since) \subseteq Unclaimed
           /\ PageIsFull(PageAfter(since)) =>
                 /\ LastSeq(PageAfter(since)) \in Seqs
                 /\ \A n \in Unclaimed \ PageAfter(since) :
                       n > since => n > LastSeq(PageAfter(since))
           /\ ~ PageIsFull(PageAfter(since)) =>
                 \A n \in Unclaimed : n > since => n \in PageAfter(since)
<1> DEFINE page == PageAfter(since)
           Before(n) == {m \in Unclaimed : since < m /\ m < n}
<1>1. page = {n \in Unclaimed : n > since /\ Cardinality(Before(n)) < PageSize}
  BY DEF PageAfter
<1>2. /\ Unclaimed \subseteq Seqs /\ page \subseteq Unclaimed /\ since \in Nat
      /\ \A n \in Seqs : n \in Nat
  BY <1>1 DEF Unclaimed, Seqs
<1>3. PageSize \in Nat \ {0}
  BY MailboxAssumption
<1>4. \A n \in Seqs : Before(n) \in SUBSET Seqs /\ Cardinality(Before(n)) \in Nat
  <2> SUFFICES ASSUME NEW n \in Seqs
               PROVE  Before(n) \in SUBSET Seqs /\ Cardinality(Before(n)) \in Nat
    OBVIOUS
  <2>1. Before(n) \in SUBSET Seqs
    BY <1>2
  <2> HIDE DEF Before
  <2> QED BY <2>1, SeqSetsFinite
<1>5. page \in SUBSET Seqs /\ IsFiniteSet(page) /\ Cardinality(page) \in Nat
  <2>1. page \in SUBSET Seqs
    BY <1>2
  <2> HIDE DEF page
  <2> QED BY <2>1, SeqSetsFinite
(* A page is closed downwards. *)
<1>6. ASSUME NEW l \in page, NEW n \in Unclaimed, n > since, n <= l
      PROVE  n \in page
  <2>1. Before(n) \subseteq Before(l)
    <3>1. l \in Nat /\ n \in Nat /\ n <= l
      BY <1>2, <1>6
    <3>2. \A m \in Nat : m < n => m < l
      BY <3>1
    <3> QED BY <1>2, <3>2
  <2>2. l \in Seqs /\ n \in Seqs
    BY <1>2
  <2>3. Cardinality(Before(n)) <= Cardinality(Before(l))
    <3>1. Before(n) \in SUBSET Before(l) /\ IsFiniteSet(Before(l))
      BY <1>4, <2>1, <2>2, SeqSetsFinite
    <3> HIDE DEF Before
    <3> QED BY <3>1, FS_Subset
  <2>4. Cardinality(Before(l)) < PageSize
    BY <1>1
  <2>5. Cardinality(Before(n)) < PageSize
    <3>1. Cardinality(Before(n)) \in Nat /\ Cardinality(Before(l)) \in Nat /\ PageSize \in Nat
      BY <1>3, <1>4, <2>2
    <3> HIDE DEF Before
    <3> QED BY <2>3, <2>4, <3>1
  <2> QED BY <1>1, <1>6, <2>5
(* A page is never longer than PageSize. *)
<1>7. page # {} => Cardinality(page) <= PageSize
  <2> SUFFICES ASSUME page # {} PROVE Cardinality(page) <= PageSize
    OBVIOUS
  <2> DEFINE l == LastSeq(page)
  <2>1. l \in page /\ \A m \in page : m <= l
    BY <1>5, LastSeqIsLast
  <2>2. l \in Seqs /\ Cardinality(Before(l)) < PageSize
    BY <1>1, <1>2, <2>1
  <2>3. page \subseteq Before(l) \cup {l}
    <3> SUFFICES ASSUME NEW m \in page, m # l PROVE m \in Before(l)
      OBVIOUS
    <3>1. /\ m \in Unclaimed /\ since < m /\ m <= l
          /\ m \in Nat /\ l \in Nat
      BY <1>1, <1>2, <2>1
    <3>2. m < l
      <4> HIDE DEF l
      <4> QED BY <3>1
    <3> QED BY <3>1, <3>2
  <2>4. /\ IsFiniteSet(Before(l)) /\ l \notin Before(l)
    <3>1. l \in Nat
      BY <1>2, <2>2
    <3>2. l \notin Before(l)
      <4> HIDE DEF l
      <4> QED BY <3>1
    <3>3. IsFiniteSet(Before(l))
      BY <1>4, <2>2, SeqSetsFinite
    <3> QED BY <3>2, <3>3
  <2> HIDE DEF page, Before, l
  <2>5. IsFiniteSet(Before(l) \cup {l})
        /\ Cardinality(Before(l) \cup {l}) = Cardinality(Before(l)) + 1
    BY <2>4, FS_AddElement
  <2>6. Cardinality(page) <= Cardinality(Before(l) \cup {l})
    BY <2>3, <2>5, FS_Subset
  <2> QED BY <1>3, <1>4, <1>5, <2>2, <2>5, <2>6
<1>8. ASSUME PageIsFull(page)
      PROVE  /\ LastSeq(page) \in Seqs
             /\ \A n \in Unclaimed \ page : n > since => n > LastSeq(page)
  <2>1. page # {}
    BY <1>3, <1>8, FS_EmptySet DEF PageIsFull
  <2>2. LastSeq(page) \in page
    <3> HIDE DEF page
    <3> QED BY <1>5, <2>1, LastSeqIsLast
  <2>3. ASSUME NEW n \in Unclaimed \ page, n > since, ~ (n > LastSeq(page))
        PROVE  FALSE
    <3>1. n <= LastSeq(page)
      <4>1. n \in Nat /\ LastSeq(page) \in Nat
        BY <1>2, <2>2
      <4> HIDE DEF page
      <4> QED BY <2>3, <4>1
    <3> QED BY <1>6, <2>2, <2>3, <3>1
  <2> QED BY <1>2, <2>2, <2>3
<1>9. ASSUME ~ PageIsFull(page), NEW n \in Unclaimed, n > since, n \notin page
      PROVE  FALSE
  <2> DEFINE T == {m \in Unclaimed : m > since /\ m \notin page}
  <2>1. PICK f \in T : \A m \in T : f <= m
    <3>1. T \in SUBSET Seqs /\ T # {}
      BY <1>2, <1>9
    <3> HIDE DEF T
    <3> QED BY <3>1, FirstExists
  <2>2. f \in Seqs /\ ~ (Cardinality(Before(f)) < PageSize)
    BY <1>1, <1>2, <2>1
  <2>3. Before(f) \subseteq page
    <3> SUFFICES ASSUME NEW m \in Before(f), m \notin page PROVE FALSE
      OBVIOUS
    <3>1. m \in T /\ m < f
      OBVIOUS
    <3> QED BY <1>2, <2>1, <3>1
  <2> HIDE DEF page, Before, T
  <2>4. Cardinality(Before(f)) <= Cardinality(page)
    BY <1>5, <2>3, FS_Subset
  <2>5. Cardinality(page) # 0
    BY <1>3, <1>4, <1>5, <2>2, <2>4
  <2>6. page # {}
    BY <2>5, FS_EmptySet
  <2>7. Cardinality(page) = PageSize
    BY <1>3, <1>4, <1>5, <1>7, <2>2, <2>4, <2>6
  <2> QED BY <1>9, <2>7 DEF PageIsFull
<1> QED BY <1>2, <1>8, <1>9

-----------------------------------------------------------------------------
(* A row that was once listed never becomes unclaimed again, and what a pass *)
(* still misses lies beyond its cursor. The strengthening of PassComplete.   *)
PassInv ==
    \A p \in Recipient :
        /\ paging[p].at = "new" => paging[p].since = 0
        /\ paging[p].at # "new" =>
              \A n \in paging[p].missing : deliveries[n].st \in {"unclaimed", "claimed", "gone"}
        /\ paging[p].at = "more" =>
              \A n \in paging[p].missing \cap Unclaimed : n > paging[p].since
        /\ paging[p].at = "done" => paging[p].missing \cap Unclaimed = {}

(* A listing touches its own pass.                                           *)
LEMMA ListMoves ==
    ASSUME MailboxTypeOK, PassInv, NEW p \in Recipient, ListDeliveries(p)
    PROVE  /\ paging' \in [Recipient -> Pass]
           /\ UNCHANGED <<deliveries, active, delivering, claiming, sweeper, locks, late, faults>>
           /\ PassInv'
<1> DEFINE page == PageAfter(paging[p].since)
           listed == IF paging[p].at = "new" THEN Unclaimed ELSE paging[p].missing
           new == IF PageIsFull(page)
                  THEN [at |-> "more", since |-> LastSeq(page), missing |-> listed \ page]
                  ELSE [at |-> "done", since |-> 0, missing |-> listed \ page]
<1>1. /\ paging \in [Recipient -> Pass] /\ paging[p] \in Pass
      /\ paging[p].since \in Seqs \cup {0} /\ paging[p].missing \in SUBSET Seqs
  <2>1. paging \in [Recipient -> Pass]
    BY MailboxTypes
  <2> QED BY <2>1 DEF Pass
<1>2. /\ paging' = [paging EXCEPT ![p] = new]
      /\ paging[p].at # "done"
      /\ UNCHANGED <<deliveries, active, delivering, claiming, sweeper, locks, late, faults>>
  BY DEF ListDeliveries, hist
<1>3. /\ page \subseteq Unclaimed
      /\ PageIsFull(page) =>
            /\ LastSeq(page) \in Seqs
            /\ \A n \in Unclaimed \ page : n > paging[p].since => n > LastSeq(page)
      /\ ~ PageIsFull(page) => \A n \in Unclaimed : n > paging[p].since => n \in page
  BY <1>1, PageMissesNothing
<1>4. /\ listed \in SUBSET Seqs
      /\ \A n \in listed : deliveries[n].st \in {"unclaimed", "claimed", "gone"}
      /\ \A n \in listed \cap Unclaimed : n > paging[p].since
  <2>1. CASE paging[p].at = "new"
    BY <2>1 DEF PassInv, Unclaimed, Seqs
  <2>2. CASE paging[p].at = "more"
    BY <1>1, <2>2 DEF PassInv
  <2> QED BY <1>1, <1>2, <2>1, <2>2 DEF Pass
<1> HIDE DEF page, listed
<1>5. new \in Pass
  BY <1>3, <1>4 DEF Pass
<1>6. /\ new.at # "new"
      /\ \A n \in new.missing : deliveries[n].st \in {"unclaimed", "claimed", "gone"}
      /\ new.at = "more" => \A n \in new.missing \cap Unclaimed : n > new.since
      /\ new.at = "done" => new.missing \cap Unclaimed = {}
  <2>1. CASE PageIsFull(page)
    <3>1. new = [at |-> "more", since |-> LastSeq(page), missing |-> listed \ page]
      BY <2>1
    <3> HIDE DEF new
    <3> QED BY <1>3, <1>4, <2>1, <3>1
  <2>2. CASE ~ PageIsFull(page)
    <3>1. new = [at |-> "done", since |-> 0, missing |-> listed \ page]
      BY <2>2
    <3> HIDE DEF new
    <3> QED BY <1>3, <1>4, <2>2, <3>1
  <2> QED BY <2>1, <2>2
<1> HIDE DEF new
<1>7. paging' \in [Recipient -> Pass]
  BY <1>1, <1>2, <1>5
<1>8. Unclaimed' = Unclaimed
  BY <1>2 DEF Unclaimed
<1>9. PassInv'
  <2> SUFFICES ASSUME NEW q \in Recipient
               PROVE  /\ paging'[q].at = "new" => paging'[q].since = 0
                      /\ paging'[q].at # "new" =>
                            \A n \in paging'[q].missing :
                               deliveries'[n].st \in {"unclaimed", "claimed", "gone"}
                      /\ paging'[q].at = "more" =>
                            \A n \in paging'[q].missing \cap Unclaimed' : n > paging'[q].since
                      /\ paging'[q].at = "done" => paging'[q].missing \cap Unclaimed' = {}
    BY DEF PassInv
  <2>1. CASE q = p
    <3>1. paging'[q] = new
      BY <1>1, <1>2, <2>1
    <3> QED BY <1>2, <1>6, <1>8, <3>1
  <2>2. CASE q # p
    <3>1. paging'[q] = paging[q]
      BY <1>1, <1>2, <2>2
    <3> QED BY <1>2, <1>8, <3>1 DEF PassInv
  <2> QED BY <2>1, <2>2
<1> QED BY <1>2, <1>7, <1>9

(* Whatever else happens to the rows, a pass in progress keeps its promise.  *)
LEMMA PassesKept ==
    ASSUME MailboxTypeOK, PassInv, paging' = paging, \A n \in Seqs : Advances(n)
    PROVE  PassInv'
<1>1. \A p \in Recipient : paging[p].missing \in SUBSET Seqs
  <2>1. paging \in [Recipient -> Pass]
    BY MailboxTypes
  <2> QED BY <2>1 DEF Pass
<1>2. ASSUME NEW n \in Seqs, deliveries[n].st \in {"unclaimed", "claimed", "gone"}
      PROVE  /\ deliveries'[n].st \in {"unclaimed", "claimed", "gone"}
             /\ n \in Unclaimed' => n \in Unclaimed
  BY <1>2 DEF Advances, Unclaimed
<1> QED BY <1>1, <1>2 DEF PassInv

-----------------------------------------------------------------------------
(* What a sweep has picked stays past its window until it is deleted: a row  *)
(* claimed after the second sweep picked it was unclaimed for too long.      *)
Due(kind, row) ==
    \/ row.st = "gone"
    \/ /\ kind = "claimed" /\ ClaimedWindow > 0
       /\ row.st = "claimed" /\ row.since > ClaimedWindow
    \/ /\ kind = "unclaimed" /\ UnclaimedWindow > 0
       /\ row.st \in {"unclaimed", "claimed"} /\ row.age > UnclaimedWindow

SweepInv ==
    \A r \in Replica :
        /\ sweeper[r].at = "claimed" => ClaimedWindow > 0
        /\ sweeper[r].at = "unclaimed" => UnclaimedWindow > 0
        /\ sweeper[r].found =>
              /\ sweeper[r].at \in {"claimed", "unclaimed"}
              /\ \A n \in sweeper[r].picked : Due(sweeper[r].at, deliveries[n])

(* Where one replica's task goes next.                                       *)
NextTask(next) ==
    /\ next \in SweeperRecord
    /\ next.at = "claimed" => ClaimedWindow > 0
    /\ next.at = "unclaimed" => UnclaimedWindow > 0
    /\ next.found => next.at \in {"claimed", "unclaimed"} /\ next.picked \subseteq Expired(next.at)

(* Sleeping is a state a sweeper can be in.                                  *)
LEMMA SleepTask ==
    ASSUME NEW h \in 0..Hour, NEW b \in BOOLEAN
    PROVE  NextTask(Sleep(h, b))
  BY DEF NextTask, Sleep, SweeperRecord

(* So is sweeping, for a window that is set.                                 *)
LEMMA SweepTask ==
    ASSUME NEW kind \in {"claimed", "unclaimed", "unlock"},
           kind = "claimed" => ClaimedWindow > 0,
           kind = "unclaimed" => UnclaimedWindow > 0
    PROVE  NextTask(Sweep(kind))
  BY MailboxAssumption DEF NextTask, Sweep, SweeperRecord

MovesTo(r) ==
    \E next : /\ NextTask(next) /\ sweeper' = [sweeper EXCEPT ![r] = next]
              /\ DeleteRows(r) => ~ next.found

(* A step of a sweeper takes it to one of its states.                        *)
LEMMA SweeperMoves ==
    ASSUME MailboxTypeOK, SweepInv, NEW r \in Replica, DeleteRows(r) \/ SweeperOnly(r)
    PROVE  /\ MovesTo(r)
           /\ faults' \in 0..MaxFaults
           /\ UNCHANGED <<active, api, late>>
<1>1. /\ sweeper \in [Replica -> SweeperRecord] /\ sweeper[r] \in SweeperRecord
      /\ faults \in 0..MaxFaults /\ MaxFaults \in Nat
  <2>1. sweeper \in [Replica -> SweeperRecord] /\ faults \in 0..MaxFaults
    BY MailboxTypes
  <2> QED BY <2>1, MailboxAssumption
<1>2. UNCHANGED <<active, api, late>>
  BY SweeperOnlyMovesSweeper DEF DeleteRows, hist
<1>3. faults' \in 0..MaxFaults
  <2>1. faults' = faults \/ (faults < MaxFaults /\ faults' = faults + 1)
    BY DEF SweeperOnly, Disturb, BeginCycle, SkipCycle, FindRows, Unlock, FailCycle,
           FailDelete, FailUnlock, LoseSession, CloseSession, Restart, DeleteRows, hist, Fail
  <2> QED BY <1>1, <2>1
<1>4. ASSUME NEW next, NextTask(next), ~ next.found, sweeper' = [sweeper EXCEPT ![r] = next]
      PROVE  MovesTo(r)
  BY <1>4 DEF MovesTo
<1>5. \A b \in BOOLEAN : /\ NextTask(Sleep(Hour, b)) /\ ~ Sleep(Hour, b).found
                         /\ NextTask(Sleep(0, b)) /\ ~ Sleep(0, b).found
  <2>1. Hour \in 0..Hour /\ 0 \in 0..Hour
    BY MailboxAssumption
  <2> QED BY <2>1, SleepTask DEF Sleep
<1>6. \A kind : ~ Sweep(kind).found
  BY DEF Sweep
<1>7. NextTask(Sweep(NextSweep(sweeper[r].at)))
  <2>1. /\ NextSweep(sweeper[r].at) \in {"unclaimed", "unlock"}
        /\ NextSweep(sweeper[r].at) = "unclaimed" => UnclaimedWindow > 0
    BY DEF NextSweep
  <2> QED BY <2>1, SweepTask
<1>8. ASSUME BeginCycle(r)
      PROVE  MovesTo(r)
  <2>1. /\ sweeper' = [sweeper EXCEPT ![r] = Sweep(FirstSweep)]
        /\ ClaimedWindow + UnclaimedWindow > 0
    BY <1>8 DEF BeginCycle, CycleDue
  <2>2. /\ FirstSweep \in {"claimed", "unclaimed"}
        /\ FirstSweep = "claimed" => ClaimedWindow > 0
        /\ FirstSweep = "unclaimed" => UnclaimedWindow > 0
    BY <2>1, MailboxAssumption DEF FirstSweep
  <2>3. NextTask(Sweep(FirstSweep))
    BY <2>2, SweepTask
  <2> QED BY <1>4, <1>6, <2>1, <2>3
<1>9. ASSUME \/ SkipCycle(r) \/ FailCycle(r) \/ Unlock(r) \/ FailUnlock(r)
             \/ LoseSession(r) \/ Restart(r)
      PROVE  MovesTo(r)
  <2>1. \/ sweeper' = [sweeper EXCEPT ![r] = Sleep(Hour, FALSE)]
        \/ sweeper' = [sweeper EXCEPT ![r] = Sleep(Hour, TRUE)]
        \/ sweeper' = [sweeper EXCEPT ![r] = Sleep(0, FALSE)]
    BY <1>9 DEF SkipCycle, FailCycle, Unlock, FailUnlock, LoseSession, Restart, EndCycle
  <2> QED BY <1>4, <1>5, <2>1
<1>10. ASSUME FindRows(r)
       PROVE  MovesTo(r)
  <2>1. PICK batch \in SUBSET Expired(sweeper[r].at) :
           sweeper' = [sweeper EXCEPT ![r].found = TRUE, ![r].picked = batch]
    BY <1>10 DEF FindRows
  <2> DEFINE next == [sweeper[r] EXCEPT !.found = TRUE, !.picked = batch]
  <2>2. sweeper' = [sweeper EXCEPT ![r] = next] /\ sweeper[r].at \in {"claimed", "unclaimed"}
    BY <1>1, <1>10, <2>1 DEF FindRows
  <2>3. batch \in SUBSET Seqs
    BY <2>1 DEF Expired, Claimed, Unclaimed
  <2>4. next \in SweeperRecord /\ next.at = sweeper[r].at /\ next.picked = batch
    BY <1>1, <2>3 DEF SweeperRecord
  <2> HIDE DEF next
  <2>5. NextTask(next)
    BY <2>1, <2>2, <2>4 DEF NextTask, SweepInv
  <2>6. ~ DeleteRows(r)
    <3>1. ~ sweeper[r].found
      BY <1>10 DEF FindRows
    <3> QED BY <3>1 DEF DeleteRows
  <2> QED BY <2>2, <2>5, <2>6 DEF MovesTo
<1>11. ASSUME DeleteRows(r) \/ FailDelete(r)
       PROVE  MovesTo(r)
  <2>1. /\ sweeper[r].at \in {"claimed", "unclaimed"}
        /\ \/ sweeper' = [sweeper EXCEPT ![r] = Sweep(sweeper[r].at)]
           \/ sweeper' = [sweeper EXCEPT ![r] = Sweep(NextSweep(sweeper[r].at))]
    BY <1>11 DEF DeleteRows, FailDelete, SweepInv
  <2>2. NextTask(Sweep(sweeper[r].at))
    BY <2>1, SweepTask DEF SweepInv
  <2> QED BY <1>4, <1>6, <1>7, <2>1, <2>2
<1>12. ASSUME CloseSession(r)
       PROVE  MovesTo(r)
  <2>1. sweeper' = [sweeper EXCEPT ![r] = sweeper[r]] /\ sweeper[r].at = "sleep"
    BY <1>1, <1>12 DEF CloseSession, Sweeping
  <2>2. ~ sweeper[r].found
    BY <2>1 DEF SweepInv
  <2>3. NextTask(sweeper[r])
    BY <1>1, <2>1, <2>2 DEF NextTask
  <2> QED BY <1>4, <2>1, <2>2, <2>3
<1> QED BY <1>2, <1>3, <1>8, <1>9, <1>10, <1>11, <1>12 DEF SweeperOnly, Disturb

-----------------------------------------------------------------------------
(* The types and the four facts that the theorems need.                      *)
LEMMA RowsStayRows ==
    ASSUME MailboxTypeOK, WritersOwn, [MailboxNext]_vars
    PROVE  deliveries' \in [Seqs -> Row]
<1>1. deliveries \in [Seqs -> Row]
  BY MailboxTypes
<1>2. \A n \in Seqs : deliveries'[n] \in Row
  BY RowsAdvance
<1>3. deliveries' = [n \in Seqs |-> deliveries'[n]]
  <2>1. ASSUME NEW d \in Delivery, Deliver(d)
        PROVE  deliveries' = [n \in Seqs |-> deliveries'[n]]
    BY <1>1, <2>1
       DEF Deliver, CheckIssuer, CheckQuota, Insert, CommitInsert, CutDelivery
  <2>2. ASSUME NEW k \in Claim, ClaimDelivery(k)
        PROVE  deliveries' = [n \in Seqs |-> deliveries'[n]]
    BY <1>1, <2>2 DEF ClaimDelivery, ReadClaim, UpdateClaim, CutClaim
  <2>3. ASSUME NEW r \in Replica, DeleteRows(r)
        PROVE  deliveries' = [n \in Seqs |-> deliveries'[n]]
    BY <2>3 DEF DeleteRows
  <2>4. ASSUME Tick
        PROVE  deliveries' = [n \in Seqs |-> deliveries'[n]]
    BY <2>4 DEF Tick
  <2>5. ASSUME deliveries' = deliveries
        PROVE  deliveries' = [n \in Seqs |-> deliveries'[n]]
    BY <1>1, <2>5
  <2>6. SetStatus \/ UNCHANGED vars \/ (\E p \in Recipient : ListDeliveries(p))
           => deliveries' = deliveries
    BY DEF SetStatus, vars, ListDeliveries
  <2> QED BY <2>1, <2>2, <2>3, <2>4, <2>5, <2>6, MailboxSteps, SweeperOnlyMovesSweeper
<1> QED BY <1>2, <1>3

(* Time passes for the sweepers.                                             *)
LEMMA TickOfSweeper ==
    ASSUME MailboxTypeOK, Tick
    PROVE  /\ sweeper' \in [Replica -> SweeperRecord]
           /\ \A r \in Replica : /\ sweeper'[r].at = sweeper[r].at
                                 /\ sweeper'[r].found = sweeper[r].found
                                 /\ sweeper'[r].picked = sweeper[r].picked
<1>1. sweeper' = [r \in Replica |->
          IF sweeper[r].left > 1 THEN [sweeper[r] EXCEPT !.left = sweeper[r].left - 1]
          ELSE [sweeper[r] EXCEPT !.left = 0, !.swept = FALSE]]
  BY DEF Tick
<1>2. ASSUME NEW r \in Replica
      PROVE  /\ sweeper'[r] \in SweeperRecord
             /\ sweeper'[r].at = sweeper[r].at
             /\ sweeper'[r].found = sweeper[r].found
             /\ sweeper'[r].picked = sweeper[r].picked
  <2>1. sweeper[r] \in SweeperRecord /\ Hour \in Nat
    BY MailboxTypes, MailboxAssumption
  <2>2. CASE sweeper[r].left > 1
    <3>1. sweeper'[r] = [sweeper[r] EXCEPT !.left = sweeper[r].left - 1]
      BY <1>1, <2>2
    <3>2. sweeper[r].left - 1 \in 0..Hour
      BY <2>1, <2>2 DEF SweeperRecord
    <3> QED BY <2>1, <3>1, <3>2 DEF SweeperRecord
  <2>3. CASE ~ (sweeper[r].left > 1)
    <3>1. sweeper'[r] = [sweeper[r] EXCEPT !.left = 0, !.swept = FALSE]
      BY <1>1, <2>3
    <3>2. 0 \in 0..Hour /\ FALSE \in BOOLEAN
      BY <2>1
    <3> QED BY <2>1, <3>1, <3>2 DEF SweeperRecord
  <2> QED BY <2>2, <2>3
<1> QED BY <1>1, <1>2

(* Each row being written remains its request's own.                         *)
LEMMA WritersKept ==
    ASSUME MailboxTypeOK, WritersOwn, [MailboxNext]_vars
    PROVE  WritersOwn'
<1>1. deliveries \in [Seqs -> Row] /\ DOMAIN delivering = Delivery
  BY MailboxTypes
<1>2. ASSUME delivering' = delivering,
             \A n \in Seqs : deliveries[n].st = "writing" => deliveries'[n].st = "writing"
      PROVE  WritersOwn'
  BY <1>2 DEF WritersOwn
<1>3. ASSUME NEW d \in Delivery, Deliver(d)
      PROVE  WritersOwn'
  <2>1. \A e \in Delivery \ {d} : delivering'[e] = delivering[e]
    BY <1>3, DeliverMoves
  <2>2. CASE Insert(d)
    <3>1. PICK m \in Seqs, token \in BOOLEAN :
             /\ \A i \in Seqs : deliveries[i].st = "none" <=> i >= m
             /\ deliveries' = [deliveries EXCEPT ![m] =
                                  [NoRow EXCEPT !.st = "writing", !.token = token]]
             /\ delivering' = [delivering EXCEPT ![d] = [at |-> "writing", seq |-> m]]
      BY <2>2 DEF Insert
    <3>2. /\ deliveries[m].st = "none" /\ deliveries'[m].st = "writing"
          /\ \A n \in Seqs \ {m} : deliveries'[n] = deliveries[n]
      BY <1>1, <3>1 DEF NoRow, Seqs
    <3>3. delivering'[d].at = "writing" /\ delivering'[d].seq = m
      BY <1>1, <3>1
    <3>4. \A e \in Delivery \ {d} : delivering[e].at = "writing" => delivering[e].seq # m
      BY <3>2 DEF WritersOwn
    <3> QED BY <2>1, <3>2, <3>3, <3>4 DEF WritersOwn
  <2>3. CASE CheckIssuer(d) \/ CheckQuota(d)
    <3>1. deliveries' = deliveries
      BY <2>3 DEF CheckIssuer, CheckQuota
    <3>2. \/ delivering' = [delivering EXCEPT ![d].at = "checked"]
          \/ delivering' = [delivering EXCEPT ![d].at = "counted"]
          \/ delivering' = [delivering EXCEPT ![d] = Idle]
      BY <2>3 DEF CheckIssuer, CheckQuota
    <3>3. delivering'[d].at # "writing"
      <4>1. delivering \in [Delivery -> DeliveryRequest]
        BY MailboxTypes
      <4> QED BY <3>2, <4>1 DEF Idle, DeliveryRequest
    <3> QED BY <2>1, <3>1, <3>3 DEF WritersOwn
  <2>4. CASE CommitInsert(d) \/ CutDelivery(d)
    <3>1. delivering'[d].at # "writing"
      BY <1>1, <2>4 DEF CommitInsert, CutDelivery, Idle
    <3>2. ASSUME NEW e \in Delivery \ {d}, delivering[e].at = "writing"
          PROVE  deliveries'[delivering[e].seq] = deliveries[delivering[e].seq]
      <4>1. delivering[e].seq \in Seqs
            /\ (delivering[d].at = "writing" => delivering[d].seq # delivering[e].seq)
        BY <3>2 DEF WritersOwn
      <4>2. \/ deliveries' = [deliveries EXCEPT ![delivering[d].seq].st = "unclaimed"]
               /\ delivering[d].at = "writing"
            \/ deliveries' = [deliveries EXCEPT ![delivering[d].seq] = GoneRow]
               /\ delivering[d].at = "writing"
            \/ deliveries' = deliveries
        BY <2>4 DEF CommitInsert, CutDelivery
      <4> QED BY <1>1, <4>1, <4>2
    <3> QED BY <2>1, <3>1, <3>2 DEF WritersOwn
  <2> QED BY <1>3, <2>2, <2>3, <2>4 DEF Deliver
<1>4. ASSUME NEW k \in Claim, ClaimDelivery(k)
      PROVE  WritersOwn'
  <2>1. delivering' = delivering
    BY <1>4, ClaimMoves
  <2>2. CASE UpdateClaim(k)
    <3>1. \A n \in Seqs : deliveries[n].st = "writing" => deliveries'[n].st = "writing"
      BY <2>2, UpdateOfRow DEF Unclaimed
    <3> QED BY <1>2, <2>1, <3>1
  <2>3. CASE ~ UpdateClaim(k)
    <3>1. deliveries' = deliveries
      BY <1>4, <2>3 DEF ClaimDelivery, ReadClaim, CutClaim
    <3> QED BY <1>2, <2>1, <3>1
  <2> QED BY <2>2, <2>3
<1>5. ASSUME NEW r \in Replica, DeleteRows(r)
      PROVE  WritersOwn'
  <2>1. \A n \in Seqs : deliveries[n].st = "writing" => deliveries'[n].st = "writing"
    BY <1>5, DeleteOfRow DEF Stored, Unclaimed, Claimed
  <2>2. delivering' = delivering
    BY <1>5 DEF DeleteRows, api
  <2> QED BY <1>2, <2>1, <2>2
<1>6. ASSUME Tick
      PROVE  WritersOwn'
  <2>1. delivering' = delivering
    BY <1>6 DEF Tick, api
  <2> QED BY <1>2, <1>6, <2>1, TickOfRow
<1>7. ASSUME UNCHANGED <<deliveries, delivering>>
      PROVE  WritersOwn'
  BY <1>2, <1>7
<1>8. SetStatus \/ UNCHANGED vars \/ (\E p \in Recipient : ListDeliveries(p))
         => UNCHANGED <<deliveries, delivering>>
  BY DEF SetStatus, vars, ListDeliveries, api
<1>9. \A r \in Replica : SweeperOnly(r) => UNCHANGED <<deliveries, delivering>>
  BY SweeperOnlyMovesSweeper DEF api
<1> QED BY <1>3, <1>4, <1>5, <1>6, <1>7, <1>8, <1>9, MailboxSteps

(* What a sweep has picked remains due.                                      *)
LEMMA SweepsKept ==
    ASSUME MailboxTypeOK, WritersOwn, SweepInv, [MailboxNext]_vars
    PROVE  SweepInv'
<1>1. /\ sweeper \in [Replica -> SweeperRecord] /\ deliveries \in [Seqs -> Row]
      /\ \A r \in Replica : sweeper[r].picked \in SUBSET Seqs
  <2>1. sweeper \in [Replica -> SweeperRecord] /\ deliveries \in [Seqs -> Row]
    BY MailboxTypes
  <2> QED BY <2>1 DEF SweeperRecord
<1>2. ASSUME NEW n \in Seqs, NEW kind, Due(kind, deliveries[n])
      PROVE  Due(kind, deliveries'[n])
  <2>1. Advances(n) /\ deliveries'[n] \in Row /\ deliveries[n] \in Row
    BY <1>1, RowsAdvance
  <2>2. /\ deliveries[n].age \in Nat /\ deliveries'[n].age \in Nat
        /\ deliveries[n].since \in Nat /\ deliveries'[n].since \in Nat
        /\ ClaimedWindow \in Nat /\ UnclaimedWindow \in Nat
    BY <2>1, AgesAreNumbers, MailboxAssumption DEF Row
  <2> QED BY <1>2, <2>1, <2>2 DEF Due, Advances, Stored, Claimed, Unclaimed
<1>3. ASSUME \A r \in Replica : /\ sweeper'[r].at = sweeper[r].at
                                /\ sweeper'[r].found = sweeper[r].found
                                /\ sweeper'[r].picked = sweeper[r].picked
      PROVE  SweepInv'
  BY <1>1, <1>2, <1>3 DEF SweepInv
<1>4. ASSUME NEW r \in Replica, DeleteRows(r) \/ SweeperOnly(r)
      PROVE  SweepInv'
  <2>1. PICK next : /\ NextTask(next) /\ sweeper' = [sweeper EXCEPT ![r] = next]
                    /\ DeleteRows(r) => ~ next.found
    BY <1>4, SweeperMoves DEF MovesTo
  <2>2. next.found => \A n \in next.picked : Due(next.at, deliveries'[n])
    <3> SUFFICES ASSUME next.found, NEW n \in next.picked
                 PROVE  Due(next.at, deliveries'[n])
      OBVIOUS
    <3>1. deliveries' = deliveries
      BY <1>4, <2>1, SweeperOnlyMovesSweeper
    <3>2. n \in Expired(next.at) /\ next.at \in {"claimed", "unclaimed"}
      BY <2>1 DEF NextTask
    <3> QED BY <2>1, <3>1, <3>2 DEF Due, Expired, NextTask, Claimed, Unclaimed
  <2>3. ASSUME NEW s \in Replica
        PROVE  /\ sweeper'[s].at = "claimed" => ClaimedWindow > 0
               /\ sweeper'[s].at = "unclaimed" => UnclaimedWindow > 0
               /\ sweeper'[s].found =>
                     /\ sweeper'[s].at \in {"claimed", "unclaimed"}
                     /\ \A n \in sweeper'[s].picked : Due(sweeper'[s].at, deliveries'[n])
    <3>1. CASE s = r
      <4>1. sweeper'[s] = next
        BY <1>1, <2>1, <3>1
      <4> QED BY <2>1, <2>2, <4>1 DEF NextTask
    <3>2. CASE s # r
      <4>1. sweeper'[s] = sweeper[s]
        BY <1>1, <2>1, <3>2
      <4> QED BY <1>1, <1>2, <4>1 DEF SweepInv
    <3> QED BY <3>1, <3>2
  <2> QED BY <2>3 DEF SweepInv
<1>5. ASSUME Tick
      PROVE  SweepInv'
  BY <1>3, <1>5, TickOfSweeper
<1>6. ASSUME sweeper' = sweeper
      PROVE  SweepInv'
  BY <1>3, <1>6
<1>7. SetStatus \/ UNCHANGED vars => sweeper' = sweeper
  BY DEF SetStatus, vars
<1>8. \A p \in Recipient : ListDeliveries(p) => sweeper' = sweeper
  BY DEF ListDeliveries
<1> QED BY <1>4, <1>5, <1>6, <1>7, <1>8, MailboxSteps, DeliverMoves, ClaimMoves

-----------------------------------------------------------------------------
(* A claim that has passed its check was made with the row's token, and a    *)
(* claim that was answered 204 has taken its row for good. The strengthening *)
(* of OneWinner.                                                             *)
ClaimInv ==
    \A k \in Claim :
        /\ claiming[k].at = "read" =>
              /\ claiming[k].right /\ claiming[k].seq \in Seqs /\ claiming[k].answer = 0
              /\ deliveries[claiming[k].seq].st \in {"unclaimed", "claimed", "gone"}
              /\ deliveries[claiming[k].seq].st = "unclaimed" =>
                    deliveries[claiming[k].seq].token
        /\ claiming[k].answer = 204 =>
              /\ claiming[k].seq \in Seqs
              /\ deliveries[claiming[k].seq].st \in {"claimed", "gone"}
              /\ \A j \in Claim \ {k} :
                    claiming[j].seq = claiming[k].seq => claiming[j].answer # 204

(* A claim that has checked its token remains right about it.                *)
LEMMA ClaimsKept ==
    ASSUME MailboxTypeOK, WritersOwn, ClaimInv, [MailboxNext]_vars
    PROVE  ClaimInv'
<1>1. claiming \in [Claim -> ClaimRequest] /\ deliveries \in [Seqs -> Row]
  BY MailboxTypes
<1>2. ASSUME NEW n \in Seqs, deliveries[n].st \in {"unclaimed", "claimed", "gone"}
      PROVE  /\ deliveries'[n].st \in {"unclaimed", "claimed", "gone"}
             /\ deliveries[n].st \in {"claimed", "gone"} =>
                   deliveries'[n].st \in {"claimed", "gone"}
             /\ deliveries'[n].st = "unclaimed" =>
                   deliveries[n].st = "unclaimed" /\ deliveries'[n].token = deliveries[n].token
  BY <1>2, RowsAdvance DEF Advances
<1>3. ASSUME claiming' = claiming
      PROVE  ClaimInv'
  BY <1>2, <1>3 DEF ClaimInv
<1>4. ASSUME NEW k \in Claim, ClaimDelivery(k)
      PROVE  ClaimInv'
  <2>1. \A j \in Claim \ {k} : claiming'[j] = claiming[j]
    BY <1>4, ClaimMoves
  (* A claim that is refused, or starts over, adds nothing to prove. *)
  <2>2. ASSUME claiming'[k].at # "read", claiming'[k].answer # 204
        PROVE  ClaimInv'
    BY <1>2, <2>1, <2>2 DEF ClaimInv
  <2>3. \A code \in {0, 403, 404, 409} :
           claiming' = [claiming EXCEPT ![k] = Refused(code)] =>
              claiming'[k].at # "read" /\ claiming'[k].answer # 204
    <3> TAKE code \in {0, 403, 404, 409}
    <3>1. Refused(code).at = "done" /\ Refused(code).answer = code
      BY RefusedIsRequest
    <3> HAVE claiming' = [claiming EXCEPT ![k] = Refused(code)]
    <3>2. claiming'[k] = Refused(code)
      BY <1>1
    <3> QED BY <3>1, <3>2
  <2>4. CASE ReadClaim(k)
    <3>1. PICK n \in Seqs, right \in BOOLEAN :
             claiming' = [claiming EXCEPT ![k] =
                 CASE n \notin Stored -> Refused(404)
                   [] n \in Claimed   -> Refused(409)
                   [] n \in Unclaimed /\ ~ Authorized(n, right) -> Refused(403)
                   [] OTHER -> [at |-> "read", seq |-> n, right |-> right, answer |-> 0]]
      BY <2>4 DEF ReadClaim
    <3>2. CASE n \in Unclaimed /\ Authorized(n, right)
      <4>1. n \in Stored /\ n \notin Claimed
        BY <3>2 DEF Stored, Claimed, Unclaimed
      <4>2. claiming' = [claiming EXCEPT ![k] =
                [at |-> "read", seq |-> n, right |-> right, answer |-> 0]]
        BY <3>1, <3>2, <4>1
      <4>3. claiming'[k] = [at |-> "read", seq |-> n, right |-> right, answer |-> 0]
        BY <1>1, <4>2
      <4>4. deliveries' = deliveries
        BY <2>4 DEF ReadClaim
      <4>5. deliveries[n].st = "unclaimed" /\ deliveries[n].token /\ right
        BY <3>2 DEF Unclaimed, Authorized
      <4> QED BY <2>1, <4>3, <4>4, <4>5 DEF ClaimInv
    <3>3. CASE ~ (n \in Unclaimed /\ Authorized(n, right))
      <4> DEFINE new == CASE n \notin Stored -> Refused(404)
                          [] n \in Claimed   -> Refused(409)
                          [] n \in Unclaimed /\ ~ Authorized(n, right) -> Refused(403)
                          [] OTHER -> [at |-> "read", seq |-> n, right |-> right, answer |-> 0]
      <4>1. new \in {Refused(404), Refused(409), Refused(403)}
        <5>1. CASE n \notin Stored
          BY <5>1 DEF Stored
        <5>2. CASE n \in Claimed
          BY <5>2 DEF Stored, Claimed, Unclaimed
        <5>3. CASE n \in Unclaimed
          BY <3>3, <5>3 DEF Stored, Claimed, Unclaimed
        <5> QED BY <5>1, <5>2, <5>3 DEF Stored
      <4>2. claiming' = [claiming EXCEPT ![k] = new]
        BY <3>1
      <4> HIDE DEF new
      <4>3. PICK code \in {0, 403, 404, 409} : new = Refused(code)
        BY <4>1
      <4>4. claiming'[k] = Refused(code)
        BY <1>1, <4>2, <4>3
      <4>5. claiming'[k].at # "read" /\ claiming'[k].answer # 204
        BY <4>4, RefusedIsRequest
      <4> QED BY <2>2, <4>5
    <3> QED BY <3>2, <3>3
  <2>5. CASE UpdateClaim(k)
    <3> DEFINE n == claiming[k].seq
    <3>1. claiming[k].at = "read" /\ n \in Seqs
      BY <2>5 DEF UpdateClaim, ClaimInv
    <3>2. CASE claiming' = [claiming EXCEPT ![k] = Refused(0)]
               \/ claiming' = [claiming EXCEPT ![k] = Refused(409)]
      BY <2>2, <2>3, <3>2
    <3>3. CASE /\ n \in Unclaimed
               /\ claiming' = [claiming EXCEPT ![k] =
                      [claiming[k] EXCEPT !.at = "done", !.answer = 204]]
      <4>1. /\ claiming'[k].at = "done" /\ claiming'[k].answer = 204 /\ claiming'[k].seq = n
        BY <1>1, <3>3 DEF ClaimRequest
      <4>2. deliveries'[n].st = "claimed"
        BY <2>5, <3>1, <3>3, UpdateOfRow
      <4>3. ASSUME NEW j \in Claim \ {k}
            PROVE  ~ (claiming[j].seq = n /\ claiming[j].answer = 204)
        BY <3>3 DEF ClaimInv, Unclaimed
      <4> HIDE DEF n
      <4> QED BY <1>2, <2>1, <3>1, <4>1, <4>2, <4>3 DEF ClaimInv
    <3>4. \/ claiming' = [claiming EXCEPT ![k] = Refused(0)]
          \/ claiming' = [claiming EXCEPT ![k] = Refused(409)]
          \/ /\ n \in Unclaimed
             /\ claiming' = [claiming EXCEPT ![k] =
                    [claiming[k] EXCEPT !.at = "done", !.answer = 204]]
      <4>1. CASE Claimable(n) = {}
        BY <2>5, <4>1 DEF UpdateClaim
      <4>2. CASE Claimable(n) # {}
        <5>1. n \in Unclaimed
          BY <4>2 DEF Claimable
        <5> QED BY <2>5, <4>2, <5>1 DEF UpdateClaim
      <4> QED BY <4>1, <4>2
    <3> QED BY <3>2, <3>3, <3>4
  <2>6. CASE CutClaim(k)
    BY <2>2, <2>3, <2>6 DEF CutClaim
  <2> QED BY <1>4, <2>4, <2>5, <2>6 DEF ClaimDelivery
<1>5. SetStatus \/ Tick \/ UNCHANGED vars \/ (\E p \in Recipient : ListDeliveries(p))
      \/ (\E r \in Replica : DeleteRows(r)) => claiming' = claiming
  BY DEF SetStatus, Tick, vars, ListDeliveries, DeleteRows, api
<1>6. \A r \in Replica : SweeperOnly(r) => claiming' = claiming
  BY SweeperOnlyMovesSweeper DEF api
<1>7. \A d \in Delivery : Deliver(d) => claiming' = claiming
  BY DeliverMoves
<1> QED BY <1>3, <1>4, <1>5, <1>6, <1>7, MailboxSteps

-----------------------------------------------------------------------------
(* The quota: a request that was let through adds a row at most, and there   *)
(* are never more of those than requests. The strengthening of               *)
(* QuotaOvershoot.                                                           *)
LetThrough == {d \in Delivery : delivering[d].at \in {"counted", "writing"}}
QuotaInv ==
    Quota > 0 =>
        Cardinality(Recent) + Cardinality(LetThrough) < Quota + Cardinality(Delivery)

(* Requests in flight can be counted.                                        *)
LEMMA RequestSetsFinite ==
    ASSUME NEW S \in SUBSET Delivery
    PROVE  IsFiniteSet(S) /\ Cardinality(S) \in Nat /\ Cardinality(S) <= Cardinality(Delivery)
           /\ Cardinality(Delivery) \in Nat
  BY MailboxAssumption, FS_Subset, FS_CardinalityType

(* No step lets more through than the quota and the requests in flight.      *)
LEMMA QuotaKept ==
    ASSUME MailboxTypeOK, WritersOwn, QuotaInv, [MailboxNext]_vars
    PROVE  QuotaInv'
<1>1. /\ delivering \in [Delivery -> DeliveryRequest] /\ deliveries \in [Seqs -> Row]
      /\ deliveries' \in [Seqs -> Row]
      /\ Quota \in Nat
  BY MailboxTypes, RowsStayRows, MailboxAssumption
<1>2. /\ IsFiniteSet(Recent) /\ Cardinality(Recent) \in Nat
      /\ IsFiniteSet(Recent') /\ Cardinality(Recent') \in Nat
  <2>1. Recent \in SUBSET Seqs /\ Recent' \in SUBSET Seqs
    BY DEF Recent, Stored, Claimed, Unclaimed
  <2> QED BY <2>1, SeqSetsFinite
<1>3. /\ IsFiniteSet(LetThrough) /\ Cardinality(LetThrough) \in Nat
      /\ IsFiniteSet(LetThrough') /\ Cardinality(LetThrough') \in Nat
      /\ Cardinality(LetThrough') <= Cardinality(Delivery) /\ Cardinality(Delivery) \in Nat
  <2>1. LetThrough \in SUBSET Delivery /\ LetThrough' \in SUBSET Delivery
    BY DEF LetThrough
  <2> QED BY <2>1, RequestSetsFinite
<1>4. ASSUME Recent' \subseteq Recent, LetThrough' \subseteq LetThrough
      PROVE  QuotaInv'
  <2>1. /\ Cardinality(Recent') <= Cardinality(Recent)
        /\ Cardinality(LetThrough') <= Cardinality(LetThrough)
    BY <1>2, <1>3, <1>4, FS_Subset
  <2> QED BY <1>1, <1>2, <1>3, <2>1 DEF QuotaInv
(* Rows that are not committed by this step do not become recent. *)
<1>5. ASSUME NEW n \in Seqs, n \in Recent',
             deliveries'[n].st = "unclaimed" => deliveries[n].st = "unclaimed"
      PROVE  n \in Recent
  <2>1. /\ Advances(n) /\ deliveries[n].age \in Nat /\ deliveries'[n].age \in Nat
        /\ deliveries[n].st \in {"none", "writing", "unclaimed", "claimed", "gone"}
        /\ Hour \in Nat
    BY <1>1, RowsAdvance, AgesAreNumbers, MailboxAssumption DEF Row
  <2>2. deliveries'[n].st \in {"unclaimed", "claimed"} /\ deliveries'[n].age < Hour
    BY <1>5 DEF Recent, Stored, Claimed, Unclaimed
  <2> QED
    BY <1>5, <2>1, <2>2
       DEF Advances, Recent, Stored, Claimed, Unclaimed
<1>6. ASSUME NEW d \in Delivery, Deliver(d)
      PROVE  QuotaInv'
  <2>1. \A e \in Delivery \ {d} : delivering'[e] = delivering[e]
    BY <1>6, DeliverMoves
  <2>2. ASSUME ~ CommitInsert(d)
        PROVE  Recent' \subseteq Recent
    <3> SUFFICES ASSUME NEW n \in Recent'
                 PROVE  n \in Recent
      OBVIOUS
    <3>1. n \in Seqs
      BY DEF Recent, Stored, Unclaimed, Claimed
    <3>2. deliveries'[n].st = "unclaimed" => deliveries[n].st = "unclaimed"
      <4>1. CASE CheckIssuer(d) \/ CheckQuota(d)
        BY <4>1 DEF CheckIssuer, CheckQuota
      <4>2. CASE Insert(d)
        <5>1. PICK m \in Seqs, token \in BOOLEAN :
                 deliveries' = [deliveries EXCEPT ![m] =
                                   [NoRow EXCEPT !.st = "writing", !.token = token]]
          BY <4>2 DEF Insert
        <5> QED BY <1>1, <3>1, <5>1 DEF NoRow
      <4>3. CASE CutDelivery(d)
        BY <1>1, <3>1, <4>3 DEF CutDelivery, GoneRow, NoRow
      <4> QED BY <1>6, <2>2, <4>1, <4>2, <4>3 DEF Deliver
    <3> QED BY <1>5, <3>1, <3>2
  <2>3. ASSUME delivering'[d].at \notin {"counted", "writing"} \/ d \in LetThrough
        PROVE  LetThrough' \subseteq LetThrough
    BY <2>1, <2>3 DEF LetThrough
  <2>4. CASE CheckIssuer(d)
    <3>1. delivering'[d].at = "checked" /\ ~ CommitInsert(d)
      BY <1>1, <2>4 DEF CheckIssuer, CommitInsert, DeliveryRequest
    <3> QED BY <1>4, <2>2, <2>3, <3>1
  <2>5. CASE CheckQuota(d)
    <3>1. ~ CommitInsert(d) /\ deliveries' = deliveries
      BY <2>5 DEF CheckQuota, CommitInsert
    <3>2. CASE UnderQuota
      <4>1. Recent' = Recent
        BY <3>1 DEF Recent, Stored, Unclaimed, Claimed
      <4>2. Quota > 0 => Cardinality(Recent) < Quota
        BY <1>1, <3>2 DEF UnderQuota
      <4> QED BY <1>1, <1>2, <1>3, <4>1, <4>2 DEF QuotaInv
    <3>3. CASE ~ UnderQuota
      <4>1. delivering'[d].at = "idle"
        BY <1>1, <2>5, <3>3 DEF CheckQuota, Idle
      <4> QED BY <1>4, <2>2, <2>3, <3>1, <4>1
    <3> QED BY <3>2, <3>3
  <2>6. CASE Insert(d)
    <3>1. ~ CommitInsert(d) /\ d \in LetThrough
      BY <2>6 DEF Insert, CommitInsert, LetThrough
    <3> QED BY <1>4, <2>2, <2>3, <3>1
  <2>7. CASE CommitInsert(d)
    <3> DEFINE n == delivering[d].seq
    <3>1. n \in Seqs /\ d \in LetThrough /\ delivering'[d].at = "idle"
      BY <1>1, <2>7 DEF CommitInsert, WritersOwn, LetThrough, Idle
    <3>2. Recent' \subseteq Recent \cup {n}
      <4> SUFFICES ASSUME NEW m \in Recent', m # n
                   PROVE  m \in Recent
        OBVIOUS
      <4>1. m \in Seqs
        BY DEF Recent, Stored, Unclaimed, Claimed
      <4>2. deliveries'[m] = deliveries[m]
        BY <1>1, <2>7, <4>1 DEF CommitInsert
      <4> QED BY <1>5, <4>1, <4>2
    <3>3. LetThrough' = LetThrough \ {d}
      BY <2>1, <3>1 DEF LetThrough
    <3> HIDE DEF n
    <3>4. Cardinality(LetThrough') = Cardinality(LetThrough) - 1
      BY <1>3, <3>1, <3>3, FS_RemoveElement
    <3>5. Cardinality(Recent') <= Cardinality(Recent) + 1
      <4>1. /\ IsFiniteSet(Recent \cup {n})
            /\ Cardinality(Recent \cup {n}) \in {Cardinality(Recent), Cardinality(Recent) + 1}
        BY <1>2, FS_AddElement
      <4>2. Cardinality(Recent') <= Cardinality(Recent \cup {n})
        BY <3>2, <4>1, FS_Subset
      <4> QED BY <1>2, <4>1, <4>2
    <3> QED BY <1>1, <1>2, <1>3, <3>4, <3>5 DEF QuotaInv
  <2>8. CASE CutDelivery(d)
    <3>1. delivering'[d].at = "idle"
      BY <1>1, <2>8 DEF CutDelivery, Idle
    <3>2. CASE CommitInsert(d)
      BY <2>7, <3>2
    <3>3. CASE ~ CommitInsert(d)
      BY <1>4, <2>2, <2>3, <3>1, <3>3
    <3> QED BY <3>2, <3>3
  <2> QED BY <1>6, <2>4, <2>5, <2>6, <2>7, <2>8 DEF Deliver
<1>7. ASSUME delivering' = delivering,
             \A n \in Seqs : deliveries'[n].st = "unclaimed" => deliveries[n].st = "unclaimed"
      PROVE  QuotaInv'
  <2>1. LetThrough' = LetThrough
    BY <1>7 DEF LetThrough
  <2>2. Recent' \subseteq Recent
    BY <1>5, <1>7 DEF Recent, Stored, Unclaimed, Claimed
  <2> QED BY <1>4, <2>1, <2>2
<1>8. ASSUME NEW k \in Claim, ClaimDelivery(k)
      PROVE  QuotaInv'
  <2>1. delivering' = delivering
    BY <1>8, ClaimMoves
  <2>2. \A n \in Seqs : deliveries'[n].st = "unclaimed" => deliveries[n].st = "unclaimed"
    <3>1. CASE UpdateClaim(k)
      BY <3>1, UpdateOfRow
    <3>2. CASE ~ UpdateClaim(k)
      BY <1>8, <3>2 DEF ClaimDelivery, ReadClaim, CutClaim
    <3> QED BY <3>1, <3>2
  <2> QED BY <1>7, <2>1, <2>2
<1>9. ASSUME NEW r \in Replica, DeleteRows(r)
      PROVE  QuotaInv'
  <2>1. delivering' = delivering
    BY <1>9 DEF DeleteRows, api
  <2> QED BY <1>7, <1>9, <2>1, DeleteOfRow
<1>10. ASSUME Tick
       PROVE  QuotaInv'
  <2>1. delivering' = delivering
    BY <1>10 DEF Tick, api
  <2> QED BY <1>7, <1>10, <2>1, TickOfRow
<1>11. ASSUME UNCHANGED <<deliveries, delivering>>
       PROVE  QuotaInv'
  BY <1>7, <1>11
<1>12. SetStatus \/ UNCHANGED vars \/ (\E p \in Recipient : ListDeliveries(p))
          => UNCHANGED <<deliveries, delivering>>
  BY DEF SetStatus, vars, ListDeliveries, api
<1>13. \A r \in Replica : SweeperOnly(r) => UNCHANGED <<deliveries, delivering>>
  BY SweeperOnlyMovesSweeper DEF api
<1> QED BY <1>6, <1>8, <1>9, <1>10, <1>11, <1>12, <1>13, MailboxSteps

(* The revocation: what is stored late and what may still be is what was in  *)
(* flight. RevokedOvershoot is inductive as it stands.                       *)
InFlight == {d \in Delivery : delivering[d].at # "idle"}

(* Nor more after a revocation than were in flight.                          *)
LEMMA RevokedKept ==
    ASSUME MailboxTypeOK, RevokedOvershoot, [MailboxNext]_vars
    PROVE  RevokedOvershoot'
<1>1. delivering \in [Delivery -> DeliveryRequest] /\ active \in BOOLEAN /\ late \in Nat
  BY MailboxTypes
<1>2. /\ RevokedOvershoot <=> (~ active => late + Cardinality(InFlight) <= Cardinality(Delivery))
      /\ RevokedOvershoot' <=>
            (~ active' => late' + Cardinality(InFlight') <= Cardinality(Delivery))
  BY DEF RevokedOvershoot, InFlight
<1>3. /\ IsFiniteSet(InFlight) /\ Cardinality(InFlight) \in Nat
      /\ Cardinality(InFlight') \in Nat /\ Cardinality(InFlight') <= Cardinality(Delivery)
      /\ Cardinality(Delivery) \in Nat
  <2>1. InFlight \in SUBSET Delivery /\ InFlight' \in SUBSET Delivery
    BY DEF InFlight
  <2> QED BY <2>1, RequestSetsFinite
<1>4. ASSUME late' = late, active' = active, InFlight' \subseteq InFlight
      PROVE  RevokedOvershoot'
  <2>1. Cardinality(InFlight') <= Cardinality(InFlight)
    BY <1>3, <1>4, FS_Subset
  <2> QED BY <1>1, <1>2, <1>3, <1>4, <2>1
<1>5. ASSUME NEW d \in Delivery, Deliver(d)
      PROVE  RevokedOvershoot'
  <2>1. active' = active /\ \A e \in Delivery \ {d} : delivering'[e] = delivering[e]
    BY <1>5, DeliverMoves
  <2>2. ASSUME delivering'[d].at = "idle" \/ d \in InFlight
        PROVE  InFlight' \subseteq InFlight
    BY <2>1, <2>2 DEF InFlight
  <2>3. CASE CheckIssuer(d)
    BY <1>2, <2>1, <2>3 DEF CheckIssuer
  <2>4. CASE CheckQuota(d) \/ Insert(d) \/ CutDelivery(d)
    <3>1. d \in InFlight /\ late' = late
      BY <2>4 DEF CheckQuota, Insert, CutDelivery, InFlight, hist
    <3> QED BY <1>4, <2>1, <2>2, <3>1
  <2>5. CASE CommitInsert(d)
    <3>1. d \in InFlight /\ delivering'[d].at = "idle" /\ (~ active => late' = late + 1)
      BY <1>1, <2>5 DEF CommitInsert, InFlight, Idle
    <3>2. InFlight' = InFlight \ {d}
      BY <2>1, <3>1 DEF InFlight
    <3>3. Cardinality(InFlight') = Cardinality(InFlight) - 1
      BY <1>3, <3>1, <3>2, FS_RemoveElement
    <3> QED BY <1>1, <1>2, <1>3, <2>1, <3>1, <3>3
  <2> QED BY <1>5, <2>3, <2>4, <2>5 DEF Deliver
<1>6. ASSUME UNCHANGED <<active, delivering, late>>
      PROVE  RevokedOvershoot'
  <2>1. InFlight' = InFlight
    BY <1>6 DEF InFlight
  <2> QED BY <1>4, <1>6, <2>1
<1>7. CASE SetStatus
  <2>1. late' = 0
    BY <1>7 DEF SetStatus
  <2> QED BY <1>2, <1>3, <2>1
<1>8. Tick \/ UNCHANGED vars \/ (\E p \in Recipient : ListDeliveries(p))
      \/ (\E r \in Replica : DeleteRows(r)) => UNCHANGED <<active, delivering, late>>
  BY DEF Tick, vars, ListDeliveries, DeleteRows, api, hist
<1>9. \A r \in Replica : SweeperOnly(r) => UNCHANGED <<active, delivering, late>>
  BY SweeperOnlyMovesSweeper DEF api
<1>10. \A k \in Claim : ClaimDelivery(k) => UNCHANGED <<active, delivering, late>>
  BY ClaimMoves
<1> QED BY <1>5, <1>6, <1>7, <1>8, <1>9, <1>10, MailboxSteps

-----------------------------------------------------------------------------
(* Every step keeps the types.                                               *)
LEMMA TypesKept ==
    ASSUME MailboxTypeOK, WritersOwn, SweepInv, PassInv, [MailboxNext]_vars, LockInv'
    PROVE  MailboxTypeOK'
<1>1. /\ deliveries' \in [Seqs -> Row] /\ locks' \in [Replica -> Nat]
      /\ active \in BOOLEAN /\ delivering \in [Delivery -> DeliveryRequest]
      /\ claiming \in [Claim -> ClaimRequest] /\ paging \in [Recipient -> Pass]
      /\ sweeper \in [Replica -> SweeperRecord] /\ late \in Nat /\ faults \in 0..MaxFaults
  BY RowsStayRows, MailboxTypes DEF LockInv, LockTypes
<1> DEFINE Typed ==
        /\ active' \in BOOLEAN /\ delivering' \in [Delivery -> DeliveryRequest]
        /\ claiming' \in [Claim -> ClaimRequest] /\ paging' \in [Recipient -> Pass]
        /\ sweeper' \in [Replica -> SweeperRecord] /\ late' \in Nat
        /\ faults' \in 0..MaxFaults
<1>2. ASSUME NEW d \in Delivery, Deliver(d)
      PROVE  Typed
  BY <1>1, <1>2, DeliverMoves
<1>3. ASSUME NEW k \in Claim, ClaimDelivery(k)
      PROVE  Typed
  BY <1>1, <1>3, ClaimMoves
<1>4. ASSUME NEW p \in Recipient, ListDeliveries(p)
      PROVE  Typed
  BY <1>1, <1>4, ListMoves
<1>5. ASSUME NEW r \in Replica, DeleteRows(r) \/ SweeperOnly(r)
      PROVE  Typed
  <2>1. sweeper' \in [Replica -> SweeperRecord]
    <3>1. PICK next : NextTask(next) /\ sweeper' = [sweeper EXCEPT ![r] = next]
      BY <1>5, SweeperMoves DEF MovesTo
    <3> QED BY <1>1, <3>1 DEF NextTask
  <2>2. faults' \in 0..MaxFaults /\ UNCHANGED <<active, api, late>>
    BY <1>5, SweeperMoves
  <2> QED BY <1>1, <2>1, <2>2 DEF api
<1>6. Typed
  <2>1. ASSUME SetStatus PROVE Typed
    BY <1>1, <2>1, 0 \in Nat DEF SetStatus, api
  <2>2. ASSUME Tick PROVE Typed
    BY <1>1, <2>2, TickOfSweeper DEF Tick, api
  <2>3. ASSUME UNCHANGED vars PROVE Typed
    BY <1>1, <2>3 DEF vars, api, hist
  <2> HIDE DEF Typed
  <2> QED BY <1>2, <1>3, <1>4, <1>5, <2>1, <2>2, <2>3, MailboxSteps
<1> QED
  BY <1>1, <1>6
     DEF MailboxTypeOK, DeliveryRequest, ClaimRequest, ClaimStages, ClaimAnswers,
         Pass, SweeperRecord

DeliveryInv ==
    /\ MailboxTypeOK
    /\ WritersOwn /\ ClaimInv /\ SweepInv /\ PassInv /\ QuotaInv /\ RevokedOvershoot

(* At the start there are no rows and no requests.                           *)
LEMMA MailboxStarts ==
    ASSUME MailboxInit
    PROVE  DeliveryInv
<1>1. MailboxTypeOK
  <2>1. NoRow \in Row /\ Idle \in DeliveryRequest /\ NewClaim \in ClaimRequest /\ NewPass \in Pass
    BY AgesAreNumbers
       DEF NoRow, Row, Idle, DeliveryRequest, NewClaim, ClaimRequest, ClaimStages,
           ClaimAnswers, NewPass, Pass
  <2>2. Sleep(0, FALSE) \in SweeperRecord
    <3>1. 0 \in 0..Hour
      BY MailboxAssumption
    <3> QED BY <3>1 DEF Sleep, SweeperRecord
  <2>3. 0 \in Nat /\ 0 \in 0..MaxFaults
    BY MailboxAssumption
  <2> QED BY <2>1, <2>2, <2>3, MailboxTypes DEF MailboxInit
<1>2. WritersOwn /\ ClaimInv /\ PassInv
  BY DEF MailboxInit, WritersOwn, ClaimInv, PassInv, Idle, NewClaim, NewPass
<1>3. SweepInv
  BY DEF MailboxInit, SweepInv, Sleep
<1>4. /\ Cardinality(Delivery) \in Nat /\ Quota \in Nat
      /\ Cardinality({}) = 0
  BY MailboxAssumption, FS_CardinalityType, FS_EmptySet
<1>5. QuotaInv
  <2>1. Recent = {} /\ LetThrough = {}
    BY DEF MailboxInit, Recent, Stored, Unclaimed, Claimed, NoRow, LetThrough, Idle
  <2> QED BY <1>4, <2>1 DEF QuotaInv
<1>6. RevokedOvershoot
  BY DEF MailboxInit, RevokedOvershoot
<1> QED BY <1>1, <1>2, <1>3, <1>5, <1>6 DEF DeliveryInv

(* The mailbox's invariant survives every step of issuer.rs and retention.rs.*)
THEOREM DeliveryInvariance == MailboxSpec => []DeliveryInv
<1>1. DeliveryInv /\ LockInv' /\ [MailboxNext]_vars => DeliveryInv'
  <2> SUFFICES ASSUME DeliveryInv, LockInv', [MailboxNext]_vars
               PROVE  DeliveryInv'
    OBVIOUS
  <2> USE DEF DeliveryInv
  <2>1. MailboxTypeOK' /\ WritersOwn'
    BY TypesKept, WritersKept
  <2>2. ClaimInv' /\ SweepInv'
    BY ClaimsKept, SweepsKept
  <2>3. PassInv'
    <3>1. \A n \in Seqs : Advances(n)
      BY RowsAdvance
    <3>2. CASE paging' = paging
      BY <3>1, <3>2, PassesKept
    <3>3. CASE \E p \in Recipient : ListDeliveries(p)
      BY <3>3, ListMoves
    <3>4. SetStatus \/ Tick \/ UNCHANGED vars \/ (\E r \in Replica : DeleteRows(r))
             => paging' = paging
      BY DEF SetStatus, Tick, vars, DeleteRows, api
    <3>5. \A r \in Replica : SweeperOnly(r) => paging' = paging
      BY SweeperOnlyMovesSweeper DEF api
    <3>6. /\ \A d \in Delivery : Deliver(d) => paging' = paging
          /\ \A k \in Claim : ClaimDelivery(k) => paging' = paging
      BY DeliverMoves, ClaimMoves
    <3> QED BY <3>2, <3>3, <3>4, <3>5, <3>6, MailboxSteps
  <2>4. QuotaInv' /\ RevokedOvershoot'
    BY QuotaKept, RevokedKept
  <2> QED BY <2>1, <2>2, <2>3, <2>4
<1> QED BY <1>1, MailboxStarts, LockInvariance, PTL DEF MailboxSpec

(* Every variable of the mailbox has its type.                               *)
THEOREM MailboxTypeCorrect == MailboxSpec => []MailboxTypeOK
<1>1. DeliveryInv => MailboxTypeOK
  BY DEF DeliveryInv
<1> QED BY <1>1, DeliveryInvariance, PTL

(* issuer.rs:181: a concurrent claim race resolves to exactly one winner.    *)
THEOREM OneClaimWins == MailboxSpec => []OneWinner
<1>1. DeliveryInv => OneWinner
  BY DEF DeliveryInv, ClaimInv, OneWinner, Unclaimed
<1> QED BY <1>1, DeliveryInvariance, PTL

(* issuer.rs:95: the quota is exceeded by fewer rows than there are requests *)
(* in flight.                                                                *)
THEOREM QuotaHolds == MailboxSpec => []QuotaOvershoot
<1>1. DeliveryInv => QuotaOvershoot
  <2> SUFFICES ASSUME DeliveryInv, Quota > 0
               PROVE  Cardinality(Recent) < Quota + Cardinality(Delivery)
    BY DEF QuotaOvershoot, Recent
  <2>1. Recent \in SUBSET Seqs /\ LetThrough \in SUBSET Delivery
    BY DEF Recent, Stored, Unclaimed, Claimed, LetThrough
  <2>2. /\ Cardinality(Recent) \in Nat /\ Cardinality(LetThrough) \in Nat
        /\ Cardinality(Delivery) \in Nat /\ Quota \in Nat
    BY <2>1, SeqSetsFinite, RequestSetsFinite, MailboxAssumption
  <2> QED BY <2>2 DEF DeliveryInv, QuotaInv
<1> QED BY <1>1, DeliveryInvariance, PTL

(* issuer.rs:78: after a suspension or revocation only what was in flight    *)
(* is still stored.                                                          *)
THEOREM RevocationHolds == MailboxSpec => []RevokedOvershoot
<1>1. DeliveryInv => RevokedOvershoot
  BY DEF DeliveryInv
<1> QED BY <1>1, DeliveryInvariance, PTL

(* issuer.rs:213: a finished pass has handed out whatever stayed.            *)
THEOREM PassesAreComplete == MailboxSpec => []PassComplete
<1>1. DeliveryInv => PassComplete
  BY DEF DeliveryInv, PassInv, PassComplete
<1> QED BY <1>1, DeliveryInvariance, PTL

(* issuer.rs:215: a delivery leaves by its own token or when it is due.      *)
THEOREM DeliveriesStayTheirTime == MailboxSpec => LeavesOnlyWhenDue
<1> DEFINE Left(n) ==
        /\ deliveries[n].st = "unclaimed" /\ deliveries'[n].st = "claimed" =>
              /\ deliveries[n].token
              /\ \E k \in Claim : claiming[k].seq = n /\ claiming[k].right
        /\ n \in Stored /\ deliveries'[n].st = "gone" =>
              \/ ClaimedWindow > 0 /\ n \in Claimed /\ deliveries[n].since > ClaimedWindow
              \/ UnclaimedWindow > 0 /\ deliveries[n].age > UnclaimedWindow
<1>1. DeliveryInv /\ [MailboxNext]_vars => [\A n \in Seqs : Left(n)]_vars
  <2> SUFFICES ASSUME DeliveryInv, [MailboxNext]_vars, NEW n \in Seqs
               PROVE  Left(n)
    BY DEF Left
  <2> USE DEF DeliveryInv
  <2>1. n \in Stored <=> deliveries[n].st \in {"unclaimed", "claimed"}
    BY DEF Stored, Unclaimed, Claimed
  <2>2. ASSUME deliveries'[n].st = deliveries[n].st
        PROVE  Left(n)
    BY <2>1, <2>2
  <2>3. ASSUME NEW d \in Delivery, Deliver(d)
        PROVE  Left(n)
    <3>1. \/ deliveries'[n] = deliveries[n]
          \/ deliveries[n].st \in {"none", "writing"}
      BY <2>3, DeliverOfRow
    <3> QED BY <2>1, <2>2, <3>1
  <2>4. ASSUME NEW k \in Claim, ClaimDelivery(k)
        PROVE  Left(n)
    <3>1. CASE UpdateClaim(k) /\ n \in Unclaimed /\ n = claiming[k].seq
      <4>1. claiming[k].at = "read" /\ deliveries'[n].st = "claimed"
        BY <3>1, UpdateOfRow DEF UpdateClaim
      <4>2. deliveries[n].token /\ claiming[k].right
        BY <3>1, <4>1 DEF ClaimInv, Unclaimed
      <4> QED BY <3>1, <4>1, <4>2
    <3>2. CASE ~ (UpdateClaim(k) /\ n \in Unclaimed /\ n = claiming[k].seq)
      <4>1. deliveries'[n] = deliveries[n]
        <5>1. CASE UpdateClaim(k)
          BY <3>2, <5>1, UpdateOfRow
        <5>2. CASE ~ UpdateClaim(k)
          BY <2>4, <5>2 DEF ClaimDelivery, ReadClaim, CutClaim
        <5> QED BY <5>1, <5>2
      <4> QED BY <2>2, <4>1
    <3> QED BY <3>1, <3>2
  <2>5. ASSUME NEW r \in Replica, DeleteRows(r)
        PROVE  Left(n)
    <3>1. CASE n \in sweeper[r].picked /\ n \in Stored
      <4>1. deliveries'[n].st = "gone" /\ sweeper[r].found
        BY <2>5, <3>1, DeleteOfRow DEF DeleteRows
      <4>2. Due(sweeper[r].at, deliveries[n])
        BY <3>1, <4>1 DEF SweepInv
      <4> QED BY <2>1, <3>1, <4>1, <4>2 DEF Due, Claimed
    <3>2. CASE ~ (n \in sweeper[r].picked /\ n \in Stored)
      <4>1. deliveries'[n] = deliveries[n]
        BY <2>5, <3>2, DeleteOfRow
      <4> QED BY <2>2, <4>1
    <3> QED BY <3>1, <3>2
  <2>6. ASSUME Tick
        PROVE  Left(n)
    BY <2>2, <2>6, TickOfRow
  <2>7. SetStatus \/ UNCHANGED vars \/ (\E p \in Recipient : ListDeliveries(p))
           => deliveries' = deliveries
    BY DEF SetStatus, vars, ListDeliveries
  <2>8. \A r \in Replica : SweeperOnly(r) => deliveries' = deliveries
    BY SweeperOnlyMovesSweeper
  <2> HIDE DEF Left
  <2> QED BY <2>2, <2>3, <2>4, <2>5, <2>6, <2>7, <2>8, MailboxSteps
<1> QED BY <1>1, DeliveryInvariance, PTL DEF MailboxSpec, LeavesOnlyWhenDue
=============================================================================
