------------------------------ MODULE ServiceProofs ------------------------------
(***************************************************************************)
(* Two parts that every process has: how old the figures of /v1/stats may  *)
(* be, for any number of visitors and SELECTs, any time to live and any    *)
(* clock; and how long a start may wait for Postgres, for any number of    *)
(* attempts and any backoff, and for the code's.                           *)
(***************************************************************************)
EXTENDS StatsCache, DbConnect, TLAPS

(* The figures.                                                              *)
StatsTypes ==
    /\ second \in Nat /\ slowest \in Nat
    /\ cached \in [some : BOOLEAN, at : Nat, oldest : Nat]
    /\ visit \in [Visitor -> Int] /\ oldest \in [Visitor -> Nat]
    /\ age \in [Visitor -> Nat]

(* What is computed or stored is not from the future, and no entry took      *)
(* longer to compute than the slowest result so far. FiguresAge speaks of    *)
(* the answer alone; this is what holds while nobody asks.                   *)
FromThePast == cached.at <= second /\ \A v \in Visitor : oldest[v] <= second
EntryInTime == cached.oldest <= cached.at /\ cached.at - cached.oldest <= slowest
StatsInv == StatsTypes /\ FromThePast /\ EntryInTime /\ FiguresAge

-----------------------------------------------------------------------------
(* Before any request.                                                       *)
LEMMA StatsInitially ==
    ASSUME StatsInit
    PROVE  StatsInv
  BY StatsAssumption
  DEF StatsInit, StatsInv, StatsTypes, FromThePast, EntryInTime, FiguresAge, NotComputing

(* Time alone changes no answer and no entry.                                *)
LEMMA NextSecondKeepsAge ==
    ASSUME StatsInv, NextSecond
    PROVE  StatsInv'
  BY DEF NextSecond, StatsInv, StatsTypes, FromThePast, EntryInTime, FiguresAge

(* A hit is younger than Ttl plus the time its figures took.                 *)
LEMMA LookKeepsAge ==
    ASSUME StatsInv, NEW v \in Visitor, Look(v)
    PROVE  StatsInv'
<1>1. CASE Hit
  <2>1. age' = [age EXCEPT ![v] = second - cached.oldest]
        /\ UNCHANGED <<second, cached, visit, oldest, slowest>>
    BY <1>1 DEF Look
  <2>2. second - cached.oldest \in Nat /\ second - cached.oldest < Ttl + slowest
    BY <1>1, StatsAssumption DEF Hit, StatsInv, StatsTypes, FromThePast, EntryInTime
  <2>3. age' \in [Visitor -> Nat]
    BY <2>1, <2>2 DEF StatsInv, StatsTypes
  <2>4. FiguresAge'
    BY <2>1, <2>2 DEF StatsInv, StatsTypes, FiguresAge
  <2> QED BY <2>1, <2>3, <2>4 DEF StatsInv, StatsTypes, FromThePast, EntryInTime
<1>2. CASE ~ Hit
  <2>1. visit' = [visit EXCEPT ![v] = 0] /\ UNCHANGED <<second, cached, oldest, age, slowest>>
    BY <1>2 DEF Look
  <2> QED BY <2>1 DEF StatsInv, StatsTypes, FromThePast, EntryInTime, FiguresAge
<1> QED BY <1>1, <1>2

(* A SELECT starts a result, or goes on with it.                             *)
LEMMA RunSelectKeepsAge ==
    ASSUME StatsInv, NEW v \in Visitor, RunSelect(v)
    PROVE  StatsInv'
<1>1. \A w \in Visitor : oldest'[w] \in Nat /\ oldest'[w] <= second
  BY DEF RunSelect, StatsInv, StatsTypes, FromThePast
<1>2. StatsTypes'
  BY <1>1 DEF RunSelect, StatsInv, StatsTypes
<1> QED BY <1>1, <1>2 DEF RunSelect, StatsInv, FromThePast, EntryInTime, FiguresAge

(* A result is given up.                                                     *)
LEMMA GiveUpKeepsAge ==
    ASSUME StatsInv, NEW v \in Visitor, GiveUp(v)
    PROVE  StatsInv'
  BY DEF GiveUp, StatsInv, StatsTypes, NotComputing, FromThePast, EntryInTime, FiguresAge

(* A result is as old as it took, whatever it replaces.                      *)
LEMMA PublishKeepsAge ==
    ASSUME StatsInv, NEW v \in Visitor, Publish(v)
    PROVE  StatsInv'
<1> DEFINE took == second - oldest[v]
<1>1. took \in Nat
  BY DEF StatsInv, StatsTypes, FromThePast
<1>2. /\ age' = [age EXCEPT ![v] = took]
      /\ slowest' = IF took > slowest THEN took ELSE slowest
      /\ visit' = [visit EXCEPT ![v] = NotComputing] /\ oldest' = [oldest EXCEPT ![v] = 0]
      /\ cached' = cached \/ cached' = [some |-> TRUE, at |-> second, oldest |-> oldest[v]]
      /\ second' = second
  BY DEF Publish
<1>3. slowest' \in Nat /\ slowest <= slowest' /\ took <= slowest'
  BY <1>1, <1>2 DEF StatsInv, StatsTypes
<1>4. StatsTypes'
  <2>1. visit' \in [Visitor -> Int] /\ oldest' \in [Visitor -> Nat]
    BY <1>2 DEF StatsInv, StatsTypes, NotComputing
  <2>2. age' \in [Visitor -> Nat]
    <3> HIDE DEF took
    <3> QED BY <1>1, <1>2 DEF StatsInv, StatsTypes
  <2>3. cached' \in [some : BOOLEAN, at : Nat, oldest : Nat] /\ second' \in Nat
    <3>1. oldest[v] \in Nat /\ second \in Nat
      BY DEF StatsInv, StatsTypes
    <3>2. [some |-> TRUE, at |-> second, oldest |-> oldest[v]]
            \in [some : BOOLEAN, at : Nat, oldest : Nat]
      BY <3>1
    <3> QED BY <1>2, <3>1, <3>2, Zenon DEF StatsInv, StatsTypes
  <2> QED BY <1>3, <2>1, <2>2, <2>3 DEF StatsTypes
<1>5. FromThePast' /\ EntryInTime'
  BY <1>1, <1>2, <1>3 DEF StatsInv, StatsTypes, FromThePast, EntryInTime
<1>6. FiguresAge'
  <2> SUFFICES ASSUME NEW w \in Visitor
               PROVE  age'[w] < Ttl + slowest' \/ age'[w] <= slowest'
    BY DEF FiguresAge
  <2>1. CASE w = v
    BY <1>1, <1>2, <1>3, <2>1 DEF StatsInv, StatsTypes
  <2>2. CASE w # v
    BY <1>2, <1>3, <2>2, StatsAssumption DEF StatsInv, StatsTypes, FiguresAge
  <2> QED BY <2>1, <2>2
<1> QED BY <1>4, <1>5, <1>6 DEF StatsInv

(* For any number of visitors, and whatever order their computations end in, *)
(* no answer's figures are older than the entry may get plus the longest     *)
(* computation so far (stats.rs:26-47).                                      *)
THEOREM AnswersAreYoung == StatsSpec => []FiguresAge
<1>1. StatsInv /\ [StatsNext]_stats => StatsInv'
  <2> SUFFICES ASSUME StatsInv, [StatsNext]_stats
               PROVE  StatsInv'
    OBVIOUS
  <2>1. CASE UNCHANGED stats
    BY <2>1 DEF stats, StatsInv, StatsTypes, FromThePast, EntryInTime, FiguresAge
  <2>2. CASE NextSecond
    BY <2>2, NextSecondKeepsAge
  <2>3. CASE \E v \in Visitor : Look(v) \/ RunSelect(v) \/ GiveUp(v) \/ Publish(v)
    BY <2>3, LookKeepsAge, RunSelectKeepsAge, GiveUpKeepsAge, PublishKeepsAge
  <2> QED BY <2>1, <2>2, <2>3 DEF StatsNext
<1>2. StatsInv => FiguresAge
  BY DEF StatsInv
<1> QED BY StatsInitially, <1>1, <1>2, PTL DEF StatsSpec

-----------------------------------------------------------------------------
(* The start. Attempts that have ended.                                      *)
Attempted == IF phase = "connect" THEN attempt - 1 ELSE attempt

ConnectTypes ==
    /\ phase \in {"connect", "backoff", "migrate", "serve", "exited"}
    /\ attempt \in 1..MaxAttempts
    /\ phase = "backoff" => attempt < MaxAttempts
    /\ backoff \in Nat /\ backoff <= MaxBackoff /\ spent \in Nat

(* What was spent is the attempts that have ended and a pause before each    *)
(* but the first; ConnectInBudget names no attempt and is not inductive.     *)
EachPauseCapped ==
    spent <= Attempted * AttemptTimeout + (attempt - 1) * MaxBackoff

(* One more attempt, one more pause.                                         *)
LEMMA OneMore ==
    ASSUME NEW n \in Int, NEW c \in Nat
    PROVE  n * c \in Int /\ (n + 1) * c = n * c + c /\ (n - 1) * c + c = n * c
BY SMT

(* More of them take longer.                                                 *)
LEMMA NoMore ==
    ASSUME NEW n \in Int, NEW m \in Int, n <= m, NEW c \in Nat
    PROVE  n * c <= m * c
<1>1. PICK k \in Nat : m = n + k
  <2>1. m - n \in Nat /\ m = n + (m - n)
    OBVIOUS
  <2> QED BY <2>1
<1>2. m * c = n * c + k * c /\ k * c \in Nat /\ n * c \in Int
  BY <1>1, SMT
<1> QED BY <1>2

(* A process that starts has not spent anything.                             *)
LEMMA LaunchedInTime ==
    ASSUME phase = "connect", attempt = 1, backoff = InitialBackoff, spent = 0
    PROVE  ConnectTypes /\ EachPauseCapped
<1>1. ConnectTypes
  BY ConnectAssumption DEF ConnectTypes
<1>2. 0 * AttemptTimeout = 0 /\ 0 * MaxBackoff = 0
  BY ConnectAssumption
<1> QED BY <1>1, <1>2 DEF EachPauseCapped, Attempted

(* An attempt ends in time, whatever its result.                             *)
LEMMA AttemptKeepsTime ==
    ASSUME ConnectTypes, EachPauseCapped, NEW t \in 0..AttemptTimeout,
           Connected(t) \/ TerminalError(t) \/ RetryableError(t)
    PROVE  ConnectTypes' /\ EachPauseCapped'
<1>1. phase = "connect" /\ attempt' = attempt /\ backoff' = backoff /\ spent' = spent + t
  BY DEF Connected, TerminalError, RetryableError
<1>2. /\ phase' \in {"migrate", "exited", "backoff"}
      /\ phase' = "backoff" => attempt # MaxAttempts
  BY DEF Connected, TerminalError, RetryableError
<1>3. ConnectTypes'
  BY <1>1, <1>2, ConnectAssumption DEF ConnectTypes
<1>4. PICK n \in Nat : n = attempt
  BY DEF ConnectTypes
<1>5. PICK p \in Int : p = (n - 1) * MaxBackoff
  BY <1>4, ConnectAssumption, OneMore
<1>6. PICK q \in Int : q = n * AttemptTimeout /\ (n - 1) * AttemptTimeout + AttemptTimeout = q
  BY <1>4, ConnectAssumption, OneMore
<1>7. spent + AttemptTimeout <= q + p
  <2>1. spent <= (n - 1) * AttemptTimeout + p
    BY <1>1, <1>4, <1>5 DEF EachPauseCapped, Attempted
  <2>2. PICK r \in Int : r = (n - 1) * AttemptTimeout
    BY <1>4, ConnectAssumption, OneMore
  <2> QED BY <1>6, <2>1, <2>2, ConnectAssumption DEF ConnectTypes
<1>8. spent' <= q + p
  BY <1>1, <1>7, ConnectAssumption DEF ConnectTypes
<1>9. Attempted' = n
  BY <1>1, <1>2, <1>4 DEF Attempted
<1> QED BY <1>1, <1>3, <1>4, <1>5, <1>6, <1>8, <1>9 DEF EachPauseCapped

(* A pause is not longer than the cap.                                       *)
LEMMA BackoffKeepsTime ==
    ASSUME ConnectTypes, EachPauseCapped, Backoff
    PROVE  ConnectTypes' /\ EachPauseCapped'
<1>1. ConnectTypes'
  BY ConnectAssumption DEF ConnectTypes, Backoff
<1>2. PICK n \in Nat : n = attempt
  BY DEF ConnectTypes
<1>3. PICK p \in Int : p = (n - 1) * MaxBackoff /\ p + MaxBackoff = n * MaxBackoff
  BY <1>2, ConnectAssumption, OneMore
<1>4. PICK q \in Int : q = n * AttemptTimeout
  BY <1>2, ConnectAssumption, OneMore
<1>5. spent <= q + p
  BY <1>2, <1>3, <1>4 DEF EachPauseCapped, Attempted, Backoff
<1>6. spent' <= q + (p + MaxBackoff)
  BY <1>5, ConnectAssumption DEF ConnectTypes, Backoff
<1>7. Attempted' = n /\ attempt' - 1 = n
  BY <1>2 DEF Attempted, Backoff
<1> QED BY <1>1, <1>3, <1>4, <1>6, <1>7 DEF EachPauseCapped

(* Every step keeps the start within its time.                               *)
LEMMA StepKeepsTime ==
    ASSUME ConnectTypes, EachPauseCapped, [ConnectNext]_process
    PROVE  ConnectTypes' /\ EachPauseCapped'
<1>1. ASSUME NEW t \in 0..AttemptTimeout, Connected(t) \/ TerminalError(t) \/ RetryableError(t)
      PROVE  ConnectTypes' /\ EachPauseCapped'
  BY <1>1, AttemptKeepsTime
<1>2. CASE Backoff
  BY <1>2, BackoffKeepsTime
<1>3. CASE Migrate
  <2>1. Attempted' = Attempted
    BY <1>3 DEF Migrate, Attempted
  <2> QED BY <1>3, <2>1 DEF Migrate, ConnectTypes, EachPauseCapped
<1>4. CASE Exit
  <2>1. Attempted' = Attempted
    BY <1>4 DEF Exit, Attempted
  <2> QED BY <1>4, <2>1 DEF Exit, ConnectTypes, EachPauseCapped
<1>5. CASE Launch
  <2>1. ConnectTypes'
    BY <1>5, ConnectAssumption DEF Launch, ConnectTypes
  <2>2. 0 * AttemptTimeout = 0 /\ 0 * MaxBackoff = 0
    BY ConnectAssumption
  <2>3. Attempted' = 0 /\ attempt' - 1 = 0 /\ spent' = 0
    BY <1>5 DEF Launch, Attempted
  <2> QED BY <2>1, <2>2, <2>3 DEF EachPauseCapped
<1>6. CASE UNCHANGED process
  <2>1. Attempted' = Attempted
    BY <1>6 DEF process, Attempted
  <2> QED BY <1>6, <2>1 DEF process, ConnectTypes, EachPauseCapped
<1> QED BY <1>1, <1>2, <1>3, <1>4, <1>5, <1>6 DEF ConnectNext

(* However the attempts end, a process that waits for Postgres (db::connect) *)
(* has connected or given up after so many timeouts and capped pauses.       *)
StartBound == spent <= MaxAttempts * AttemptTimeout + (MaxAttempts - 1) * MaxBackoff

THEOREM StartIsBounded == ConnectSpec => []StartBound
<1>1. ConnectInit => ConnectTypes /\ EachPauseCapped
  BY LaunchedInTime DEF ConnectInit
<1>2. ConnectTypes /\ EachPauseCapped /\ [ConnectNext]_process
        => (ConnectTypes /\ EachPauseCapped)'
  BY StepKeepsTime
<1>3. ConnectTypes /\ EachPauseCapped => StartBound
  <2> SUFFICES ASSUME ConnectTypes, EachPauseCapped PROVE StartBound
    OBVIOUS
  <2>1. PICK n \in Nat : n = attempt /\ n <= MaxAttempts
    BY ConnectAssumption DEF ConnectTypes
  <2>2. PICK d \in Int : d = Attempted /\ d <= MaxAttempts
    BY <2>1, ConnectAssumption DEF Attempted
  <2>3. PICK p1 \in Int, p2 \in Int :
          p1 = d * AttemptTimeout /\ p2 = MaxAttempts * AttemptTimeout /\ p1 <= p2
    BY <2>2, ConnectAssumption, OneMore, NoMore
  <2>4. n - 1 \in Int /\ MaxAttempts - 1 \in Int /\ n - 1 <= MaxAttempts - 1
    BY <2>1, ConnectAssumption
  <2>5. PICK q1 \in Int, q2 \in Int :
          q1 = (n - 1) * MaxBackoff /\ q2 = (MaxAttempts - 1) * MaxBackoff /\ q1 <= q2
    BY <2>4, ConnectAssumption, OneMore, NoMore
  <2>6. spent <= p1 + q1 /\ spent \in Nat
    BY <2>1, <2>2, <2>3, <2>5 DEF EachPauseCapped, ConnectTypes
  <2>7. spent <= p2 + q2
    BY <2>3, <2>5, <2>6
  <2> QED BY <2>3, <2>5, <2>7 DEF StartBound
<1> QED BY <1>1, <1>2, <1>3, PTL DEF ConnectSpec

(* The code's constants (db.rs), in half seconds.                            *)
CodeConstants ==
    MaxAttempts = 10 /\ InitialBackoff = 1 /\ MaxBackoff = 20 /\ AttemptTimeout = 10

(* How an attempt stands: the pause that would follow it, and the most that  *)
(* was spent with w on the pauses before it.                                 *)
Stands(n, b, w) == attempt = n /\ backoff = b /\ spent <= 10 * Attempted + w

(* The pauses double from a half second to the cap of ten seconds. The bound *)
(* on the time alone is not inductive: how long the next pauses are depends  *)
(* on the number of the attempt.                                             *)
OnSchedule ==
    \/ Stands(1, 1, 0) \/ Stands(2, 2, 1) \/ Stands(3, 4, 3) \/ Stands(4, 8, 7)
    \/ Stands(5, 16, 15) \/ Stands(6, 20, 31) \/ Stands(7, 20, 51) \/ Stands(8, 20, 71)
    \/ Stands(9, 20, 91) \/ Stands(10, 20, 111)

(* Each attempt and each pause leaves the start on its schedule.             *)
LEMMA StepKeepsSchedule ==
    ASSUME CodeConstants, ConnectTypes, OnSchedule, [ConnectNext]_process
    PROVE  OnSchedule'
<1>1. CASE UNCHANGED process
  BY <1>1 DEF process, OnSchedule, Stands, Attempted
<1>2. ASSUME NEW t \in 0..AttemptTimeout, Connected(t) \/ TerminalError(t) \/ RetryableError(t)
      PROVE  OnSchedule'
  <2>1. /\ attempt' = attempt /\ backoff' = backoff /\ spent' = spent + t
        /\ Attempted = attempt - 1 /\ Attempted' = attempt
    BY <1>2 DEF Connected, TerminalError, RetryableError, Attempted
  <2>2. t \in Nat /\ t <= 10 /\ spent \in Nat
    BY DEF CodeConstants, ConnectTypes
  <2>3. ASSUME NEW n \in 1..10, NEW b \in Nat, NEW w \in Nat, Stands(n, b, w)
        PROVE  Stands(n, b, w)'
    BY <2>1, <2>2, <2>3 DEF Stands
  <2> QED BY <2>3 DEF OnSchedule
<1>3. CASE Backoff
  <2>1. /\ attempt' = attempt + 1 /\ spent' = spent + backoff
        /\ Attempted = attempt /\ Attempted' = attempt
        /\ attempt < 10 /\ spent \in Nat
        /\ backoff' = IF 2 * backoff > 20 THEN 20 ELSE 2 * backoff
    BY <1>3 DEF Backoff, Attempted, CodeConstants, ConnectTypes
  <2>2. ASSUME NEW n \in 1..9, NEW b \in Nat, NEW w \in Nat, Stands(n, b, w)
        PROVE  Stands(n + 1, IF 2 * b > 20 THEN 20 ELSE 2 * b, w + b)'
    BY <2>1, <2>2 DEF Stands
  <2>3. ~ Stands(10, 20, 111)
    BY <2>1 DEF Stands
  <2> QED BY <2>2, <2>3 DEF OnSchedule
<1>4. CASE Migrate \/ Exit
  <2>1. UNCHANGED <<attempt, backoff, spent>> /\ Attempted' = Attempted
    BY <1>4 DEF Migrate, Exit, Attempted
  <2> QED BY <2>1 DEF OnSchedule, Stands
<1>5. CASE Launch
  BY <1>5 DEF Launch, OnSchedule, Stands, Attempted, CodeConstants
<1> QED BY <1>1, <1>2, <1>3, <1>4, <1>5 DEF ConnectNext

(* With the code's constants a process that waits for Postgres connects or   *)
(* gives up in less than two minutes (db.rs), after 105.5 seconds at most.   *)
THEOREM StartInBudget ==
    ASSUME CodeConstants
    PROVE  ConnectSpec => [](ConnectInBudget /\ spent <= 211)
<1>1. ConnectInit => ConnectTypes /\ EachPauseCapped /\ OnSchedule
  <2>1. ConnectInit => OnSchedule
    BY DEF ConnectInit, OnSchedule, Stands, Attempted, CodeConstants
  <2> QED BY <2>1, LaunchedInTime DEF ConnectInit
<1>2. ConnectTypes /\ EachPauseCapped /\ OnSchedule /\ [ConnectNext]_process
        => (ConnectTypes /\ EachPauseCapped /\ OnSchedule)'
  BY StepKeepsTime, StepKeepsSchedule
<1>3. ConnectTypes /\ EachPauseCapped /\ OnSchedule => ConnectInBudget /\ spent <= 211
  <2> SUFFICES ASSUME ConnectTypes, OnSchedule PROVE ConnectInBudget /\ spent <= 211
    OBVIOUS
  <2>1. spent \in Nat /\ Attempted \in Int /\ Attempted <= 10
    BY DEF CodeConstants, ConnectTypes, Attempted
  <2>2. ASSUME NEW n \in 1..10, NEW b \in Nat, NEW w \in 0..111, Stands(n, b, w)
        PROVE  spent <= 211
    BY <2>1, <2>2 DEF Stands
  <2>3. spent <= 211
    BY <2>2 DEF OnSchedule
  <2> QED BY <2>1, <2>3 DEF ConnectInBudget
<1> QED BY <1>1, <1>2, <1>3, PTL DEF ConnectSpec
=============================================================================
