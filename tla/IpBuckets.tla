----------------------------- MODULE IpBuckets -----------------------------
(***************************************************************************)
(* attesta-api: the per-address token buckets of limits.rs and the two     *)
(* middlewares that use them. A request reads the clock first and takes    *)
(* the lock later, so stamps can reach a bucket out of order: the time     *)
(* between is then refilled twice (duration_since is 0 for an older stamp, *)
(* but last_refill still goes back to it).                                 *)
(*                                                                         *)
(* Tokens are counted in parts: a request costs Cost, a tick refills       *)
(* PerTick, so per_sec is PerTick * Second / Cost, a whole number. With    *)
(* per_sec = 0 every request passes and nothing below happens. A refusal's *)
(* Retry-After is always 1: a second refills at least one token.           *)
(***************************************************************************)
EXTENDS Integers, FiniteSets

CONSTANTS
    Addr,       \* client addresses
    Req,        \* requests in flight
    AddrOf,     \* AddrOf[r]: the address request r comes from
    Cost,       \* parts of a token
    PerTick,    \* parts refilled per tick
    Second,     \* ticks per second
    Burst,      \* the configured burst, in tokens
    MaxBuckets, \* buckets kept before a cleanup (10000)
    MaxTime     \* bound: ticks

VARIABLES
    time,       \* the monotonic clock
    stamp,      \* stamp[r]: the Instant r read, or NoStamp before it did
    bucket,     \* bucket[i].tokens and .last, and whether the map .has it; the
                \* .last of a dropped one is history
    watch       \* history: a window of address .addr that somebody watches, from a
                \* request stamped .from on: tokens .taken in it, and how far last_refill
                \* went .back in it

buckets == <<time, stamp, bucket, watch>>

NoStamp == -1

ASSUME BucketsAssumption ==
    /\ AddrOf \in [Req -> Addr] /\ IsFiniteSet(Addr)
    /\ Cost \in Nat \ {0} /\ PerTick \in Nat \ {0} /\ Second \in Nat \ {0}
    /\ Cost <= PerTick * Second
    /\ Burst \in Nat \ {0} /\ MaxBuckets \in Nat /\ MaxTime \in Nat

-----------------------------------------------------------------------------
(* A burst below the sustained rate is raised to it.                         *)
Full == IF Burst * Cost < PerTick * Second THEN PerTick * Second ELSE Burst * Cost

Elapsed(now, last) == IF now > last THEN now - last ELSE 0

(* Variant: idle time accumulates beyond the burst.                          *)
Accumulated(n) == n

Capped(n) == IF n > Full THEN Full ELSE n

(* A bucket's tokens at time now: refilled, up to the burst.                 *)
Refilled(b, now) == Capped(b.tokens + Elapsed(now, b.last) * PerTick)

Dropped(b, now) ==
    [tokens |-> b.tokens, last |-> IF now > b.last THEN now ELSE b.last, has |-> FALSE]
TooMany == Cardinality({i \in Addr : bucket[i].has}) > MaxBuckets

(* Variant: a cleanup drops every bucket that has a token.                   *)
DropUsable(now) ==
    [i \in Addr |-> IF TooMany /\ bucket[i].has /\ Refilled(bucket[i], now) >= Cost
                    THEN Dropped(bucket[i], now) ELSE bucket[i]]

(* With too many buckets, those that are full by now are dropped.            *)
DropFull(now) ==
    [i \in Addr |-> IF TooMany /\ bucket[i].has /\ Refilled(bucket[i], now) >= Full
                    THEN Dropped(bucket[i], now) ELSE bucket[i]]

BucketsInit ==
    /\ time = 0
    /\ stamp = [r \in Req |-> NoStamp]
    /\ bucket = [i \in Addr |-> [tokens |-> 0, last |-> 0, has |-> FALSE]]
    /\ watch \in [addr : Addr, from : {0}, taken : {0}, back : {0}]

Tick ==
    /\ time < MaxTime /\ time' = time + 1
    /\ UNCHANGED <<stamp, bucket, watch>>

(* limit_reads, limit_writes: Instant::now() comes before the lock.          *)
ReadClock(r) ==
    /\ stamp[r] = NoStamp
    /\ stamp' = [stamp EXCEPT ![r] = time]
    /\ UNCHANGED <<time, bucket, watch>>

(* A request of address i, stamped now, after one stamped last, in the       *)
(* window: the first of a new one, or one more if the address is watched.    *)
Opened(i, now, took) == [addr |-> i, from |-> now, taken |-> took, back |-> 0]
Watched(i, last, now, took) ==
    IF watch.addr # i THEN watch
    ELSE [watch EXCEPT !.taken = @ + took, !.back = @ + Elapsed(last, now)]

(* try_acquire under the lock: clean up, refill, then take a token or refuse.*)
Acquire(r) ==
    LET i == AddrOf[r]
        now == stamp[r]
        kept == DropFull(now)
        tokens == IF kept[i].has THEN Refilled(kept[i], now) ELSE Full
        took == IF tokens >= Cost THEN 1 ELSE 0
    IN  /\ now # NoStamp
        /\ stamp' = [stamp EXCEPT ![r] = NoStamp]
        /\ bucket' = [kept EXCEPT ![i] =
                                  [tokens |-> tokens - took * Cost, last |-> now, has |-> TRUE]]
        /\ watch' \in {Watched(i, kept[i].last, now, took), Opened(i, now, took)}
        /\ UNCHANGED time

BucketsNext == Tick \/ \E r \in Req : ReadClock(r) \/ Acquire(r)

BucketsSpec == BucketsInit /\ [][BucketsNext]_buckets

-----------------------------------------------------------------------------
(* Properties.                                                               *)

(* In any window an address gets no more than the burst and what the time    *)
(* from the window's first stamp to its last refills: a full bucket's idle   *)
(* time and a cleanup give nothing away (limits.rs:65-84). What stamps went  *)
(* back inside the window is refilled again; in a window whose stamps come   *)
(* in order nothing is.                                                      *)
RateBound ==
    LET last == bucket[watch.addr].last
    IN  watch.taken * Cost <= Full + (last - watch.from + watch.back) * PerTick

(* What limits.rs:3-4 says: a bucket refills at its sustained rate up to the *)
(* burst. No more than that can have been given out since a stamp.           *)
SustainedRate == watch.taken * Cost <= Full + (time - watch.from) * PerTick
=============================================================================
