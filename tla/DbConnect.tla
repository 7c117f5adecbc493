----------------------------- MODULE DbConnect -----------------------------
(***************************************************************************)
(* attesta-core: db::connect, with which both processes start, and what    *)
(* they do around it: migrate and serve, or exit with an error and be      *)
(* started again by whoever runs them. Durations are in units of half a    *)
(* second. An attempt takes what Postgres makes it take, up to its timeout.*)
(***************************************************************************)
EXTENDS Naturals

CONSTANTS
    MaxAttempts,     \* CONNECT_MAX_ATTEMPTS (10)
    InitialBackoff,  \* CONNECT_INITIAL_BACKOFF (500 ms)
    MaxBackoff,      \* CONNECT_MAX_BACKOFF (10 s)
    AttemptTimeout   \* CONNECT_ATTEMPT_TIMEOUT (5 s)

VARIABLES
    phase,      \* "connect", "backoff", "migrate", "serve" or "exited"
    attempt,    \* the attempt under way, from 1
    backoff,    \* the next pause
    spent       \* history: time since the process started

process == <<phase, attempt, backoff, spent>>

ASSUME ConnectAssumption ==
    /\ MaxAttempts \in Nat \ {0} /\ InitialBackoff \in Nat \ {0}
    /\ MaxBackoff \in Nat /\ InitialBackoff <= MaxBackoff /\ AttemptTimeout \in Nat

-----------------------------------------------------------------------------
ConnectInit ==
    /\ phase = "connect" /\ attempt = 1 /\ backoff = InitialBackoff /\ spent = 0

(* An attempt ends after t: with a pool, with an error that no retry mends   *)
(* (is_retryable), or with one that is retried until the attempts run out.   *)
Connected(t) ==
    /\ phase = "connect" /\ phase' = "migrate"
    /\ spent' = spent + t
    /\ UNCHANGED <<attempt, backoff>>

TerminalError(t) ==
    /\ phase = "connect" /\ phase' = "exited"
    /\ spent' = spent + t
    /\ UNCHANGED <<attempt, backoff>>

RetryableError(t) ==
    /\ phase = "connect"
    /\ phase' = IF attempt = MaxAttempts THEN "exited" ELSE "backoff"
    /\ spent' = spent + t
    /\ UNCHANGED <<attempt, backoff>>

(* Variant: the doubling has no cap.                                         *)
BackoffUncapped ==
    /\ phase = "backoff" /\ phase' = "connect"
    /\ attempt' = attempt + 1
    /\ spent' = spent + backoff
    /\ backoff' = 2 * backoff

Backoff ==
    /\ phase = "backoff" /\ phase' = "connect"
    /\ attempt' = attempt + 1
    /\ spent' = spent + backoff
    /\ backoff' = IF 2 * backoff > MaxBackoff THEN MaxBackoff ELSE 2 * backoff

(* The embedded migrations run, or fail and end the process.                 *)
Migrate ==
    /\ phase = "migrate" /\ phase' \in {"serve", "exited"}
    /\ UNCHANGED <<attempt, backoff, spent>>

(* The process exits, and it is started again (external).                    *)
Exit ==
    /\ phase = "serve" /\ phase' = "exited"
    /\ UNCHANGED <<attempt, backoff, spent>>

Launch ==
    /\ phase = "exited" /\ phase' = "connect"
    /\ attempt' = 1 /\ backoff' = InitialBackoff /\ spent' = 0

ConnectNext ==
    \/ \E t \in 0..AttemptTimeout : Connected(t) \/ TerminalError(t) \/ RetryableError(t)
    \/ Backoff \/ Migrate \/ Exit \/ Launch

ConnectSpec == ConnectInit /\ [][ConnectNext]_process

-----------------------------------------------------------------------------
(* Property. A process that waits for Postgres connects or gives up within   *)
(* the budget: "under two minutes worst case" (db.rs:10-12), in half seconds.*)
ConnectInBudget == spent < 240
=============================================================================
