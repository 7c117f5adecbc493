----------------------------- MODULE StatsCache -----------------------------
(***************************************************************************)
(* attesta-api: GET /v1/stats. The assembled figures are cached for Ttl    *)
(* seconds. The lock is held to look and to store, not to compute: when an *)
(* entry expires every request that finds it so computes anew, five        *)
(* SELECTs one after the other, and stores what it has when it is done, an *)
(* older result over a newer one if it took longer.                        *)
(*                                                                         *)
(* Figures count only by their age: `oldest` is when the first SELECT of a *)
(* result ran.                                                             *)
(***************************************************************************)
EXTENDS Integers

CONSTANTS
    Visitor,     \* requests for the figures
    Ttl,         \* stats_cache_ttl_secs, 0 = no cache
    Selects,     \* SELECTs of compute_stats (5)
    LastSecond   \* bound: seconds

VARIABLES
    second,      \* the clock
    cached,      \* the entry: .at is when it was stored; .some is FALSE before any
    visit,       \* visit[v]: SELECTs done so far, 0 before the first, or NotComputing
    oldest,      \* oldest[v]: when the first of them ran
    age,         \* history: age of the figures v was last answered with
    slowest      \* history: the longest from a result's first SELECT to its end

stats == <<second, cached, visit, oldest, age, slowest>>

NotComputing == -1

ASSUME StatsAssumption == Ttl \in Nat /\ Selects \in Nat \ {0} /\ LastSecond \in Nat

-----------------------------------------------------------------------------
StatsInit ==
    /\ second = 0
    /\ cached = [some |-> FALSE, at |-> 0, oldest |-> 0]
    /\ visit = [v \in Visitor |-> NotComputing]
    /\ oldest = [v \in Visitor |-> 0]
    /\ age = [v \in Visitor |-> 0]
    /\ slowest = 0

NextSecond ==
    /\ second < LastSecond /\ second' = second + 1
    /\ UNCHANGED <<cached, visit, oldest, age, slowest>>

Hit == Ttl > 0 /\ cached.some /\ second - cached.at < Ttl

(* Variant: an answer from the cache renews the entry.                       *)
LookRenews(v) ==
    /\ visit[v] = NotComputing
    /\ IF Hit
       THEN /\ age' = [age EXCEPT ![v] = second - cached.oldest]
            /\ cached' = [cached EXCEPT !.at = second]
            /\ UNCHANGED visit
       ELSE visit' = [visit EXCEPT ![v] = 0] /\ UNCHANGED <<age, cached>>
    /\ UNCHANGED <<second, oldest, slowest>>

(* get_stats looks at the cache under its lock, and computes on a miss.      *)
Look(v) ==
    /\ visit[v] = NotComputing
    /\ IF Hit
       THEN age' = [age EXCEPT ![v] = second - cached.oldest] /\ UNCHANGED visit
       ELSE visit' = [visit EXCEPT ![v] = 0] /\ UNCHANGED age
    /\ UNCHANGED <<second, cached, oldest, slowest>>

(* One SELECT of compute_stats.                                              *)
RunSelect(v) ==
    /\ visit[v] \in 0..(Selects - 1)
    /\ visit' = [visit EXCEPT ![v] = @ + 1]
    /\ oldest' = [oldest EXCEPT ![v] = IF visit[v] = 0 THEN second ELSE @]
    /\ UNCHANGED <<second, cached, age, slowest>>

(* A SELECT fails, or the client leaves: nothing is stored.                  *)
GiveUp(v) ==
    /\ visit[v] \in 0..(Selects - 1)
    /\ visit' = [visit EXCEPT ![v] = NotComputing]
    /\ oldest' = [oldest EXCEPT ![v] = 0]
    /\ UNCHANGED <<second, cached, age, slowest>>

(* All SELECTs done: store the result, stamped now, and answer with it.      *)
Publish(v) ==
    /\ visit[v] = Selects
    /\ visit' = [visit EXCEPT ![v] = NotComputing]
    /\ oldest' = [oldest EXCEPT ![v] = 0]
    /\ LET took == second - oldest[v] IN
         /\ age' = [age EXCEPT ![v] = took]
         /\ slowest' = IF took > slowest THEN took ELSE slowest
    /\ cached' = IF Ttl > 0 THEN [some |-> TRUE, at |-> second, oldest |-> oldest[v]]
                 ELSE cached
    /\ UNCHANGED second

StatsNext ==
    \/ NextSecond
    \/ \E v \in Visitor : Look(v) \/ RunSelect(v) \/ GiveUp(v) \/ Publish(v)

StatsSpec == StatsInit /\ [][StatsNext]_stats

-----------------------------------------------------------------------------
(* Properties.                                                               *)

(* However requests overtake each other, no answer's figures are   *)
(* older than the entry may be, and the time it once took to compute them    *)
(* (stats.rs:20-22): an older result stored last does not outlive that.      *)
FiguresAge == \A v \in Visitor : age[v] < Ttl + slowest \/ age[v] <= slowest
=============================================================================
