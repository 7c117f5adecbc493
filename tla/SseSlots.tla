------------------------------ MODULE SseSlots ------------------------------
(***************************************************************************)
(* attesta-api: the SSE connection caps of limits.rs. A slot counts in an  *)
(* atomic and in a map of addresses under a mutex; try_acquire and drop    *)
(* touch one after the other, so other threads run in between. Neither     *)
(* awaits: at most Threads calls of try_acquire are under way at once.     *)
(***************************************************************************)
EXTENDS Integers, FiniteSets

CONSTANTS
    Conn,       \* connections, each asking for a slot again and again
    Ip,         \* client addresses
    IpOf,       \* IpOf[k]: the address of connection k
    PerIpCap,   \* sse_per_ip, 0 = off
    GlobalCap,  \* sse_global, 0 = off
    Threads     \* threads of the server

VARIABLES
    global,     \* the atomic
    perIp,      \* the map; an address without an entry counts 0
    slot        \* slot[k]: how far connection k is with its slot

slots == <<global, perIp, slot>>

ASSUME SlotsAssumption ==
    /\ IsFiniteSet(Conn) /\ IpOf \in [Conn -> Ip]
    /\ PerIpCap \in Nat /\ GlobalCap \in Nat /\ Threads \in Nat \ {0}

-----------------------------------------------------------------------------
At(states) == {k \in Conn : slot[k] \in states}
Acquiring == At({"checked", "counted"})
Held(i) == {k \in At({"counted", "open", "released"}) : IpOf[k] = i}

SlotsInit ==
    /\ global = 0
    /\ perIp = [i \in Ip |-> 0]
    /\ slot = [k \in Conn |-> "none"]

(* Variant: the cap is compared with > instead of >=.                        *)
LoadGlobalOver(k) ==
    /\ slot[k] = "none" /\ Cardinality(Acquiring) < Threads
    /\ GlobalCap > 0 => global <= GlobalCap
    /\ slot' = [slot EXCEPT ![k] = "checked"]
    /\ UNCHANGED <<global, perIp>>

(* A load of the atomic at or over the cap is a 429 and changes nothing.     *)
LoadGlobal(k) ==
    /\ slot[k] = "none" /\ Cardinality(Acquiring) < Threads
    /\ GlobalCap > 0 => global < GlobalCap
    /\ slot' = [slot EXCEPT ![k] = "checked"]
    /\ UNCHANGED <<global, perIp>>

(* Variant: the cap is compared with > instead of >=.                        *)
CountIpOver(k) ==
    /\ slot[k] = "checked"
    /\ IF PerIpCap > 0 /\ perIp[IpOf[k]] > PerIpCap
       THEN slot' = [slot EXCEPT ![k] = "none"] /\ UNCHANGED perIp
       ELSE /\ slot' = [slot EXCEPT ![k] = "counted"]
            /\ perIp' = [perIp EXCEPT ![IpOf[k]] = @ + 1]
    /\ UNCHANGED global

(* Under the mutex: an address at its cap is a 429, another one is counted.  *)
CountIp(k) ==
    /\ slot[k] = "checked"
    /\ IF PerIpCap > 0 /\ perIp[IpOf[k]] >= PerIpCap
       THEN slot' = [slot EXCEPT ![k] = "none"] /\ UNCHANGED perIp
       ELSE /\ slot' = [slot EXCEPT ![k] = "counted"]
            /\ perIp' = [perIp EXCEPT ![IpOf[k]] = @ + 1]
    /\ UNCHANGED global

CountGlobal(k) ==
    /\ slot[k] = "counted"
    /\ slot' = [slot EXCEPT ![k] = "open"]
    /\ global' = global + 1
    /\ UNCHANGED perIp

(* The stream is dropped, whatever ended it.                                 *)
ReleaseGlobal(k) ==
    /\ slot[k] = "open"
    /\ slot' = [slot EXCEPT ![k] = "released"]
    /\ global' = global - 1
    /\ UNCHANGED perIp

(* Variant: the entry goes with the first of its slots.                      *)
ReleaseIpEntry(k) ==
    /\ slot[k] = "released"
    /\ slot' = [slot EXCEPT ![k] = "none"]
    /\ perIp' = [perIp EXCEPT ![IpOf[k]] = 0]
    /\ UNCHANGED global

ReleaseIp(k) ==
    /\ slot[k] = "released"
    /\ slot' = [slot EXCEPT ![k] = "none"]
    /\ perIp' = [perIp EXCEPT ![IpOf[k]] = IF @ - 1 <= 0 THEN 0 ELSE @ - 1]
    /\ UNCHANGED global

SlotsNext ==
    \E k \in Conn : \/ LoadGlobal(k) \/ CountIp(k) \/ CountGlobal(k)
                    \/ ReleaseGlobal(k) \/ ReleaseIp(k)

SlotsSpec == SlotsInit /\ [][SlotsNext]_slots

-----------------------------------------------------------------------------
(* Properties.                                                               *)

(* The counters are the slots: nothing is counted twice or leaked, whatever  *)
(* the order of the two halves of acquiring and dropping.                    *)
CountersExact ==
    /\ global = Cardinality(At({"open"}))
    /\ \A i \in Ip : perIp[i] = Cardinality(Held(i))

(* An address never holds more slots than its cap, although a slot is        *)
(* released in two halves and an entry goes with its last one                *)
(* (limits.rs:119-126).                                                      *)
IpCapHolds == PerIpCap > 0 => \A i \in Ip : Cardinality(Held(i)) <= PerIpCap

(* The global cap is overrun by the threads that loaded the atomic together  *)
(* at most (limits.rs:116).                                                  *)
GlobalCapHolds == GlobalCap > 0 => Cardinality(At({"open"})) < GlobalCap + Threads

(* Both caps of try_acquire together.                                        *)
CapsHold == IpCapHolds /\ GlobalCapHolds
=============================================================================
