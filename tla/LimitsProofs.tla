------------------------------ MODULE LimitsProofs ------------------------------
(***************************************************************************)
(* What limits.rs limits. The counters of the SSE slots are exact, and the *)
(* caps hold up to the threads that race for them, for any number of       *)
(* connections, addresses and threads and any caps. The token buckets keep *)
(* to burst and rate in every window, for any rate and burst, any number   *)
(* of addresses and requests, as long as stamps reach the lock in order;   *)
(* what stamps go back is refilled once more.                              *)
(***************************************************************************)
EXTENDS SseSlots, IpBuckets, FiniteSetTheorems, TLAPS

(* The slots.                                                                *)
SlotStates == {"none", "checked", "counted", "open", "released"}

SlotsTypes ==
    /\ global \in Int /\ perIp \in [Ip -> Int]
    /\ slot \in [Conn -> SlotStates]

(* Every connection between its load of the atomic and its increment may     *)
(* still open: together with the open ones they stay within the cap and the  *)
(* threads. GlobalCapHolds alone is not inductive.                           *)
OpenOrOpening ==
    GlobalCap > 0 =>
        Cardinality(At({"open"})) + Cardinality(Acquiring) < GlobalCap + Threads
FewAcquire == Cardinality(Acquiring) <= Threads

SlotsInv == SlotsTypes /\ CountersExact /\ FewAcquire /\ OpenOrOpening /\ IpCapHolds

-----------------------------------------------------------------------------
(* Sets of connections are finite.                                           *)
LEMMA SetsOfConnections ==
    ASSUME NEW S \in SUBSET Conn
    PROVE  IsFiniteSet(S) /\ Cardinality(S) \in Nat
  BY SlotsAssumption, FS_Subset, FS_CardinalityType

(* The sets counted are sets of connections.                                 *)
LEMMA CountedSets ==
    /\ \A states : At(states) \in SUBSET Conn
    /\ Acquiring \in SUBSET Conn
    /\ \A i : Held(i) \in SUBSET Conn
  BY DEF At, Acquiring, Held

(* A connection in or out of a set moves its size by one.                    *)
LEMMA InAndOut ==
    ASSUME NEW S \in SUBSET Conn, NEW k \in Conn
    PROVE  /\ Cardinality(S) \in Nat
           /\ k \notin S => Cardinality(S \cup {k}) = Cardinality(S) + 1
           /\ k \in S => Cardinality(S \ {k}) = Cardinality(S) - 1
           /\ k \in S => Cardinality(S) > 0
<1>1. IsFiniteSet(S) /\ Cardinality(S) \in Nat
  BY SetsOfConnections
<1>2. k \in S => Cardinality(S) # 0
  BY <1>1, FS_EmptySet
<1>3. Cardinality(S \cup {k}) = IF k \in S THEN Cardinality(S) ELSE Cardinality(S) + 1
  BY <1>1, FS_AddElement
<1>4. Cardinality(S \ {k}) = IF k \in S THEN Cardinality(S) - 1 ELSE Cardinality(S)
  BY <1>1, FS_RemoveElement
<1> QED BY <1>1, <1>2, <1>3, <1>4

(* The sets after one connection moved from one state to another.            *)
LEMMA SlotMoves ==
    ASSUME SlotsTypes, NEW k \in Conn, NEW to \in SlotStates,
           slot' = [slot EXCEPT ![k] = to]
    PROVE  /\ slot' \in [Conn -> SlotStates] /\ slot'[k] = to
           /\ \A S \in SUBSET SlotStates :
                 At(S)' = IF to \in S THEN At(S) \cup {k} ELSE At(S) \ {k}
           /\ \A i \in Ip : i # IpOf[k] => Held(i)' = Held(i)
           /\ Held(IpOf[k])' = IF to \in {"counted", "open", "released"}
                               THEN Held(IpOf[k]) \cup {k} ELSE Held(IpOf[k]) \ {k}
<1>1. /\ slot' \in [Conn -> SlotStates] /\ slot'[k] = to
      /\ \A c \in Conn : c # k => slot'[c] = slot[c]
  BY DEF SlotsTypes
<1>2. \A S \in SUBSET SlotStates :
         At(S)' = IF to \in S THEN At(S) \cup {k} ELSE At(S) \ {k}
  BY <1>1 DEF At
<1>3. \A i \in Ip : i # IpOf[k] => Held(i)' = Held(i)
  BY <1>1 DEF Held, At
<1>4. Held(IpOf[k])' = IF to \in {"counted", "open", "released"}
                       THEN Held(IpOf[k]) \cup {k} ELSE Held(IpOf[k]) \ {k}
  BY <1>1 DEF Held, At
<1> QED BY <1>1, <1>2, <1>3, <1>4

-----------------------------------------------------------------------------
(* At the start nothing is counted.                                          *)
LEMMA SlotsInitially ==
    ASSUME SlotsInit
    PROVE  SlotsInv
<1>1. SlotsTypes
  BY DEF SlotsInit, SlotsTypes, SlotStates
<1>2. At({"open"}) = {} /\ Acquiring = {} /\ \A i \in Ip : Held(i) = {}
  BY DEF SlotsInit, At, Acquiring, Held
<1>3. Cardinality({}) = 0
  BY FS_EmptySet
<1>4. CountersExact /\ IpCapHolds
  <2>1. global = 0 /\ \A i \in Ip : perIp[i] = 0 /\ Cardinality(Held(i)) = 0
    BY <1>2, <1>3 DEF SlotsInit
  <2>2. Cardinality(At({"open"})) = 0
    BY <1>2, <1>3
  <2> QED BY <2>1, <2>2, SlotsAssumption DEF CountersExact, IpCapHolds
<1>5. FewAcquire /\ OpenOrOpening
  BY <1>2, <1>3, SlotsAssumption DEF FewAcquire, OpenOrOpening
<1> QED BY <1>1, <1>4, <1>5 DEF SlotsInv

(* What the steps of one connection share: the facts of SlotMoves for the    *)
(* three sets that are counted.                                              *)
LEMMA CountsMove ==
    ASSUME SlotsInv, NEW k \in Conn, NEW to \in SlotStates,
           slot' = [slot EXCEPT ![k] = to]
    PROVE  /\ slot' \in [Conn -> SlotStates] /\ slot[k] \in SlotStates
           /\ LET open == Cardinality(At({"open"}))
                  acquiring == Cardinality(Acquiring)
                  held == Cardinality(Held(IpOf[k]))
              IN  /\ open \in Nat /\ acquiring \in Nat /\ held \in Nat
                  /\ Cardinality(At({"open"}))' =
                        IF slot[k] = "open" /\ to # "open" THEN open - 1
                        ELSE IF slot[k] # "open" /\ to = "open" THEN open + 1 ELSE open
                  /\ Cardinality(Acquiring)' =
                        IF slot[k] \in {"checked", "counted"} /\ to \notin {"checked", "counted"}
                        THEN acquiring - 1
                        ELSE IF slot[k] \notin {"checked", "counted"} /\ to \in {"checked", "counted"}
                        THEN acquiring + 1 ELSE acquiring
                  /\ Cardinality(Held(IpOf[k]))' =
                        IF slot[k] \in {"counted", "open", "released"}
                           /\ to \notin {"counted", "open", "released"}
                        THEN held - 1
                        ELSE IF slot[k] \notin {"counted", "open", "released"}
                                /\ to \in {"counted", "open", "released"}
                        THEN held + 1 ELSE held
           /\ \A i \in Ip : i # IpOf[k] => Cardinality(Held(i))' = Cardinality(Held(i))
<1>1. SlotsTypes /\ IpOf[k] \in Ip
  BY SlotsAssumption DEF SlotsInv
<1>2. /\ At({"open"}) \in SUBSET Conn /\ (k \in At({"open"}) <=> slot[k] = "open")
      /\ Acquiring \in SUBSET Conn /\ (k \in Acquiring <=> slot[k] \in {"checked", "counted"})
      /\ Held(IpOf[k]) \in SUBSET Conn
      /\ (k \in Held(IpOf[k]) <=> slot[k] \in {"counted", "open", "released"})
  BY DEF At, Acquiring, Held
<1>3. /\ At({"open"})' = IF to = "open" THEN At({"open"}) \cup {k} ELSE At({"open"}) \ {k}
      /\ Acquiring' = IF to \in {"checked", "counted"} THEN Acquiring \cup {k} ELSE Acquiring \ {k}
  <2>1. {"open"} \in SUBSET SlotStates /\ {"checked", "counted"} \in SUBSET SlotStates
    BY DEF SlotStates
  <2>2. \A S \in SUBSET SlotStates :
           At(S)' = IF to \in S THEN At(S) \cup {k} ELSE At(S) \ {k}
    BY <1>1, SlotMoves
  <2>3. At({"open"})' = IF to \in {"open"} THEN At({"open"}) \cup {k} ELSE At({"open"}) \ {k}
    BY <2>1, <2>2, Zenon
  <2>4. At({"checked", "counted"})' =
           IF to \in {"checked", "counted"} THEN At({"checked", "counted"}) \cup {k}
           ELSE At({"checked", "counted"}) \ {k}
    BY <2>1, <2>2, Zenon
  <2> QED BY <2>3, <2>4 DEF Acquiring
<1>4. /\ Held(IpOf[k])' = IF to \in {"counted", "open", "released"}
                          THEN Held(IpOf[k]) \cup {k} ELSE Held(IpOf[k]) \ {k}
      /\ \A i \in Ip : i # IpOf[k] => Held(i)' = Held(i)
      /\ slot' \in [Conn -> SlotStates] /\ slot[k] \in SlotStates
  BY <1>1, SlotMoves DEF SlotsTypes
<1>5. ASSUME NEW S \in SUBSET Conn, NEW T, NEW in \in BOOLEAN,
             T = IF in THEN S \cup {k} ELSE S \ {k}
      PROVE  /\ Cardinality(S) \in Nat
             /\ Cardinality(T) = IF k \in S /\ ~ in THEN Cardinality(S) - 1
                                 ELSE IF k \notin S /\ in THEN Cardinality(S) + 1
                                 ELSE Cardinality(S)
  <2>1. k \in S => S \cup {k} = S
    OBVIOUS
  <2>2. k \notin S => S \ {k} = S
    OBVIOUS
  <2> QED BY <1>5, <2>1, <2>2, InAndOut
<1>6. /\ Cardinality(At({"open"})) \in Nat
      /\ Cardinality(At({"open"}))' =
            IF k \in At({"open"}) /\ ~ (to = "open") THEN Cardinality(At({"open"})) - 1
            ELSE IF k \notin At({"open"}) /\ to = "open" THEN Cardinality(At({"open"})) + 1
            ELSE Cardinality(At({"open"}))
  BY <1>2, <1>3, <1>5
<1>7. /\ Cardinality(Acquiring) \in Nat
      /\ Cardinality(Acquiring)' =
            IF k \in Acquiring /\ ~ (to \in {"checked", "counted"})
            THEN Cardinality(Acquiring) - 1
            ELSE IF k \notin Acquiring /\ to \in {"checked", "counted"}
            THEN Cardinality(Acquiring) + 1 ELSE Cardinality(Acquiring)
  BY <1>2, <1>3, <1>5
<1>8. /\ Cardinality(Held(IpOf[k])) \in Nat
      /\ Cardinality(Held(IpOf[k]))' =
            IF k \in Held(IpOf[k]) /\ ~ (to \in {"counted", "open", "released"})
            THEN Cardinality(Held(IpOf[k])) - 1
            ELSE IF k \notin Held(IpOf[k]) /\ to \in {"counted", "open", "released"}
            THEN Cardinality(Held(IpOf[k])) + 1 ELSE Cardinality(Held(IpOf[k]))
  BY <1>2, <1>4, <1>5
<1>9. \A i \in Ip : i # IpOf[k] => Cardinality(Held(i))' = Cardinality(Held(i))
  BY <1>4
<1> QED BY <1>2, <1>4, <1>6, <1>7, <1>8, <1>9

(* What a step does to the sets, and to the counters, that keeps them exact. *)
OthersHold(k) ==
    /\ slot' \in [Conn -> SlotStates]
    /\ \A i \in Ip : i # IpOf[k] => Cardinality(Held(i))' = Cardinality(Held(i))
Counted(k) ==
    /\ global' = Cardinality(At({"open"}))' /\ global' \in Int
    /\ perIp' = [perIp EXCEPT ![IpOf[k]] = Cardinality(Held(IpOf[k]))']
    /\ Cardinality(Held(IpOf[k]))' \in Int
    /\ PerIpCap > 0 => Cardinality(Held(IpOf[k]))' <= PerIpCap

(* A step of one connection keeps the counts.                                *)
LEMMA StepKeepsSlots ==
    ASSUME SlotsInv, NEW k \in Conn, OthersHold(k), Counted(k), FewAcquire', OpenOrOpening'
    PROVE  SlotsInv'
<1>1. /\ perIp' \in [Ip -> Int] /\ perIp'[IpOf[k]] = Cardinality(Held(IpOf[k]))'
      /\ \A i \in Ip : i # IpOf[k] => perIp'[i] = perIp[i]
  BY SlotsAssumption DEF SlotsInv, SlotsTypes, Counted
<1>2. SlotsTypes'
  BY <1>1 DEF SlotsTypes, OthersHold, Counted
<1>3. CountersExact'
  BY <1>1 DEF SlotsInv, CountersExact, OthersHold, Counted
<1>4. IpCapHolds'
  BY <1>1 DEF SlotsInv, IpCapHolds, OthersHold, Counted
<1> QED BY <1>2, <1>3, <1>4 DEF SlotsInv

(* The atomic is under its cap when it is loaded, and at most Threads calls  *)
(* are under way after it.                                                   *)
LEMMA LoadKeepsSlots ==
    ASSUME SlotsInv, NEW k \in Conn, LoadGlobal(k)
    PROVE  SlotsInv'
<1> DEFINE open == Cardinality(At({"open"}))
           acquiring == Cardinality(Acquiring)
           held == Cardinality(Held(IpOf[k]))
<1>1. /\ slot[k] = "none" /\ acquiring < Threads
      /\ GlobalCap > 0 => global < GlobalCap
      /\ slot' = [slot EXCEPT ![k] = "checked"]
      /\ global' = global /\ perIp' = perIp
  BY DEF LoadGlobal
<1>2. /\ open \in Nat /\ acquiring \in Nat /\ held \in Nat
      /\ open' = open /\ acquiring' = acquiring + 1 /\ held' = held /\ OthersHold(k)
  BY <1>1, CountsMove DEF SlotStates, OthersHold
<1>3. global = open /\ perIp[IpOf[k]] = held /\ IpOf[k] \in Ip
  BY SlotsAssumption DEF SlotsInv, CountersExact
<1>4. FewAcquire'
  BY <1>1, <1>2, SlotsAssumption DEF FewAcquire
<1>5. OpenOrOpening'
  BY <1>1, <1>2, <1>3, SlotsAssumption DEF OpenOrOpening
<1>6. perIp' = [perIp EXCEPT ![IpOf[k]] = held']
  <2>1. perIp' = [perIp EXCEPT ![IpOf[k]] = held]
    BY <1>1, <1>3 DEF SlotsInv, SlotsTypes
  <2> QED BY <1>2, <2>1, Zenon
<1>7. PerIpCap > 0 => held <= PerIpCap
  BY <1>3 DEF SlotsInv, IpCapHolds
<1>8. Counted(k)
  <2>1. global' = open' /\ open' \in Int /\ held' \in Int
        /\ (PerIpCap > 0 => held' <= PerIpCap)
    BY <1>1, <1>2, <1>3, <1>7
  <2> QED BY <2>1, <1>6 DEF Counted
<1> QED BY <1>2, <1>4, <1>5, <1>8, StepKeepsSlots

(* Under the mutex the address is counted, below its cap, or refused.        *)
LEMMA CountIpKeepsSlots ==
    ASSUME SlotsInv, NEW k \in Conn, CountIp(k)
    PROVE  SlotsInv'
<1> DEFINE open == Cardinality(At({"open"}))
           acquiring == Cardinality(Acquiring)
           held == Cardinality(Held(IpOf[k]))
<1>1. global = open /\ perIp[IpOf[k]] = held /\ IpOf[k] \in Ip
  BY SlotsAssumption DEF SlotsInv, CountersExact
<1>2. slot[k] = "checked" /\ global' = global
  BY DEF CountIp
<1>3. CASE PerIpCap > 0 /\ perIp[IpOf[k]] >= PerIpCap
  <2>1. slot' = [slot EXCEPT ![k] = "none"] /\ perIp' = perIp
    BY <1>3 DEF CountIp
  <2>2. /\ open \in Nat /\ acquiring \in Nat /\ held \in Nat
        /\ open' = open /\ acquiring' = acquiring - 1 /\ held' = held /\ OthersHold(k)
    BY <1>2, <2>1, CountsMove DEF SlotStates, OthersHold
  <2>3. FewAcquire' /\ OpenOrOpening'
    BY <2>2, SlotsAssumption DEF SlotsInv, FewAcquire, OpenOrOpening
  <2>4. perIp' = [perIp EXCEPT ![IpOf[k]] = held']
    <3>1. perIp' = [perIp EXCEPT ![IpOf[k]] = held]
      BY <1>1, <2>1 DEF SlotsInv, SlotsTypes
    <3> QED BY <2>2, <3>1, Zenon
  <2>5. PerIpCap > 0 => held <= PerIpCap
    BY <1>1 DEF SlotsInv, IpCapHolds
  <2>6. Counted(k)
    <3>1. global' = open' /\ open' \in Int /\ held' \in Int
          /\ (PerIpCap > 0 => held' <= PerIpCap)
      BY <1>1, <1>2, <2>2, <2>5
    <3> QED BY <3>1, <2>4 DEF Counted
  <2> QED BY <2>2, <2>3, <2>6, StepKeepsSlots
<1>4. CASE ~ (PerIpCap > 0 /\ perIp[IpOf[k]] >= PerIpCap)
  <2>1. slot' = [slot EXCEPT ![k] = "counted"]
        /\ perIp' = [perIp EXCEPT ![IpOf[k]] = perIp[IpOf[k]] + 1]
    BY <1>4 DEF CountIp
  <2>2. /\ open \in Nat /\ acquiring \in Nat /\ held \in Nat
        /\ open' = open /\ acquiring' = acquiring /\ held' = held + 1 /\ OthersHold(k)
    BY <1>2, <2>1, CountsMove DEF SlotStates, OthersHold
  <2>3. FewAcquire' /\ OpenOrOpening'
    BY <2>2 DEF SlotsInv, FewAcquire, OpenOrOpening
  <2>4. PerIpCap > 0 => held + 1 <= PerIpCap
    BY <1>1, <1>4, <2>2, SlotsAssumption
  <2>5. perIp' = [perIp EXCEPT ![IpOf[k]] = held']
    <3>1. perIp[IpOf[k]] + 1 = held'
      BY <1>1, <2>2
    <3> QED BY <2>1, <3>1, Zenon
  <2>6. Counted(k)
    <3>1. global' = open' /\ open' \in Int /\ held' \in Int
          /\ (PerIpCap > 0 => held' <= PerIpCap)
      BY <1>1, <1>2, <2>2, <2>4
    <3> QED BY <3>1, <2>5 DEF Counted
  <2> QED BY <2>2, <2>3, <2>6, StepKeepsSlots
<1> QED BY <1>3, <1>4

(* The atomic is counted last; the connection was counted as opening.        *)
LEMMA CountGlobalKeepsSlots ==
    ASSUME SlotsInv, NEW k \in Conn, CountGlobal(k)
    PROVE  SlotsInv'
<1> DEFINE open == Cardinality(At({"open"}))
           acquiring == Cardinality(Acquiring)
           held == Cardinality(Held(IpOf[k]))
<1>1. /\ slot[k] = "counted" /\ slot' = [slot EXCEPT ![k] = "open"]
      /\ global' = global + 1 /\ perIp' = perIp
  BY DEF CountGlobal
<1>2. /\ open \in Nat /\ acquiring \in Nat /\ held \in Nat
      /\ open' = open + 1 /\ acquiring' = acquiring - 1 /\ held' = held /\ OthersHold(k)
  BY <1>1, CountsMove DEF SlotStates, OthersHold
<1>3. global = open /\ perIp[IpOf[k]] = held /\ IpOf[k] \in Ip
  BY SlotsAssumption DEF SlotsInv, CountersExact
<1>4. FewAcquire' /\ OpenOrOpening'
  BY <1>2, SlotsAssumption DEF SlotsInv, FewAcquire, OpenOrOpening
<1>5. perIp' = [perIp EXCEPT ![IpOf[k]] = held']
  <2>1. perIp' = [perIp EXCEPT ![IpOf[k]] = held]
    BY <1>1, <1>3 DEF SlotsInv, SlotsTypes
  <2> QED BY <1>2, <2>1, Zenon
<1>6. PerIpCap > 0 => held <= PerIpCap
  BY <1>3 DEF SlotsInv, IpCapHolds
<1>7. Counted(k)
  <2>1. global' = open' /\ open' \in Int /\ held' \in Int
        /\ (PerIpCap > 0 => held' <= PerIpCap)
    BY <1>1, <1>2, <1>3, <1>6
  <2> QED BY <2>1, <1>5 DEF Counted
<1> QED BY <1>2, <1>4, <1>7, StepKeepsSlots

(* The drop gives back the atomic first.                                     *)
LEMMA ReleaseGlobalKeepsSlots ==
    ASSUME SlotsInv, NEW k \in Conn, ReleaseGlobal(k)
    PROVE  SlotsInv'
<1> DEFINE open == Cardinality(At({"open"}))
           acquiring == Cardinality(Acquiring)
           held == Cardinality(Held(IpOf[k]))
<1>1. /\ slot[k] = "open" /\ slot' = [slot EXCEPT ![k] = "released"]
      /\ global' = global - 1 /\ perIp' = perIp
  BY DEF ReleaseGlobal
<1>2. /\ open \in Nat /\ acquiring \in Nat /\ held \in Nat
      /\ open' = open - 1 /\ acquiring' = acquiring /\ held' = held /\ OthersHold(k)
  BY <1>1, CountsMove DEF SlotStates, OthersHold
<1>3. global = open /\ perIp[IpOf[k]] = held /\ IpOf[k] \in Ip
  BY SlotsAssumption DEF SlotsInv, CountersExact
<1>4. FewAcquire' /\ OpenOrOpening'
  BY <1>2, SlotsAssumption DEF SlotsInv, FewAcquire, OpenOrOpening
<1>5. perIp' = [perIp EXCEPT ![IpOf[k]] = held']
  <2>1. perIp' = [perIp EXCEPT ![IpOf[k]] = held]
    BY <1>1, <1>3 DEF SlotsInv, SlotsTypes
  <2> QED BY <1>2, <2>1, Zenon
<1>6. PerIpCap > 0 => held <= PerIpCap
  BY <1>3 DEF SlotsInv, IpCapHolds
<1>7. Counted(k)
  <2>1. global' = open' /\ open' \in Int /\ held' \in Int
        /\ (PerIpCap > 0 => held' <= PerIpCap)
    BY <1>1, <1>2, <1>3, <1>6
  <2> QED BY <2>1, <1>5 DEF Counted
<1> QED BY <1>2, <1>4, <1>7, StepKeepsSlots

(* ... and then the address, whose entry goes with its last slot.            *)
LEMMA ReleaseIpKeepsSlots ==
    ASSUME SlotsInv, NEW k \in Conn, ReleaseIp(k)
    PROVE  SlotsInv'
<1> DEFINE open == Cardinality(At({"open"}))
           acquiring == Cardinality(Acquiring)
           held == Cardinality(Held(IpOf[k]))
<1>1. global = open /\ perIp[IpOf[k]] = held /\ IpOf[k] \in Ip
  BY SlotsAssumption DEF SlotsInv, CountersExact
<1>2. slot[k] = "released" /\ slot' = [slot EXCEPT ![k] = "none"] /\ global' = global
  BY DEF ReleaseIp
<1>3. /\ open \in Nat /\ acquiring \in Nat /\ held \in Nat
      /\ open' = open /\ acquiring' = acquiring /\ held' = held - 1 /\ OthersHold(k)
  BY <1>2, CountsMove DEF SlotStates, OthersHold
<1>4. held > 0
  <2>1. k \in Held(IpOf[k]) /\ Held(IpOf[k]) \in SUBSET Conn
    BY <1>2 DEF Held, At
  <2> QED BY <2>1, InAndOut
<1>5. perIp' = [perIp EXCEPT ![IpOf[k]] = held']
  <2>1. perIp' = [perIp EXCEPT ![IpOf[k]] = IF perIp[IpOf[k]] - 1 <= 0 THEN 0
                                            ELSE perIp[IpOf[k]] - 1]
    BY DEF ReleaseIp
  <2>2. (IF perIp[IpOf[k]] - 1 <= 0 THEN 0 ELSE perIp[IpOf[k]] - 1) = held'
    BY <1>1, <1>3, <1>4
  <2> QED BY <2>1, <2>2, Zenon
<1>6. FewAcquire' /\ OpenOrOpening'
  BY <1>3 DEF SlotsInv, FewAcquire, OpenOrOpening
<1>7. PerIpCap > 0 => held - 1 <= PerIpCap
  BY <1>1, <1>3, SlotsAssumption DEF SlotsInv, IpCapHolds
<1>8. Counted(k)
  <2>1. global' = open' /\ open' \in Int /\ held' \in Int
        /\ (PerIpCap > 0 => held' <= PerIpCap)
    BY <1>1, <1>2, <1>3, <1>7
  <2> QED BY <2>1, <1>5 DEF Counted
<1> QED BY <1>3, <1>6, <1>8, StepKeepsSlots

-----------------------------------------------------------------------------
(* The inductive invariant of the slots: exact counters, and no more calls   *)
(* between load and increment than threads.                                  *)
THEOREM SlotsInvariance == SlotsSpec => []SlotsInv
<1>1. SlotsInv /\ [SlotsNext]_slots => SlotsInv'
  <2> SUFFICES ASSUME SlotsInv, [SlotsNext]_slots
               PROVE  SlotsInv'
    OBVIOUS
  <2>1. CASE UNCHANGED slots
    BY <2>1
    DEF slots, SlotsInv, SlotsTypes, CountersExact, FewAcquire, OpenOrOpening, IpCapHolds,
        At, Acquiring, Held
  <2>2. CASE SlotsNext
    BY <2>2, LoadKeepsSlots, CountIpKeepsSlots, CountGlobalKeepsSlots,
       ReleaseGlobalKeepsSlots, ReleaseIpKeepsSlots DEF SlotsNext
  <2> QED BY <2>1, <2>2
<1> QED BY SlotsInitially, <1>1, PTL DEF SlotsSpec

(* For any number of connections and threads, the atomic counts the open     *)
(* streams and the map the slots of each address (limits.rs:115-157).        *)
THEOREM CountersAreExact == SlotsSpec => []CountersExact
<1>1. SlotsInv => CountersExact
  BY DEF SlotsInv
<1> QED BY <1>1, SlotsInvariance, PTL

(* An address never holds more slots than its cap, for any number of         *)
(* connections that share it (limits.rs:119-126).                            *)
THEOREM IpCapIsHeld == SlotsSpec => []IpCapHolds
<1>1. SlotsInv => IpCapHolds
  BY DEF SlotsInv
<1> QED BY <1>1, SlotsInvariance, PTL

(* The global cap is passed by fewer connections than there are threads      *)
(* (limits.rs:116-127).                                                      *)
THEOREM GlobalCapIsHeld == SlotsSpec => []GlobalCapHolds
<1>1. SlotsInv => GlobalCapHolds
  <2> SUFFICES ASSUME SlotsInv
               PROVE  GlobalCapHolds
    OBVIOUS
  <2>1. Cardinality(At({"open"})) \in Nat /\ Cardinality(Acquiring) \in Nat
    BY CountedSets, SetsOfConnections
  <2>2. GlobalCap > 0 => Cardinality(At({"open"})) < GlobalCap + Threads
    BY <2>1, SlotsAssumption DEF SlotsInv, OpenOrOpening
  <2> QED BY <2>2 DEF GlobalCapHolds
<1> QED BY <1>1, SlotsInvariance, PTL

(* For any number of connections, addresses and threads: the per-address cap *)
(* holds exactly, and the global one is passed by fewer connections than     *)
(* there are threads, those that loaded the atomic together                  *)
(* (limits.rs:116-127).                                                      *)
THEOREM CapsAreHeld == SlotsSpec => []CapsHold
<1>1. IpCapHolds /\ GlobalCapHolds => CapsHold
  BY DEF CapsHold
<1> QED BY <1>1, IpCapIsHeld, GlobalCapIsHeld, PTL

-----------------------------------------------------------------------------
(* The buckets.                                                              *)
BucketsTypes ==
    /\ time \in Nat
    /\ stamp \in [Req -> Nat \cup {NoStamp}]
    /\ bucket \in [Addr -> [tokens : Nat, last : Nat, has : BOOLEAN]]
    /\ watch \in [addr : Addr, from : Nat, taken : Nat, back : Nat]

(* No stamp, and no refill, is later than the clock.                         *)
NotAhead ==
    /\ \A r \in Req : stamp[r] <= time
    /\ \A i \in Addr : bucket[i].last <= time

(* What was refilled up to the last refill, in a window that ran r longer    *)
(* than the clock shows: it started at -r, or stamps went back in it.        *)
Refunds(b, r) == (b.last + r) * PerTick

(* Tokens taken in the window and tokens left are the burst and the refills; *)
(* a bucket that was dropped was full, so what was taken from it has been    *)
(* refilled. This is the strengthening that makes RateBound inductive: it    *)
(* speaks of what a dropped bucket would hold.                               *)
Balanced(b, t, r) ==
    /\ b.last + r \in Nat
    /\ IF b.has THEN b.tokens + t * Cost <= Full + Refunds(b, r)
       ELSE t * Cost <= Refunds(b, r)
Longer == watch.back - watch.from
InBalance == Balanced(bucket[watch.addr], watch.taken, Longer)

BucketsInv == BucketsTypes /\ NotAhead /\ InBalance

-----------------------------------------------------------------------------
(* Products, for the arithmetic below.                                       *)
LEMMA Products ==
    /\ \A x, y \in Nat : (x + y) * PerTick = x * PerTick + y * PerTick
    /\ \A x \in Nat : x * PerTick \in Nat /\ x * Cost \in Nat
    /\ \A x \in Nat : (x + 1) * Cost = x * Cost + Cost
    /\ 0 * Cost = 0
  BY BucketsAssumption

(* A full bucket is a number.                                                *)
LEMMA FullType == Full \in Nat
  BY BucketsAssumption DEF Full

(* The time since, cut at zero, is a number, and fills the gap.              *)
LEMMA ElapsedType ==
    ASSUME NEW x \in Nat, NEW y \in Nat
    PROVE  Elapsed(x, y) \in Nat /\ x + Elapsed(y, x) = y + Elapsed(x, y)
  BY DEF Elapsed

(* A refill adds no more than the time since the last one gives, and stops   *)
(* at the burst (limits.rs:81-83).                                           *)
LEMMA RefillBounds ==
    ASSUME NEW b \in [tokens : Nat, last : Nat, has : BOOLEAN], NEW now \in Nat
    PROVE  /\ Refilled(b, now) \in Nat /\ Refilled(b, now) <= Full
           /\ Refilled(b, now) <= b.tokens + Elapsed(now, b.last) * PerTick
<1>1. b.tokens \in Nat /\ b.last \in Nat
  OBVIOUS
<1>2. Elapsed(now, b.last) * PerTick \in Nat
  BY <1>1, ElapsedType, Products
<1> QED BY <1>1, <1>2, FullType DEF Refilled, Capped

(* Dropping a full bucket keeps the balance: its idle time has refilled what *)
(* was taken (limits.rs:69-74).                                              *)
LEMMA DropBalanced ==
    ASSUME NEW b \in [tokens : Nat, last : Nat, has : BOOLEAN], NEW now \in Nat,
           NEW t \in Nat, NEW r \in Int,
           b.has, Refilled(b, now) >= Full, Balanced(b, t, r)
    PROVE  /\ Dropped(b, now) \in [tokens : Nat, last : Nat, has : BOOLEAN]
           /\ Balanced(Dropped(b, now), t, r)
           /\ Dropped(b, now).last = b.last + Elapsed(now, b.last)
           /\ ~ Dropped(b, now).has
<1> DEFINE d == Dropped(b, now)
<1>1. b.tokens \in Nat /\ b.last \in Nat /\ Elapsed(now, b.last) \in Nat
      /\ b.last + r \in Nat
  BY ElapsedType DEF Balanced
<1>2. d \in [tokens : Nat, last : Nat, has : BOOLEAN] /\ d.has = FALSE
      /\ d.last = b.last + Elapsed(now, b.last)
  BY <1>1 DEF Dropped, Elapsed
<1>3. Full <= b.tokens + Elapsed(now, b.last) * PerTick
  <2>1. Elapsed(now, b.last) * PerTick \in Nat
    BY <1>1, Products
  <2> QED BY <1>1, <2>1, RefillBounds, FullType
<1>4. Refunds(d, r) = (b.last + r) * PerTick + Elapsed(now, b.last) * PerTick
  <2>1. d.last + r = (b.last + r) + Elapsed(now, b.last) /\ b.last + r \in Nat
    BY <1>1, <1>2
  <2>2. ((b.last + r) + Elapsed(now, b.last)) * PerTick
          = (b.last + r) * PerTick + Elapsed(now, b.last) * PerTick
    BY <1>1, <2>1, Products, Zenon
  <2> HIDE DEF d
  <2> QED BY <2>1, <2>2 DEF Refunds
<1>5. b.tokens + t * Cost <= Full + (b.last + r) * PerTick
  BY DEF Balanced, Refunds
<1>6. t * Cost \in Nat /\ (b.last + r) * PerTick \in Nat
      /\ Elapsed(now, b.last) * PerTick \in Nat
  BY <1>1, Products, Zenon
<1>7. t * Cost <= Refunds(d, r)
  BY <1>1, <1>3, <1>4, <1>5, <1>6, FullType
<1>8. d.last + r \in Nat
  BY <1>1, <1>2
<1> QED BY <1>2, <1>7, <1>8 DEF Balanced

(* What a request at time now finds, takes and leaves.                       *)
TokensAt(b, now) == IF b.has THEN Refilled(b, now) ELSE Full
Took(tokens) == IF tokens >= Cost THEN 1 ELSE 0
Left(tokens) == tokens - Took(tokens) * Cost
Used(b, now) == [tokens |-> Left(TokensAt(b, now)), last |-> now, has |-> TRUE]

(* A token is taken only where there is one, and the total counts it.        *)
LEMMA TakeType ==
    ASSUME NEW tokens \in Nat, NEW t \in Nat
    PROVE  /\ Left(tokens) \in Nat /\ Took(tokens) \in Nat /\ t + Took(tokens) \in Nat
           /\ Left(tokens) + (t + Took(tokens)) * Cost = tokens + t * Cost
<1>1. t * Cost \in Nat /\ (t + 1) * Cost = t * Cost + Cost /\ 1 * Cost = Cost /\ 0 * Cost = 0
  BY Products, BucketsAssumption
<1>2. CASE tokens >= Cost
  <2>1. Took(tokens) = 1 /\ Left(tokens) = tokens - Cost
    BY <1>1, <1>2 DEF Took, Left
  <2> QED BY <1>1, <1>2, <2>1, BucketsAssumption
<1>3. CASE ~ (tokens >= Cost)
  <2>1. Took(tokens) = 0 /\ Left(tokens) = tokens
    BY <1>1, <1>3 DEF Took, Left
  <2>2. t + 0 = t
    OBVIOUS
  <2> QED BY <1>1, <2>1, <2>2
<1> QED BY <1>2, <1>3

(* A window that opens on a bucket finds no more than the burst in it: idle  *)
(* time beyond it gives nothing (limits.rs:83).                              *)
LEMMA WindowOpensBalanced ==
    ASSUME NEW b \in [tokens : Nat, last : Nat, has : BOOLEAN], NEW now \in Nat
    PROVE  Balanced(Used(b, now), Took(TokensAt(b, now)), 0 - now)
<1> DEFINE tokens == TokensAt(b, now)
<1>1. tokens \in Nat /\ tokens <= Full
  BY RefillBounds, FullType DEF TokensAt
<1>2. Used(b, now).tokens = Left(tokens) /\ Used(b, now).last = now
      /\ Used(b, now).has = TRUE
  BY DEF Used
<1> HIDE DEF tokens
<1>3. Left(tokens) + (0 + Took(tokens)) * Cost = tokens + 0 * Cost
      /\ Left(tokens) \in Nat /\ Took(tokens) \in Nat
  BY <1>1, TakeType
<1>4. Left(tokens) + Took(tokens) * Cost = tokens
  <2>1. 0 + Took(tokens) = Took(tokens) /\ 0 * Cost = 0
    BY <1>3, Products
  <2> QED BY <1>1, <1>3, <2>1
<1>5. now + (0 - now) = 0 /\ 0 * PerTick = 0
  BY BucketsAssumption
<1>6. Balanced(Used(b, now), Took(tokens), 0 - now)
  <2>1. Refunds(Used(b, now), 0 - now) = 0
    BY <1>2, <1>5 DEF Refunds
  <2>2. Left(tokens) + Took(tokens) * Cost <= Full + 0
    BY <1>1, <1>4, FullType
  <2> QED BY <1>2, <1>5, <2>1, <2>2 DEF Balanced
<1> QED BY <1>6 DEF tokens

(* A refill at the request's stamp, and the token it takes or not, keep the  *)
(* balance, also when the stamp is older than the last refill.               *)
LEMMA TakeBalanced ==
    ASSUME NEW b \in [tokens : Nat, last : Nat, has : BOOLEAN], NEW now \in Nat,
           NEW t \in Nat, NEW r \in Int, Balanced(b, t, r)
    PROVE  Balanced(Used(b, now), t + Took(TokensAt(b, now)), r + Elapsed(b.last, now))
<1> DEFINE tokens == TokensAt(b, now)
           left == Left(tokens)
           u == t + Took(tokens)
           before == (b.last + r) * PerTick
           passed == Elapsed(now, b.last) * PerTick
<1>1. b.tokens \in Nat /\ b.last \in Nat /\ b.last + r \in Nat
      /\ Elapsed(now, b.last) \in Nat /\ Elapsed(b.last, now) \in Nat
      /\ now + Elapsed(b.last, now) = b.last + Elapsed(now, b.last)
  BY ElapsedType DEF Balanced
<1>2. tokens \in Nat
  BY RefillBounds, FullType DEF TokensAt
<1>3. left \in Nat /\ u \in Nat
  BY <1>2, TakeType
<1>4. left + u * Cost = tokens + t * Cost
  BY <1>2, TakeType
<1>5. before \in Nat /\ passed \in Nat /\ t * Cost \in Nat
  BY <1>1, Products, Zenon
<1>6. (now + (r + Elapsed(b.last, now))) * PerTick = before + passed
  <2>1. now + (r + Elapsed(b.last, now)) = (b.last + r) + Elapsed(now, b.last)
        /\ b.last + r \in Nat
    BY <1>1
  <2>2. ((b.last + r) + Elapsed(now, b.last)) * PerTick = before + passed
    BY <1>1, <2>1, Products, Zenon
  <2> QED BY <2>1, <2>2, Zenon
<1>7. tokens + t * Cost <= Full + (before + passed)
  <2>1. CASE b.has
    <3>1. tokens <= b.tokens + passed /\ b.tokens + t * Cost <= Full + before
      BY <2>1, RefillBounds DEF Balanced, Refunds, TokensAt
    <3> HIDE DEF before, passed, tokens
    <3> QED BY <1>1, <1>2, <1>5, <3>1, FullType
  <2>2. CASE ~ b.has
    <3>1. tokens = Full /\ t * Cost <= before
      BY <2>2 DEF Balanced, Refunds, TokensAt
    <3> HIDE DEF before, passed, tokens
    <3> QED BY <1>5, <3>1, FullType
  <2> QED BY <2>1, <2>2
<1>8. left + u * Cost <= Full + (now + (r + Elapsed(b.last, now))) * PerTick
  BY <1>4, <1>6, <1>7
<1>9. Used(b, now).tokens = left /\ Used(b, now).last = now /\ Used(b, now).has = TRUE
  BY DEF Used
<1> HIDE DEF tokens, left, u
<1>10. now + (r + Elapsed(b.last, now)) \in Nat
  BY <1>1
<1>11. Balanced(Used(b, now), u, r + Elapsed(b.last, now))
  BY <1>3, <1>8, <1>9, <1>10 DEF Balanced, Refunds
<1> QED BY <1>11 DEF tokens, left, u

-----------------------------------------------------------------------------
(* At the start no bucket has been asked.                                    *)
LEMMA BucketsInitially ==
    ASSUME BucketsInit
    PROVE  BucketsInv
<1>1. BucketsTypes /\ NotAhead
  BY DEF BucketsInit, BucketsTypes, NotAhead, NoStamp
<1>2. PICK i \in Addr : watch = [addr |-> i, from |-> 0, taken |-> 0, back |-> 0]
  BY DEF BucketsInit
<1>3. bucket[i].has = FALSE /\ bucket[i].last = 0
  BY DEF BucketsInit
<1>4. 0 * PerTick = 0 /\ 0 * Cost = 0
  BY BucketsAssumption
<1>5. InBalance
  BY <1>2, <1>3, <1>4 DEF InBalance, Balanced, Refunds, Longer
<1> QED BY <1>1, <1>5 DEF BucketsInv

(* Time passes.                                                              *)
LEMMA TickKeepsBalance ==
    ASSUME BucketsInv, Tick
    PROVE  BucketsInv'
<1>1. BucketsTypes' /\ NotAhead'
  BY DEF Tick, BucketsInv, BucketsTypes, NotAhead, NoStamp
<1>2. InBalance'
  BY DEF Tick, BucketsInv, InBalance, Balanced, Refunds, Longer
<1> QED BY <1>1, <1>2 DEF BucketsInv

(* A request reads the clock.                                                *)
LEMMA ReadClockKeepsBalance ==
    ASSUME BucketsInv, NEW r \in Req, ReadClock(r)
    PROVE  BucketsInv'
<1>1. BucketsTypes' /\ NotAhead'
  BY DEF ReadClock, BucketsInv, BucketsTypes, NotAhead, NoStamp
<1>2. InBalance'
  BY DEF ReadClock, BucketsInv, InBalance, Balanced, Refunds, Longer
<1> QED BY <1>1, <1>2 DEF BucketsInv

(* The cleanup leaves every bucket alone but the full ones, and no last      *)
(* refill goes back by it.                                                   *)
LEMMA CleanupBalanced ==
    ASSUME BucketsInv, NEW now \in Nat, now <= time, NEW i \in Addr
    PROVE  /\ DropFull(now)[i] \in [tokens : Nat, last : Nat, has : BOOLEAN]
           /\ DropFull(now)[i].last <= time
           /\ \A t \in Nat, r \in Int :
                 Balanced(bucket[i], t, r) => Balanced(DropFull(now)[i], t, r)
<1>1. bucket[i] \in [tokens : Nat, last : Nat, has : BOOLEAN] /\ bucket[i].last <= time
  BY DEF BucketsInv, BucketsTypes, NotAhead
<1>2. CASE TooMany /\ bucket[i].has /\ Refilled(bucket[i], now) >= Full
  <2>1. DropFull(now)[i] = Dropped(bucket[i], now)
    BY <1>2 DEF DropFull
  <2>2. Dropped(bucket[i], now) \in [tokens : Nat, last : Nat, has : BOOLEAN]
        /\ Dropped(bucket[i], now).last <= time
    BY <1>1 DEF Dropped, BucketsInv, BucketsTypes
  <2> QED BY <1>1, <1>2, <2>1, <2>2, DropBalanced
<1>3. CASE ~ (TooMany /\ bucket[i].has /\ Refilled(bucket[i], now) >= Full)
  <2>1. DropFull(now)[i] = bucket[i]
    BY <1>3 DEF DropFull
  <2> QED BY <1>1, <2>1
<1> QED BY <1>2, <1>3

(* A request takes a token, or finds none, in the window or as its first.    *)
LEMMA AcquireKeepsBalance ==
    ASSUME BucketsInv, NEW q \in Req, Acquire(q)
    PROVE  BucketsInv'
<1> DEFINE i == AddrOf[q]
           now == stamp[q]
           kept == DropFull(now)
           took == Took(TokensAt(kept[i], now))
           full == Used(kept[i], now)
           w == watch.addr
<1>1. /\ now # NoStamp
      /\ stamp' = [stamp EXCEPT ![q] = NoStamp]
      /\ bucket' = [kept EXCEPT ![i] = full]
      /\ watch' \in {Watched(i, kept[i].last, now, took), Opened(i, now, took)}
      /\ time' = time
  BY DEF Acquire, TokensAt, Left, Took, Used
<1>2. i \in Addr /\ now \in Nat /\ now <= time
  BY <1>1, BucketsAssumption DEF BucketsInv, BucketsTypes, NotAhead
<1>3. \A j \in Addr :
         /\ kept[j] \in [tokens : Nat, last : Nat, has : BOOLEAN]
         /\ kept[j].last <= time
         /\ \A t \in Nat, r \in Int :
               Balanced(bucket[j], t, r) => Balanced(kept[j], t, r)
  BY <1>2, CleanupBalanced
<1>4. /\ w \in Addr /\ watch.from \in Nat /\ watch.taken \in Nat /\ watch.back \in Nat
      /\ watch \in [addr : Addr, from : Nat, taken : Nat, back : Nat]
      /\ Longer \in Int /\ time \in Nat
  BY DEF BucketsInv, BucketsTypes, Longer
<1>5. Left(TokensAt(kept[i], now)) \in Nat /\ took \in Nat
  <2>1. TokensAt(kept[i], now) \in Nat
    BY <1>2, <1>3, RefillBounds, FullType DEF TokensAt
  <2> HIDE DEF kept, i, now
  <2> QED BY <2>1, TakeType
<1>6. Elapsed(kept[i].last, now) \in Nat
  <2>1. kept[i].last \in Nat
    BY <1>2, <1>3
  <2> QED BY <1>2, <2>1, ElapsedType
<1>7. kept = [j \in Addr |-> kept[j]]
  BY DEF DropFull
<1>8. full \in [tokens : Nat, last : Nat, has : BOOLEAN] /\ full.last = now
  BY <1>2, <1>5, TRUE \in BOOLEAN DEF Used
<1>9. Balanced(full, took, 0 - now)
  BY <1>2, <1>3, WindowOpensBalanced
<1>10. \A t \in Nat, r \in Int :
          Balanced(kept[i], t, r) => Balanced(full, t + took, r + Elapsed(kept[i].last, now))
  BY <1>2, <1>3, TakeBalanced
<1>11. Balanced(kept[w], watch.taken, Longer)
  BY <1>3, <1>4 DEF BucketsInv, InBalance
<1> HIDE DEF kept, took, full, i, now, w
<1>12. /\ bucket'[i] = full
       /\ \A j \in Addr \ {i} : bucket'[j] = kept[j]
  BY <1>1, <1>2, <1>7
<1>13. bucket' \in [Addr -> [tokens : Nat, last : Nat, has : BOOLEAN]]
  BY <1>1, <1>3, <1>7, <1>8
<1>14. stamp' \in [Req -> Nat \cup {NoStamp}] /\ time' \in Nat
  BY <1>1 DEF BucketsInv, BucketsTypes
<1>15. NotAhead'
  <2>1. \A r \in Req : stamp'[r] <= time
    BY <1>1, <1>4 DEF BucketsInv, BucketsTypes, NotAhead, NoStamp
  <2>2. \A j \in Addr : bucket'[j].last <= time
    BY <1>2, <1>3, <1>8, <1>12
  <2> QED BY <1>1, <2>1, <2>2 DEF NotAhead
<1>16. watch' \in [addr : Addr, from : Nat, taken : Nat, back : Nat]
       /\ Balanced(bucket'[watch'.addr], watch'.taken, watch'.back - watch'.from)
  <2>1. CASE watch' = Opened(i, now, took)
    <3>1. watch' = [addr |-> i, from |-> now, taken |-> took, back |-> 0]
      BY <2>1 DEF Opened
    <3> QED BY <1>2, <1>5, <1>9, <1>12, <3>1
  <2>2. CASE watch' = Watched(i, kept[i].last, now, took) /\ w # i
    <3>1. watch' = watch
      BY <2>2 DEF Watched, w
    <3>2. bucket'[w] = kept[w]
      BY <1>4, <1>12, <2>2
    <3>3. Balanced(kept[w], watch.taken, watch.back - watch.from)
      BY <1>11 DEF Longer
    <3>4. Balanced(bucket'[watch'.addr], watch'.taken, watch'.back - watch'.from)
      BY <3>1, <3>2, <3>3, Zenon DEF w
    <3> QED BY <1>4, <3>1, <3>4
  <2>3. CASE watch' = Watched(i, kept[i].last, now, took) /\ w = i
    <3>1. watch' = [watch EXCEPT !.taken = @ + took,
                                 !.back = @ + Elapsed(kept[i].last, now)]
      BY <2>3 DEF Watched, w
    <3>2. /\ watch' \in [addr : Addr, from : Nat, taken : Nat, back : Nat]
          /\ watch'.addr = w /\ watch'.from = watch.from
          /\ watch'.taken = watch.taken + took
          /\ watch'.back = watch.back + Elapsed(kept[i].last, now)
      <4> DEFINE bk == Elapsed(kept[i].last, now)
      <4>1. bk \in Nat
        BY <1>6
      <4> HIDE DEF bk
      <4>2. watch' = [watch EXCEPT !.taken = @ + took, !.back = @ + bk]
        BY <3>1 DEF bk
      <4>3. watch.taken + took \in Nat /\ watch.back + bk \in Nat
        BY <1>4, <1>5, <4>1
      <4>4. /\ watch' \in [addr : Addr, from : Nat, taken : Nat, back : Nat]
            /\ watch'.addr = watch.addr /\ watch'.from = watch.from
            /\ watch'.taken = watch.taken + took /\ watch'.back = watch.back + bk
        BY <1>4, <4>2, <4>3
      <4> QED BY <4>4 DEF bk, w
    <3>3. watch'.back - watch'.from = Longer + Elapsed(kept[i].last, now)
      BY <1>4, <1>6, <3>2 DEF Longer
    <3>4. Balanced(full, watch.taken + took, Longer + Elapsed(kept[i].last, now))
      BY <1>4, <1>10, <1>11, <2>3
    <3>5. Balanced(bucket'[watch'.addr], watch'.taken, watch'.back - watch'.from)
      BY <1>12, <2>3, <3>2, <3>3, <3>4, Zenon
    <3> QED BY <3>2, <3>5
  <2> QED BY <1>1, <2>1, <2>2, <2>3
<1>17. BucketsTypes'
  BY <1>13, <1>14, <1>16 DEF BucketsTypes
<1>18. InBalance'
  BY <1>16 DEF InBalance, Balanced, Refunds, Longer
<1> QED BY <1>15, <1>17, <1>18 DEF BucketsInv

(* The balance bounds what was taken in the window.                          *)
LEMMA BalanceBoundsRate ==
    ASSUME BucketsInv
    PROVE  RateBound
<1> DEFINE b == bucket[watch.addr]
<1>1. /\ b.tokens \in Nat /\ b.last \in Nat /\ watch.taken \in Nat
      /\ watch.from \in Nat /\ watch.back \in Nat
      /\ Balanced(b, watch.taken, Longer)
  BY DEF BucketsInv, BucketsTypes, InBalance
<1>2. b.last + Longer = b.last - watch.from + watch.back
  BY <1>1 DEF Longer
<1>3. b.last + Longer \in Nat
  BY <1>1 DEF Balanced
<1>4. (b.last + Longer) * PerTick \in Nat /\ watch.taken * Cost \in Nat
  BY <1>1, <1>3, Products
<1>5. watch.taken * Cost <= Full + (b.last + Longer) * PerTick
  BY <1>1, <1>4, FullType DEF Balanced, Refunds
<1> QED BY <1>2, <1>5 DEF RateBound

(* The inductive invariant of the buckets: whatever window is watched, what  *)
(* was taken in it and what is left balance with the burst and the refills.  *)
THEOREM BucketsInvariance == BucketsSpec => []BucketsInv
<1>1. BucketsInv /\ [BucketsNext]_buckets => BucketsInv'
  <2> SUFFICES ASSUME BucketsInv, [BucketsNext]_buckets
               PROVE  BucketsInv'
    OBVIOUS
  <2>1. CASE UNCHANGED buckets
    BY <2>1
    DEF buckets, BucketsInv, BucketsTypes, NotAhead, InBalance, Balanced, Refunds, Longer
  <2>2. CASE Tick
    BY <2>2, TickKeepsBalance
  <2>3. CASE \E r \in Req : ReadClock(r) \/ Acquire(r)
    BY <2>3, ReadClockKeepsBalance, AcquireKeepsBalance
  <2> QED BY <2>1, <2>2, <2>3 DEF BucketsNext
<1> QED BY BucketsInitially, <1>1, PTL DEF BucketsSpec

(* For any rate and burst, an address gets in any window no more tokens than *)
(* its burst and what the time from the window's first stamp to its last     *)
(* refills, the time that stamps went back in it refilled once more          *)
(* (limits.rs:59-92).                                                        *)
THEOREM RateIsBounded == BucketsSpec => []RateBound
  BY BucketsInvariance, BalanceBoundsRate, PTL

(* In a window whose stamps reach the lock in order, the sustained rate that *)
(* limits.rs:3-4 speaks of holds; only stamps that went back break it.       *)
THEOREM RateIsSustainedInOrder ==
    BucketsSpec => [](watch.back = 0 => SustainedRate)
<1>1. BucketsInv => (watch.back = 0 => SustainedRate)
  <2> SUFFICES ASSUME BucketsInv, watch.back = 0
               PROVE  SustainedRate
    OBVIOUS
  <2> DEFINE since == bucket[watch.addr].last - watch.from
             late == time - bucket[watch.addr].last
  <2>1. /\ since \in Nat /\ late \in Nat /\ time - watch.from = since + late
        /\ bucket[watch.addr].last - watch.from + watch.back = since
        /\ watch.taken \in Nat
    BY DEF BucketsInv, BucketsTypes, NotAhead, InBalance, Balanced, Longer
  <2>2. watch.taken * Cost <= Full + since * PerTick
    BY <2>1, BalanceBoundsRate DEF RateBound
  <2> HIDE DEF since, late
  <2>3. (since + late) * PerTick = since * PerTick + late * PerTick
        /\ late * PerTick \in Nat /\ since * PerTick \in Nat /\ watch.taken * Cost \in Nat
    BY <2>1, Products
  <2>4. watch.taken * Cost <= Full + (since + late) * PerTick
    BY <2>2, <2>3, FullType
  <2> QED BY <2>1, <2>4 DEF SustainedRate
<1> QED BY <1>1, BucketsInvariance, PTL
=============================================================================
