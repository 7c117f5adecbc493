--------------------------- MODULE NoteFeedProofs ---------------------------
(***************************************************************************)
(* What a subscriber of the note relay is promised follows from what the   *)
(* abstract feed may do, for any number of notes, pools and clients.       *)
(***************************************************************************)
EXTENDS NoteFeed, TLAPS

Increasing(s) == \A i, j \in DOMAIN s : i < j => s[i] < s[j]

FeedTypes ==
    /\ stored \in SUBSET Note
    /\ got \in [Client -> Seq(Note)]
    /\ paged \in [Client -> SUBSET Note]
    /\ told \in [Client -> stored \cup {0, NotTold}]
    /\ excused \in [Client -> SUBSET Note]

(* A client's events are stored notes, so its cursor is one, or 0. Without   *)
(* it a note could become visible between the last one and the cursor.       *)
EventsStored == \A c \in Client : \A i \in DOMAIN got[c] : got[c][i] \in stored

FeedInv == FeedTypes /\ EventsStored /\ EventsInOrder /\ NoGap

-----------------------------------------------------------------------------
(* Notes are numbers from one.                                               *)
LEMMA NoteNumbers == Note \subseteq Nat /\ NotTold \notin Nat /\ 0 \notin Note
  BY NoteFeedAssumption DEF Note

(* So is an id, or zero for none.                                            *)
LEMMA IdsAreNumbers ==
    ASSUME NEW S \in SUBSET Note, NEW x \in S \cup {0}
    PROVE  x \in Nat
<1>1. CASE x \in S
  BY <1>1, NoteNumbers
<1>2. CASE x = 0
  BY <1>2
<1> QED BY <1>1, <1>2

(* The cursor is the largest id a client received.                           *)
LEMMA CursorIsLast ==
    ASSUME FeedInv, NEW c \in Client
    PROVE  /\ Cursor(c) \in stored \cup {0} /\ Cursor(c) \in Nat
           /\ \A i \in DOMAIN got[c] : got[c][i] <= Cursor(c)
<1>1. got[c] \in Seq(Note)
  BY DEF FeedInv, FeedTypes
<1>2. CASE got[c] = <<>>
  BY <1>1, <1>2 DEF Cursor
<1>3. CASE got[c] # <<>>
  <2>1. Len(got[c]) \in DOMAIN got[c] /\ \A i \in DOMAIN got[c] : i <= Len(got[c])
    BY <1>1, <1>3
  <2>2. Cursor(c) = got[c][Len(got[c])]
    BY <1>3 DEF Cursor
  <2>3. \A i \in DOMAIN got[c] : got[c][i] \in stored /\ got[c][i] \in Nat
    BY NoteNumbers DEF FeedInv, FeedTypes, EventsStored
  <2>4. \A i \in DOMAIN got[c] : i < Len(got[c]) => got[c][i] < got[c][Len(got[c])]
    BY <2>1 DEF FeedInv, EventsInOrder
  <2>5. \A i \in DOMAIN got[c] : i \in Nat
    BY <1>1
  <2> QED BY <1>1, <2>1, <2>2, <2>3, <2>4, <2>5
<1> QED BY <1>2, <1>3

(* What a client trusts is a stored id.                                      *)
LEMMA TrustedIsStored ==
    ASSUME FeedInv, NEW c \in Client
    PROVE  Trusted(c) \in stored \cup {0} /\ Trusted(c) \in Nat
<1>1. told[c] \in stored \cup {0, NotTold} /\ stored \subseteq Nat
  BY NoteNumbers DEF FeedInv, FeedTypes
<1>2. CASE told[c] = NotTold
  BY <1>2, CursorIsLast DEF Trusted
<1>3. CASE told[c] # NotTold
  <2>1. Trusted(c) = told[c] /\ told[c] \in stored \cup {0}
    BY <1>1, <1>3, Zenon DEF Trusted
  <2> QED BY <2>1, IdsAreNumbers DEF FeedInv, FeedTypes
<1> QED BY <1>2, <1>3

(* Appending an id beyond the cursor keeps the order.                        *)
LEMMA AppendKeepsOrder ==
    ASSUME NEW s \in Seq(Note), Increasing(s), NEW n \in Note,
           \A i \in DOMAIN s : s[i] < n
    PROVE  Append(s, n) \in Seq(Note) /\ Increasing(Append(s, n))
<1> DEFINE t == Append(s, n)
<1>1. t \in Seq(Note) /\ DOMAIN s = 1..Len(s) /\ DOMAIN t = 1..(Len(s) + 1)
      /\ Len(s) \in Nat
  OBVIOUS
<1>2. /\ \A i \in 1..Len(s) : t[i] = s[i]
      /\ t[Len(s) + 1] = n
  OBVIOUS
<1> HIDE DEF t
<1>3. ASSUME NEW i \in DOMAIN t, NEW j \in DOMAIN t, i < j
      PROVE  t[i] < t[j]
  <2>1. i \in 1..Len(s) /\ t[i] = s[i]
    BY <1>1, <1>2, <1>3
  <2>2. CASE j = Len(s) + 1
    BY <1>1, <1>2, <2>1, <2>2
  <2>3. CASE j # Len(s) + 1
    <3>1. j \in 1..Len(s) /\ t[j] = s[j]
      BY <1>1, <1>2, <2>3
    <3> QED BY <1>1, <1>3, <2>1, <3>1 DEF Increasing
  <2> QED BY <2>2, <2>3
<1>4. Increasing(t)
  BY <1>3 DEF Increasing
<1> QED BY <1>1, <1>4 DEF t

(* What one step of c's events does to what c has.                           *)
LEMMA EventAppended ==
    ASSUME FeedInv, NEW c \in Client, NEW n \in stored, Cursor(c) < n,
           got' = [got EXCEPT ![c] = Append(@, n)]
    PROVE  /\ got' \in [Client -> Seq(Note)]
           /\ EventsInOrder'
           /\ \A d \in Client : \A i \in DOMAIN got'[d] : got'[d][i] \in stored
           /\ Cursor(c)' = n
           /\ \A d \in Client \ {c} : got'[d] = got[d] /\ Cursor(d)' = Cursor(d)
           /\ {got'[c][i] : i \in DOMAIN got'[c]} = {got[c][i] : i \in DOMAIN got[c]} \cup {n}
<1>1. got \in [Client -> Seq(Note)] /\ got[c] \in Seq(Note) /\ n \in Note /\ n \in Nat
  BY NoteNumbers DEF FeedInv, FeedTypes
<1>2. /\ got'[c] = Append(got[c], n) /\ \A d \in Client \ {c} : got'[d] = got[d]
      /\ got' \in [Client -> Seq(Note)]
  BY <1>1
<1>3. \A i \in DOMAIN got[c] : got[c][i] < n
  <2> SUFFICES ASSUME NEW i \in DOMAIN got[c]
               PROVE  got[c][i] < n
    OBVIOUS
  <2>1. got[c][i] \in Note
    BY <1>1
  <2>2. got[c][i] \in Nat
    BY <2>1, NoteNumbers
  <2>3. got[c][i] <= Cursor(c) /\ Cursor(c) \in Nat
    BY CursorIsLast
  <2> QED BY <1>1, <2>2, <2>3
<1>4. Increasing(got'[c])
  BY <1>1, <1>2, <1>3, AppendKeepsOrder DEF FeedInv, EventsInOrder, Increasing
<1>5. EventsInOrder'
  BY <1>2, <1>4 DEF FeedInv, EventsInOrder, Increasing
<1>6. /\ DOMAIN got'[c] = DOMAIN got[c] \cup {Len(got[c]) + 1}
      /\ got'[c][Len(got[c]) + 1] = n /\ Len(got'[c]) = Len(got[c]) + 1
      /\ \A i \in DOMAIN got[c] : got'[c][i] = got[c][i]
  BY <1>1, <1>2
<1>7. Cursor(c)' = n
  BY <1>1, <1>2, <1>6 DEF Cursor
<1>8. \A d \in Client \ {c} : Cursor(d)' = Cursor(d)
  BY <1>2 DEF Cursor
<1>9. \A d \in Client : \A i \in DOMAIN got'[d] : got'[d][i] \in stored
  BY <1>2, <1>6 DEF FeedInv, EventsStored
<1>10. {got'[c][i] : i \in DOMAIN got'[c]} = {got[c][i] : i \in DOMAIN got[c]} \cup {n}
  BY <1>6
<1> QED BY <1>2, <1>5, <1>7, <1>8, <1>9, <1>10

-----------------------------------------------------------------------------
(* At the start nothing is stored or told.                                   *)
LEMMA FeedInitially ==
    ASSUME FeedInit
    PROVE  FeedInv
<1>1. FeedTypes
  BY DEF FeedInit, FeedTypes
<1>2. EventsStored /\ EventsInOrder
  BY DEF FeedInit, EventsStored, EventsInOrder
<1>3. NoGap
  BY DEF FeedInit, NoGap, Owed
<1> QED BY <1>1, <1>2, <1>3 DEF FeedInv

(* A new row is beyond what anybody trusts, or it is excused.                *)
LEMMA StoreKeepsFeed ==
    ASSUME FeedInv, NEW n \in Note, Store(n)
    PROVE  FeedInv'
<1>1. stored' = stored \cup {n} /\ n \notin stored /\ UNCHANGED <<got, paged, told>>
  BY DEF Store
<1>2. excused' \in [Client -> SUBSET Note]
      /\ \A c \in Client :
            /\ excused[c] \subseteq excused'[c]
            /\ (\E m \in stored : n < m) => n \in excused'[c]
  BY DEF Store, FeedInv, FeedTypes
<1>3. FeedTypes'
  BY <1>1, <1>2 DEF FeedInv, FeedTypes
<1>4. EventsStored' /\ EventsInOrder'
  BY <1>1 DEF FeedInv, EventsStored, EventsInOrder
<1>5. NoGap'
  <2> SUFFICES ASSUME NEW c \in Client, NEW m \in Owed(c)'
               PROVE  Trusted(c)' < m
    BY DEF NoGap
  <2>1. Trusted(c)' = Trusted(c) /\ Have(c)' = Have(c)
    BY <1>1 DEF Trusted, Cursor, Have
  <2>2. Trusted(c) \in stored \cup {0} /\ Trusted(c) \in Nat
    BY TrustedIsStored
  <2>3. CASE m \in stored
    <3>1. m \in Owed(c)
      BY <1>2, <2>1, <2>3 DEF Owed, Wanted
    <3> QED BY <2>1, <3>1 DEF FeedInv, NoGap
  <2>4. CASE m \notin stored
    <3>1. m = n /\ m \notin excused'[c] /\ m \in Nat
      BY <1>1, <2>4, NoteNumbers DEF Owed
    <3>2. ~ (n < Trusted(c))
      <4>1. CASE Trusted(c) \in stored
        BY <1>2, <3>1, <4>1
      <4>2. CASE Trusted(c) = 0
        BY <3>1, <4>2
      <4> QED BY <2>2, <4>1, <4>2
    <3>3. Trusted(c) # n
      BY <1>1, <2>2, NoteNumbers
    <3> QED BY <2>1, <2>2, <3>1, <3>2, <3>3
  <2> QED BY <2>3, <2>4
<1> QED BY <1>3, <1>4, <1>5 DEF FeedInv

(* Fewer notes are owed.                                                     *)
LEMMA ExcuseKeepsFeed ==
    ASSUME FeedInv, Excuse
    PROVE  FeedInv'
<1>1. /\ excused' \in [Client -> SUBSET Note] /\ UNCHANGED <<stored, got, paged, told>>
      /\ \A c \in Client : excused[c] \subseteq excused'[c]
  BY DEF Excuse
<1>2. FeedTypes' /\ EventsStored' /\ EventsInOrder'
  BY <1>1 DEF FeedInv, FeedTypes, EventsStored, EventsInOrder
<1>3. \A c \in Client : Owed(c)' \subseteq Owed(c) /\ Trusted(c)' = Trusted(c)
  BY <1>1 DEF Owed, Wanted, Have, Trusted, Cursor
<1>4. NoGap'
  BY <1>3 DEF FeedInv, NoGap
<1> QED BY <1>2, <1>4 DEF FeedInv

(* The next event is the first owed, or the client has to re-page anyway.    *)
LEMMA DeliverKeepsFeed ==
    ASSUME FeedInv, NEW c \in Client, NEW n \in Note, Deliver(c, n)
    PROVE  FeedInv'
<1>1. /\ n \in stored /\ Cursor(c) < n
      /\ told[c] = NotTold => \A m \in Owed(c) : n <= m
      /\ got' = [got EXCEPT ![c] = Append(@, n)]
      /\ UNCHANGED <<stored, paged, told, excused>>
  BY DEF Deliver
<1>2. /\ got' \in [Client -> Seq(Note)] /\ EventsInOrder'
      /\ \A d \in Client : \A i \in DOMAIN got'[d] : got'[d][i] \in stored
      /\ Cursor(c)' = n
      /\ \A d \in Client \ {c} : got'[d] = got[d] /\ Cursor(d)' = Cursor(d)
      /\ {got'[c][i] : i \in DOMAIN got'[c]} = {got[c][i] : i \in DOMAIN got[c]} \cup {n}
  BY <1>1, EventAppended
<1>3. FeedTypes' /\ EventsStored'
  BY <1>1, <1>2 DEF FeedInv, FeedTypes, EventsStored
<1>4. NoGap'
  <2> SUFFICES ASSUME NEW d \in Client, NEW m \in Owed(d)'
               PROVE  Trusted(d)' < m
    BY DEF NoGap
  <2>1. CASE d # c
    <3>1. m \in Owed(d) /\ Trusted(d)' = Trusted(d)
      BY <1>1, <1>2, <2>1 DEF Owed, Wanted, Have, Trusted
    <3> QED BY <3>1 DEF FeedInv, NoGap
  <2>2. CASE d = c
    <3>1. m \in Owed(c) /\ m # n
      BY <1>1, <1>2, <2>2 DEF Owed, Wanted, Have
    <3>2. m \in Nat /\ n \in Nat
      BY <3>1, NoteNumbers DEF Owed, FeedInv, FeedTypes
    <3>3. CASE told[c] = NotTold
      BY <1>1, <1>2, <2>2, <3>1, <3>2, <3>3 DEF Trusted
    <3>4. CASE told[c] # NotTold
      BY <1>1, <2>2, <3>1, <3>4 DEF Trusted, FeedInv, NoGap
    <3> QED BY <3>3, <3>4
  <2> QED BY <2>1, <2>2
<1> QED BY <1>2, <1>3, <1>4 DEF FeedInv

(* Told to re-page, a client relies on no more than before.                  *)
LEMMA ResyncKeepsFeed ==
    ASSUME FeedInv, NEW c \in Client, Resync(c)
    PROVE  FeedInv'
<1>1. told' = [told EXCEPT ![c] = RepageFrom(c)] /\ UNCHANGED <<stored, got, paged, excused>>
  BY DEF Resync
<1>2. Cursor(c) \in stored \cup {0} /\ Cursor(c) \in Nat
  BY CursorIsLast
<1>3. told \in [Client -> stored \cup {0, NotTold}] /\ stored \subseteq Nat
  BY NoteNumbers DEF FeedInv, FeedTypes
<1>4. RepageFrom(c) \in stored \cup {0}
  BY <1>2, <1>3 DEF RepageFrom
<1>5. RepageFrom(c) <= Trusted(c) /\ RepageFrom(c) # NotTold
  <2>1. CASE told[c] = NotTold
    BY <1>2, <2>1, NoteNumbers DEF RepageFrom, Trusted
  <2>2. CASE told[c] # NotTold
    <3>1. told[c] \in Nat
      <4>1. told[c] \in stored \cup {0}
        BY <1>3, <2>2, Zenon
      <4> QED BY <4>1, IdsAreNumbers DEF FeedInv, FeedTypes
    <3> QED BY <1>2, <2>2, <3>1, NoteNumbers DEF RepageFrom, Trusted
  <2> QED BY <2>1, <2>2
<1>6. FeedTypes' /\ EventsStored' /\ EventsInOrder'
  BY <1>1, <1>4 DEF FeedInv, FeedTypes, EventsStored, EventsInOrder
<1>7. NoGap'
  <2> SUFFICES ASSUME NEW d \in Client, NEW m \in Owed(d)'
               PROVE  Trusted(d)' < m
    BY DEF NoGap
  <2>1. m \in Owed(d) /\ m \in Nat /\ Trusted(d) < m
    BY <1>1, <1>3 DEF Owed, Wanted, Have, FeedInv, NoGap
  <2>2. CASE d # c
    <3>1. Trusted(d)' = Trusted(d)
      BY <1>1, <1>3, <2>2 DEF Trusted, Cursor
    <3> QED BY <2>1, <3>1
  <2>3. CASE d = c
    <3>1. Trusted(c)' = RepageFrom(c)
      BY <1>1, <1>3, <1>5 DEF Trusted
    <3>2. Trusted(c) \in Nat /\ RepageFrom(c) \in Nat
      <4>1. RepageFrom(c) \in Nat
        BY <1>4, IdsAreNumbers DEF FeedInv, FeedTypes
      <4> QED BY <4>1, TrustedIsStored
    <3> QED BY <1>5, <2>1, <2>3, <3>1, <3>2
  <2> QED BY <2>2, <2>3
<1> QED BY <1>6, <1>7 DEF FeedInv

(* Read on, a client relies on no more than it has.                          *)
LEMMA RereadKeepsFeed ==
    ASSUME FeedInv, NEW c \in Client, Reread(c)
    PROVE  FeedInv'
<1>1. PICK rows \in SUBSET stored, t \in stored \cup {NotTold} :
         /\ paged' = [paged EXCEPT ![c] = @ \cup rows]
         /\ told' = [told EXCEPT ![c] = t]
         /\ \A n \in Owed(c) \ rows : (IF t = NotTold THEN Cursor(c) ELSE t) < n
  BY DEF Reread
<1>2. UNCHANGED <<stored, got, excused>>
  BY DEF Reread
<1>3. paged \in [Client -> SUBSET Note] /\ told \in [Client -> stored \cup {0, NotTold}]
      /\ stored \in SUBSET Note
  BY DEF FeedInv, FeedTypes
<1>4. FeedTypes'
  BY <1>1, <1>2, <1>3 DEF FeedInv, FeedTypes
<1>5. EventsStored' /\ EventsInOrder'
  BY <1>2 DEF FeedInv, EventsStored, EventsInOrder
<1>6. NoGap'
  <2> SUFFICES ASSUME NEW d \in Client, NEW m \in Owed(d)'
               PROVE  Trusted(d)' < m
    BY DEF NoGap
  <2>1. CASE d # c
    <3>1. m \in Owed(d) /\ Trusted(d)' = Trusted(d)
      BY <1>1, <1>2, <1>3, <2>1 DEF Owed, Wanted, Have, Trusted, Cursor
    <3> QED BY <3>1 DEF FeedInv, NoGap
  <2>2. CASE d = c
    <3>1. m \in Owed(c) \ rows
      BY <1>1, <1>2, <1>3, <2>2 DEF Owed, Wanted, Have
    <3>2. Trusted(c)' = IF t = NotTold THEN Cursor(c) ELSE t
      BY <1>1, <1>2, <1>3 DEF Trusted, Cursor
    <3> QED BY <1>1, <2>2, <3>1, <3>2
  <2> QED BY <2>1, <2>2
<1> QED BY <1>4, <1>5, <1>6 DEF FeedInv

(* Every step of the feed, and none, keeps the invariant.                    *)
LEMMA FeedStepKeeps ==
    ASSUME FeedInv, [FeedNext]_feed
    PROVE  FeedInv'
<1>1. CASE UNCHANGED feed
  BY <1>1
  DEF feed, FeedInv, FeedTypes, EventsStored, EventsInOrder, NoGap, Owed, Wanted, Have,
      Trusted, Cursor
<1>2. CASE FeedNext
  BY <1>2, StoreKeepsFeed, ExcuseKeepsFeed, DeliverKeepsFeed, ResyncKeepsFeed,
     RereadKeepsFeed DEF FeedNext
<1> QED BY <1>1, <1>2

(* In the abstract feed, for any clients, filters and notes, nobody misses a *)
(* note behind what it relies on, and events come in increasing id order     *)
(* (notes.rs:82-89).                                                         *)
THEOREM FeedKeepsPromise == FeedSpec => [](NoGap /\ EventsInOrder)
<1>1. FeedInv /\ [FeedNext]_feed => FeedInv'
  BY FeedStepKeeps
<1>2. FeedInv => NoGap /\ EventsInOrder
  BY DEF FeedInv
<1> QED BY FeedInitially, <1>1, <1>2, PTL DEF FeedSpec
=============================================================================
