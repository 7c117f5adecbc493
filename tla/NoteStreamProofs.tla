-------------------------- MODULE NoteStreamProofs --------------------------
(***************************************************************************)
(* The relay of NoteStream implements NoteFeed, for any number of notes,   *)
(* indexers and subscribers and any page and channel sizes; with the       *)
(* invariant of the feed, its clients miss nothing behind what they rely   *)
(* on.                                                                     *)
(***************************************************************************)
EXTENDS NoteStream, NoteFeedProofs, FiniteSetTheorems, WellFoundedInduction, TLAPS

(* Every id below nextId is drawn once: it is stored, being inserted, or     *)
(* lost.                                                                     *)
IdsDrawn ==
    /\ \A n \in stored \cup inserting : n < nextId
    /\ stored \cap inserting = {}

(* The channel holds stored notes in order, none beyond lastId.              *)
ChannelInOrder ==
    /\ lastId \in stored \cup {0}
    /\ Increasing(sent)
    /\ \A i \in DOMAIN sent : sent[i] \in stored /\ sent[i] <= lastId
    /\ at = "start" => lastId = 0

(* The poller's page is what comes next, but for rows that became visible    *)
(* behind it.                                                                *)
BatchIsNext ==
    /\ batch \subseteq After(lastId)
    /\ at = "send" <=> batch # {}
    /\ \A c \in Client : \A n \in After(lastId) \ batch, k \in batch :
          n < k => n \in excused[c]

(* A stream's place: what it replays comes after the cursor and up to        *)
(* lastSeen.                                                                 *)
InPlace(c) ==
    /\ rx[c] <= Len(sent) + 1
    /\ conn[c] # "open" => replay[c] = {} /\ ~ overflow[c]
    /\ lastSeen[c] \in stored \cup {0}
    /\ conn[c] = "open" => Cursor(c) <= lastSeen[c]
    /\ replay[c] \subseteq {n \in WantedAfter(c, Cursor(c)) : n <= lastSeen[c]}

(* What an open stream owes its client lies in the replay, in the channel or *)
(* ahead of the poller, unless the client has to re-page anyway.             *)
InReplay(c) == \A n \in Owed(c) : n <= lastSeen[c] => n \in replay[c]
Ahead(c) ==
    \A n \in Owed(c) : lastSeen[c] < n =>
        lastId < n \/ \E i \in rx[c]..Len(sent) : sent[i] = n
OnItsWay(c) ==
    conn[c] = "open" /\ told[c] = NotTold =>
        InReplay(c) /\ (~ overflow[c] => Ahead(c))

StreamInv ==
    /\ StreamTypeOK /\ FeedInv
    /\ IdsDrawn /\ ChannelInOrder /\ BatchIsNext
    /\ \A c \in Client : InPlace(c) /\ OnItsWay(c)

-----------------------------------------------------------------------------
(* Pages of rows in id order.                                                *)
LEMMA NoteSetsFinite ==
    ASSUME NEW S \in SUBSET Note
    PROVE  IsFiniteSet(S) /\ Cardinality(S) \in Nat
<1>1. IsFiniteSet(1..MaxNote)
  BY NoteFeedAssumption, FS_Interval
<1>2. IsFiniteSet(S)
  BY <1>1, FS_Subset DEF Note
<1> QED BY <1>2, FS_CardinalityType

(* Among the sets F(n) of a nonempty set of notes, one contains no other.    *)
LEMMA SmallestSet ==
    ASSUME NEW S \in SUBSET Note, S # {}, NEW F \in [S -> SUBSET S]
    PROVE  \E n \in S : \A m \in S : F[m] \subseteq F[n] => F[m] = F[n]
<1> DEFINE T == {F[n] : n \in S}
<1>1. T \subseteq FiniteSubsetsOf(S) /\ T # {}
  BY NoteSetsFinite DEF FiniteSubsetsOf
<1>2. IsWellFoundedOn(StrictSubsetOrdering(S), FiniteSubsetsOf(S))
  BY FS_StrictSubsetOrderingWellFounded
<1>3. PICK x \in T : \A y \in T : ~ (<<y, x>> \in StrictSubsetOrdering(S))
  <2> HIDE DEF T
  <2> QED BY <1>1, <1>2, WFMin
<1>4. PICK n \in S : x = F[n]
  BY <1>3
<1>5. ASSUME NEW m \in S, F[m] \subseteq F[n], F[m] # F[n]
      PROVE  FALSE
  <2>1. <<F[m], F[n]>> \in StrictSubsetOrdering(S)
    BY <1>5 DEF StrictSubsetOrdering
  <2> QED BY <1>3, <1>4, <2>1
<1> QED BY <1>5

(* The earliest of some notes is one of them, and first.                     *)
LEMMA EarliestIsFirst ==
    ASSUME NEW S \in SUBSET Note, S # {}
    PROVE  Earliest(S) \in S /\ \A m \in S : Earliest(S) <= m
<1> DEFINE F == [n \in S |-> {m \in S : m <= n}]
<1>1. PICK n \in S : \A m \in S : F[m] \subseteq F[n] => F[m] = F[n]
  <2>1. F \in [S -> SUBSET S]
    OBVIOUS
  <2> HIDE DEF F
  <2> QED BY <2>1, SmallestSet
<1>2. \A m \in S : n <= m
  <2> SUFFICES ASSUME NEW m \in S, ~ (n <= m)
               PROVE  FALSE
    OBVIOUS
  <2>1. \A x \in S : x \in Nat
    BY NoteNumbers
  <2>2. n \notin F[m] /\ \A x \in S : x <= m => x <= n
    BY <2>1
  <2>3. F[m] \subseteq F[n] /\ n \in F[n]
    BY <2>1, <2>2
  <2> QED BY <1>1, <2>2, <2>3
<1> QED BY <1>2, Zenon DEF Earliest

(* And the newest is the last.                                               *)
LEMMA NewestIsLast ==
    ASSUME NEW S \in SUBSET Note, S # {}
    PROVE  Newest(S) \in S /\ \A m \in S : m <= Newest(S)
<1> DEFINE F == [n \in S |-> {m \in S : n <= m}]
<1>1. PICK n \in S : \A m \in S : F[m] \subseteq F[n] => F[m] = F[n]
  <2>1. F \in [S -> SUBSET S]
    OBVIOUS
  <2> HIDE DEF F
  <2> QED BY <2>1, SmallestSet
<1>2. \A m \in S : m <= n
  <2> SUFFICES ASSUME NEW m \in S, ~ (m <= n)
               PROVE  FALSE
    OBVIOUS
  <2>1. \A x \in S : x \in Nat
    BY NoteNumbers
  <2>2. n \notin F[m] /\ \A x \in S : m <= x => n <= x
    BY <2>1
  <2>3. F[m] \subseteq F[n] /\ n \in F[n]
    BY <2>1, <2>2
  <2> QED BY <1>1, <2>2, <2>3
<1>3. Newest(S) = CHOOSE k \in S : \A m \in S : m <= k
  BY DEF Newest
<1> QED BY <1>2, <1>3, Zenon

(* A page holds the first rows; one that is not full holds them all, and an  *)
(* empty one means there are none.                                           *)
LEMMA PageIsFirst ==
    ASSUME NEW S \in SUBSET Note, NEW k \in Nat \ {0}
    PROVE  /\ FirstOf(S, k) \subseteq S
           /\ \A n \in FirstOf(S, k), m \in S : m < n => m \in FirstOf(S, k)
           /\ ~ IsFull(S, k) => FirstOf(S, k) = S
           /\ FirstOf(S, k) = {} => S = {}
           /\ IsFull(S, k) => S # {}
           /\ IsFull(S, k) \in BOOLEAN
<1> DEFINE Below(n) == {m \in S : m < n}
<1>1. FirstOf(S, k) = {n \in S : Cardinality(Below(n)) < k}
  BY DEF FirstOf
<1>2. \A n \in S : n \in Nat
  BY NoteNumbers
<1>3. \A n \in S : Cardinality(Below(n)) \in Nat /\ Cardinality(Below(n)) <= Cardinality(S)
  <2> SUFFICES ASSUME NEW n \in S
               PROVE  Cardinality(Below(n)) \in Nat /\ Cardinality(Below(n)) <= Cardinality(S)
    OBVIOUS
  <2>1. Below(n) \in SUBSET S /\ Below(n) \in SUBSET Note
    OBVIOUS
  <2> HIDE DEF Below
  <2> QED BY <2>1, NoteSetsFinite, FS_Subset
<1>4. ASSUME NEW n \in FirstOf(S, k), NEW m \in S, m < n
      PROVE  m \in FirstOf(S, k)
  <2>1. n \in S /\ Cardinality(Below(n)) < k
    BY <1>1
  <2>2. Below(m) \in SUBSET Below(n) /\ Below(n) \in SUBSET Note
    <3>1. \A x \in S : x < m => x < n
      BY <1>2, <1>4, <2>1
    <3> QED BY <3>1
  <2>3. Cardinality(Below(m)) <= Cardinality(Below(n))
    <3> HIDE DEF Below
    <3> QED BY <2>2, NoteSetsFinite, FS_Subset
  <2>4. Cardinality(Below(m)) < k
    <3>1. Cardinality(Below(m)) \in Nat /\ Cardinality(Below(n)) \in Nat
      BY <1>3, <2>1
    <3> HIDE DEF Below
    <3> QED BY <2>1, <2>3, <3>1
  <2> QED BY <1>1, <2>4
<1>5. ASSUME ~ IsFull(S, k)
      PROVE  FirstOf(S, k) = S
  <2>1. Cardinality(S) < k /\ Cardinality(S) \in Nat
    BY <1>5, NoteSetsFinite DEF IsFull
  <2>2. \A n \in S : Cardinality(Below(n)) < k
    <3> HIDE DEF Below
    <3> QED BY <1>3, <2>1
  <2> QED BY <1>1, <2>2
<1>6. ASSUME S # {}
      PROVE  FirstOf(S, k) # {}
  <2>1. Earliest(S) \in S /\ \A m \in S : Earliest(S) <= m
    BY <1>6, EarliestIsFirst
  <2>2. Below(Earliest(S)) = {}
    <3>1. \A x \in S : ~ (x < Earliest(S))
      BY <1>2, <2>1
    <3> QED BY <3>1
  <2>3. Cardinality(Below(Earliest(S))) < k
    BY <2>2, FS_EmptySet
  <2> QED BY <1>1, <2>1, <2>3
<1>7. ASSUME IsFull(S, k)
      PROVE  S # {}
  BY <1>7, FS_EmptySet DEF IsFull
<1>8. IsFull(S, k) \in BOOLEAN
  <2>1. Cardinality(S) \in Int /\ k \in Int
    BY NoteSetsFinite
  <2> QED BY <2>1 DEF IsFull
<1> QED BY <1>1, <1>4, <1>5, <1>6, <1>7, <1>8

-----------------------------------------------------------------------------
(* All places in the stream are ids.                                         *)
LEMMA PlacesAreNumbers ==
    ASSUME StreamInv
    PROVE  /\ lastId \in Nat
           /\ \A n \in stored : n \in Note /\ n \in Nat /\ 0 < n
           /\ \A c \in Client : /\ Cursor(c) \in stored \cup {0} /\ Cursor(c) \in Nat
                                /\ lastSeen[c] \in Nat /\ rx[c] \in Nat \ {0}
                                /\ Owed(c) \subseteq stored
<1>1. stored \in SUBSET Note /\ FeedInv
  BY DEF StreamInv, FeedInv, FeedTypes
<1>2. lastId \in Nat
  BY <1>1, IdsAreNumbers DEF StreamInv, ChannelInOrder
<1>3. \A n \in stored : n \in Note /\ n \in Nat /\ 0 < n
  BY <1>1, NoteFeedAssumption DEF Note
<1>4. \A c \in Client : lastSeen[c] \in Nat
  BY <1>1, IdsAreNumbers DEF StreamInv, InPlace
<1>5. \A c \in Client : rx[c] \in Nat \ {0} /\ Owed(c) \subseteq stored
  BY DEF StreamInv, StreamTypeOK, Owed
<1> QED BY <1>1, <1>2, <1>3, <1>4, <1>5, CursorIsLast

(* A stream nothing happens to keeps its place and what is on its way.       *)
LEMMA StreamStays ==
    ASSUME StreamInv, NEW d \in Client, UNCHANGED <<stored, sent, lastId>>,
           conn'[d] = conn[d], replay'[d] = replay[d], overflow'[d] = overflow[d],
           lastSeen'[d] = lastSeen[d], rx'[d] = rx[d],
           got'[d] = got[d], paged'[d] = paged[d], told'[d] = told[d],
           excused[d] \subseteq excused'[d]
    PROVE  InPlace(d)' /\ OnItsWay(d)'
<1>1. Owed(d)' \subseteq Owed(d) /\ Cursor(d)' = Cursor(d)
  BY DEF Owed, Wanted, Have, Cursor
<1>2. InPlace(d)'
  BY <1>1 DEF StreamInv, InPlace, WantedAfter, Wanted
<1>3. OnItsWay(d)'
  <2>1. OnItsWay(d)
    BY DEF StreamInv
  <2> QED BY <1>1, <2>1 DEF OnItsWay, InReplay, Ahead
<1> QED BY <1>2, <1>3

(* A stream that is not open owes nothing yet, and neither does one whose    *)
(* client has to re-page.                                                    *)
LEMMA NothingOnItsWay ==
    ASSUME NEW d \in Client, (conn[d] # "open" \/ told[d] # NotTold)'
    PROVE  OnItsWay(d)'
  BY DEF OnItsWay

-----------------------------------------------------------------------------
(* At the start nobody listens.                                              *)
LEMMA StreamInitially ==
    ASSUME Init
    PROVE  StreamInv
<1>1. FeedInit /\ FeedInv
  BY FeedInitially DEF Init
<1>2. StreamTypeOK
  <2>1. /\ MaxNote \in Nat /\ Polls \in Nat /\ MaxFaults \in Nat
        /\ 0 \in 0..MaxNote /\ 0 \in 0..Polls /\ 0 \in 0..MaxFaults /\ 1 \in 1..(MaxNote + 1)
    BY NoteFeedAssumption, NoteStreamAssumption
  <2>2. /\ lastSeen \in [Client -> 0..MaxNote] /\ rx \in [Client -> Nat \ {0}]
        /\ replay \in [Client -> SUBSET Note] /\ overflow \in [Client -> BOOLEAN]
        /\ conn \in [Client -> {"off", "replay", "open"}]
    BY <2>1 DEF Init
  <2>3. /\ got \in [Client -> Seq(Note)] /\ paged \in [Client -> SUBSET Note]
        /\ told \in [Client -> 0..MaxNote \cup {NotTold}] /\ excused \in [Client -> SUBSET Note]
    BY <1>1 DEF FeedInit
  <2>4. /\ stored \subseteq Note /\ inserting \subseteq Note /\ nextId \in 1..(MaxNote + 1)
        /\ batch \subseteq Note /\ sent \in Seq(Note)
    BY <2>1, <1>1 DEF Init, FeedInit
  <2>5. /\ at \in {"start", "listen", "select", "send", "wait", "sleep"}
        /\ lastId \in 0..MaxNote /\ more \in BOOLEAN /\ polls \in 0..Polls
        /\ faults \in 0..MaxFaults
    BY <2>1 DEF Init
  <2> QED BY <2>2, <2>3, <2>4, <2>5, Zenon DEF StreamTypeOK
<1>3. IdsDrawn /\ ChannelInOrder /\ BatchIsNext
  BY <1>1 DEF Init, FeedInit, IdsDrawn, ChannelInOrder, Increasing, BatchIsNext, After
<1>4. \A c \in Client : InPlace(c) /\ OnItsWay(c)
  <2> SUFFICES ASSUME NEW c \in Client
               PROVE  InPlace(c) /\ OnItsWay(c)
    OBVIOUS
  <2>1. rx[c] = 1 /\ sent = <<>> /\ conn[c] = "off" /\ replay[c] = {}
        /\ overflow[c] = FALSE /\ lastSeen[c] = 0
    BY DEF Init
  <2> QED BY <2>1 DEF InPlace, OnItsWay
<1> QED BY <1>1, <1>2, <1>3, <1>4 DEF StreamInv

(* A transaction draws an id.                                                *)
LEMMA DrawIdKeeps ==
    ASSUME StreamInv, DrawId
    PROVE  [FeedNext]_feed /\ StreamInv'
<1> USE DEF DrawId, table, poller, stream, client
<1>1. UNCHANGED feed
  BY DEF feed
<1>2. FeedInv'
  BY <1>1, FeedStepKeeps DEF StreamInv
<1>3. StreamTypeOK'
  BY NoteFeedAssumption DEF StreamInv, StreamTypeOK, Note
<1>4. IdsDrawn'
  <2>1. nextId \in Nat /\ \A n \in stored \cup inserting : n \in Nat
    BY NoteFeedAssumption DEF StreamInv, StreamTypeOK, Note
  <2> QED BY <2>1 DEF StreamInv, IdsDrawn
<1>5. ChannelInOrder' /\ BatchIsNext'
  BY DEF StreamInv, ChannelInOrder, Increasing, BatchIsNext, After
<1>6. \A c \in Client : InPlace(c)' /\ OnItsWay(c)'
  BY StreamStays
<1> QED BY <1>1, <1>2, <1>3, <1>4, <1>5, <1>6 DEF StreamInv

(* A new row is ahead of the poller, or nobody is promised it.               *)
LEMMA CommitNoteKeeps ==
    ASSUME StreamInv, NEW n \in inserting, CommitNote(n)
    PROVE  [FeedNext]_feed /\ StreamInv'
<1> USE DEF CommitNote, poller, stream
<1>1. n \in Note /\ Store(n)
  BY DEF StreamInv, StreamTypeOK
<1>2. [FeedNext]_feed
  BY <1>1 DEF FeedNext
<1>3. FeedInv'
  BY <1>2, FeedStepKeeps DEF StreamInv
<1>4. /\ stored' = stored \cup {n} /\ n \notin stored /\ UNCHANGED <<got, paged, told>>
      /\ \A c \in Client : /\ excused[c] \subseteq excused'[c]
                           /\ (\E m \in stored : n < m) => n \in excused'[c]
  BY <1>1 DEF Store, StreamInv, StreamTypeOK
<1>5. StreamTypeOK'
  <2>1. UNCHANGED <<nextId, at, lastId, batch, more, polls, sent, conn, replay, overflow,
                    lastSeen, rx, faults>> /\ inserting' \subseteq inserting
    OBVIOUS
  <2> QED BY <1>1, <1>3, <1>4, <2>1 DEF StreamInv, StreamTypeOK, FeedInv, FeedTypes
<1>6. IdsDrawn' /\ ChannelInOrder'
  BY <1>4 DEF StreamInv, IdsDrawn, ChannelInOrder, Increasing
<1>7. BatchIsNext'
  <2>1. batch' = batch /\ at' = at /\ lastId' = lastId
    OBVIOUS
  <2>2. batch \subseteq After(lastId)' /\ After(lastId)' \subseteq After(lastId) \cup {n}
    BY <1>4, <2>1 DEF StreamInv, BatchIsNext, After
  <2>3. ASSUME NEW c \in Client, NEW m \in After(lastId)' \ batch, NEW k \in batch, m < k
        PROVE  m \in excused'[c]
    <3>1. k \in stored
      BY DEF StreamInv, BatchIsNext, After
    <3>2. CASE m = n
      BY <1>4, <2>3, <3>1, <3>2
    <3>3. CASE m # n
      BY <1>4, <2>2, <2>3, <3>3 DEF StreamInv, BatchIsNext
    <3> QED BY <3>2, <3>3
  <2> QED BY <2>1, <2>2, <2>3 DEF StreamInv, BatchIsNext
<1>8. ASSUME NEW c \in Client
      PROVE  InPlace(c)' /\ OnItsWay(c)'
  <2>1. UNCHANGED <<sent, lastId, conn, replay, overflow, lastSeen, rx, got, told>>
    BY <1>4
  <2>2. Cursor(c)' = Cursor(c) /\ Have(c)' = Have(c)
    BY <1>4 DEF Cursor, Have
  <2>3. InPlace(c)'
    BY <1>4, <2>1, <2>2 DEF StreamInv, InPlace, WantedAfter, Wanted
  <2>4. \A m \in Owed(c)' : m \in Owed(c) \/ (m = n /\ lastSeen[c] < n /\ lastId < n)
    <3> SUFFICES ASSUME NEW m \in Owed(c)', m \notin Owed(c)
                 PROVE  m = n /\ lastSeen[c] < n /\ lastId < n
      OBVIOUS
    <3>1. m = n /\ n \notin excused'[c]
      BY <1>4, <2>2 DEF Owed, Wanted
    <3>2. \A k \in stored \cup {0} : k < n
      BY <1>1, <1>4, <3>1, NoteNumbers, PlacesAreNumbers
    <3> QED BY <3>1, <3>2 DEF StreamInv, InPlace, ChannelInOrder
  <2>5. OnItsWay(c)'
    <3>1. OnItsWay(c) /\ lastSeen[c] \in Nat /\ n \in Nat
      BY <1>1, PlacesAreNumbers, NoteNumbers DEF StreamInv
    <3> QED BY <2>1, <2>4, <3>1 DEF OnItsWay, InReplay, Ahead
  <2> QED BY <2>3, <2>5
<1> QED BY <1>2, <1>3, <1>5, <1>6, <1>7, <1>8 DEF StreamInv

(* A poller that starts skips what streams have not replayed: it is excused. *)
LEMMA StartReadKeeps ==
    ASSUME StreamInv, StartRead
    PROVE  [FeedNext]_feed /\ StreamInv'
<1> USE DEF StartRead, table, stream, client
<1>1. /\ UNCHANGED <<stored, nextId, inserting, batch, more, polls, sent, conn, replay,
                     overflow, lastSeen, rx, got, paged, told>>
      /\ at = "start" /\ at' = "listen"
  OBVIOUS
<1>2. /\ faults' \in 0..MaxFaults /\ lastId' \in stored \cup {0}
      /\ excused' \in [Client -> SUBSET Note]
      /\ \A c \in Client :
            /\ excused[c] \subseteq excused'[c]
            /\ excused'[c] \subseteq excused[c] \cup {n \in After(lastSeen[c]) : conn[c] = "open"}
            /\ conn[c] = "open" => lastId' = 0 \/ After(lastSeen[c]) \subseteq excused'[c]
  <2>1. stored \in SUBSET Note /\ faults \in 0..MaxFaults
        /\ excused \in [Client -> SUBSET Note]
    BY DEF StreamInv, StreamTypeOK
  <2>2. CASE /\ lastId' = Newest(stored) /\ UNCHANGED faults
             /\ excused' = [c \in Client |->
                              IF conn[c] = "open" THEN excused[c] \cup After(lastSeen[c])
                              ELSE excused[c]]
    <3>1. Newest(stored) \in stored \cup {0}
      BY <2>1, NewestIsLast DEF Newest
    <3>2. \A c \in Client : After(lastSeen[c]) \subseteq stored
      BY DEF After
    <3> QED BY <2>1, <2>2, <3>1, <3>2
  <2>3. CASE Failing /\ lastId' = 0 /\ UNCHANGED excused
    <3>1. faults' \in 0..MaxFaults
      BY <2>1, <2>3, NoteStreamAssumption DEF Failing
    <3> QED BY <2>1, <2>3, <3>1
  <2> QED BY <2>2, <2>3
<1>3. Excuse
  <2>1. \A c \in Client : \A n \in excused'[c] \ excused[c] : n \in stored /\ Cursor(c) < n
    <3> SUFFICES ASSUME NEW c \in Client, NEW n \in excused'[c], n \notin excused[c]
                 PROVE  n \in stored /\ Cursor(c) < n
      OBVIOUS
    <3>1. n \in stored /\ lastSeen[c] < n /\ conn[c] = "open"
      BY <1>2 DEF After
    <3>2. Cursor(c) <= lastSeen[c]
      BY <3>1 DEF StreamInv, InPlace
    <3> QED BY <3>1, <3>2, PlacesAreNumbers
  <2> QED BY <1>1, <1>2, <2>1 DEF Excuse
<1>4. FeedInv'
  BY <1>3, FeedStepKeeps DEF FeedNext, StreamInv
<1>5. StreamTypeOK'
  <2>1. lastId' \in 0..MaxNote
    BY <1>2, NoteFeedAssumption DEF StreamInv, StreamTypeOK, Note
  <2> QED BY <1>1, <1>2, <2>1 DEF StreamInv, StreamTypeOK
<1>6. IdsDrawn'
  BY DEF StreamInv, IdsDrawn
<1>7. ChannelInOrder' /\ BatchIsNext'
  <2>1. batch = {} /\ batch' = {}
    BY DEF StreamInv, BatchIsNext
  <2>2. DOMAIN sent = {}
    <3> SUFFICES ASSUME NEW i \in DOMAIN sent PROVE FALSE
      OBVIOUS
    <3>1. sent[i] \in stored /\ sent[i] <= 0
      BY DEF StreamInv, ChannelInOrder
    <3> QED BY <3>1, PlacesAreNumbers
  <2>3. ChannelInOrder'
    BY <1>1, <1>2, <2>2 DEF ChannelInOrder, Increasing
  <2>4. BatchIsNext'
    BY <1>1, <2>1 DEF BatchIsNext
  <2> QED BY <2>3, <2>4
<1>8. ASSUME NEW c \in Client
      PROVE  InPlace(c)' /\ OnItsWay(c)'
  <2>1. Owed(c)' \subseteq Owed(c) \ excused'[c] /\ Cursor(c)' = Cursor(c)
    BY <1>1, <1>2 DEF Owed, Wanted, Have, Cursor
  <2>2. InPlace(c)'
    BY <1>1, <2>1 DEF StreamInv, InPlace, WantedAfter, Wanted
  <2>3. ASSUME conn[c] = "open", NEW n \in Owed(c)', lastSeen[c] < n
        PROVE  lastId' < n
    <3>1. n \in stored /\ n \notin excused'[c] /\ 0 < n
      BY <2>1, PlacesAreNumbers
    <3>2. n \in After(lastSeen[c])
      BY <2>3, <3>1 DEF After
    <3> QED BY <1>2, <2>3, <3>1, <3>2
  <2>4. OnItsWay(c)'
    <3>1. OnItsWay(c)
      BY DEF StreamInv
    <3> QED BY <1>1, <2>1, <2>3, <3>1 DEF OnItsWay, InReplay, Ahead
  <2> QED BY <2>2, <2>4
<1> QED BY <1>3, <1>4, <1>5, <1>6, <1>7, <1>8 DEF StreamInv, FeedNext

(* The poller's waits change nothing a client sees.                          *)
LEMMA WaitingKeeps ==
    ASSUME StreamInv, Listen \/ ListenLost \/ Wake
    PROVE  [FeedNext]_feed /\ StreamInv'
<1>1. /\ UNCHANGED <<table, lastId, batch, more, sent, stream, client, excused, faults>>
      /\ at \in {"listen", "wait", "sleep"} /\ at' \in {"select", "sleep"}
      /\ polls' \in {0, polls, Polls}
  BY DEF Listen, ListenLost, Wake
<1> USE <1>1 DEF table, stream, client
<1>2. UNCHANGED feed
  BY DEF feed
<1>3. FeedInv'
  BY <1>2, FeedStepKeeps DEF StreamInv
<1>4. StreamTypeOK'
  <2>1. polls' \in 0..Polls
    BY NoteStreamAssumption DEF StreamInv, StreamTypeOK
  <2> QED BY <2>1 DEF StreamInv, StreamTypeOK
<1>5. IdsDrawn' /\ ChannelInOrder'
  BY DEF StreamInv, IdsDrawn, ChannelInOrder, Increasing
<1>6. BatchIsNext'
  BY DEF StreamInv, BatchIsNext, After
<1>7. \A c \in Client : InPlace(c)' /\ OnItsWay(c)'
  BY StreamStays
<1> QED BY <1>2, <1>3, <1>4, <1>5, <1>6, <1>7 DEF StreamInv

(* A drained poller goes back to waiting.                                    *)
LEMMA DrainedReturns ==
    ASSUME StreamInv, Drained
    PROVE  at' \in {"sleep", "listen", "wait"} /\ polls' \in 0..Polls
  BY NoteStreamAssumption DEF Drained, StreamInv, StreamTypeOK

(* A query reads the first rows after lastId: nothing lies between them.     *)
LEMMA SelectKeeps ==
    ASSUME StreamInv, Select
    PROVE  [FeedNext]_feed /\ StreamInv'
<1> DEFINE rows == FirstOf(After(lastId), DrainPage)
<1>1. /\ at = "select"
      /\ UNCHANGED <<table, lastId, sent, stream, client, excused>>
  BY DEF Select
<1> USE <1>1 DEF table, stream, client
<1>2. UNCHANGED feed
  BY DEF feed
<1>3. FeedInv'
  BY <1>2, FeedStepKeeps DEF StreamInv
<1>4. /\ After(lastId) \in SUBSET Note /\ rows \subseteq After(lastId)
      /\ \A n \in rows, m \in After(lastId) : m < n => m \in rows
  <2>1. After(lastId) \in SUBSET Note
    BY DEF After, StreamInv, StreamTypeOK
  <2> QED BY <2>1, PageIsFirst, NoteStreamAssumption
<1>5. batch = {}
  BY DEF StreamInv, BatchIsNext
<1>6. \/ batch' = rows /\ rows # {} /\ at' = "send" /\ more' \in BOOLEAN
         /\ UNCHANGED <<polls, faults>>
      \/ batch' = {} /\ more' = more /\ Drained /\ faults' \in 0..MaxFaults
  <2>1. faults \in 0..MaxFaults /\ (Failing => faults' \in 0..MaxFaults)
    BY NoteStreamAssumption DEF StreamInv, StreamTypeOK, Failing
  <2>2. \/ batch' = rows /\ rows # {} /\ at' = "send" /\ UNCHANGED <<polls, faults>>
           /\ more' = IsFull(After(lastId), DrainPage)
        \/ UNCHANGED <<batch, more>> /\ Drained /\ (UNCHANGED faults \/ Failing)
    BY Zenon DEF Select
  <2>3. IsFull(After(lastId), DrainPage) \in BOOLEAN
    BY <1>4, PageIsFirst, NoteStreamAssumption
  <2> HIDE DEF rows
  <2> QED BY <1>5, <2>1, <2>2, <2>3
<1> HIDE DEF rows
<1>7. StreamTypeOK'
  <2>1. /\ batch' \subseteq Note /\ more' \in BOOLEAN /\ faults' \in 0..MaxFaults
        /\ polls' \in 0..Polls
        /\ at' \in {"start", "listen", "select", "send", "wait", "sleep"}
    BY <1>4, <1>6, DrainedReturns DEF StreamInv, StreamTypeOK
  <2> QED BY <2>1 DEF StreamInv, StreamTypeOK
<1>8. IdsDrawn'
  BY DEF StreamInv, IdsDrawn
<1>9. at' # "start" /\ (at' = "send" <=> batch' # {})
  BY <1>6, DrainedReturns
<1>10. ChannelInOrder'
  BY <1>9 DEF StreamInv, ChannelInOrder, Increasing
<1>11. BatchIsNext'
  <2>1. batch' \in {rows, {}} /\ After(lastId)' = After(lastId)
    BY <1>6 DEF After
  <2>2. batch' \subseteq After(lastId)'
    BY <1>4, <2>1
  <2>3. \A n \in After(lastId) \ batch', k \in batch' : ~ (n < k)
    BY <1>4, <2>1
  <2> QED BY <1>9, <2>1, <2>2, <2>3 DEF BatchIsNext
<1>12. \A c \in Client : InPlace(c)' /\ OnItsWay(c)'
  BY StreamStays
<1> QED BY <1>2, <1>3, <1>7, <1>8, <1>10, <1>11, <1>12 DEF StreamInv

(* The note sent is the first of the page: an id behind it became visible    *)
(* late, and nobody is promised it.                                          *)
LEMMA SendKeeps ==
    ASSUME StreamInv, Send
    PROVE  [FeedNext]_feed /\ StreamInv'
<1>0. PICK n : n = Earliest(batch)
  OBVIOUS
<1>1. /\ at = "send" /\ lastId' = n /\ sent' = Append(sent, n) /\ batch' = batch \ {n}
      /\ UNCHANGED <<table, stream, client, excused, faults>>
      /\ \/ batch # {n} /\ UNCHANGED <<at, more, polls>>
         \/ batch = {n} /\ more' = FALSE /\ at' = "select" /\ UNCHANGED polls
         \/ batch = {n} /\ more' = FALSE /\ Drained
  BY <1>0 DEF Send
<1>2. /\ n \in batch /\ \A k \in batch : n <= k
      /\ n \in stored /\ n \in Note /\ n \in Nat /\ lastId < n /\ lastId \in Nat
  <2>1. batch \in SUBSET Note /\ batch # {}
    BY <1>1 DEF StreamInv, StreamTypeOK, BatchIsNext
  <2>2. n \in batch /\ \A k \in batch : n <= k
    BY <1>0, <2>1, EarliestIsFirst
  <2>3. n \in stored /\ lastId < n
    BY <2>2 DEF StreamInv, BatchIsNext, After
  <2> QED BY <2>2, <2>3, PlacesAreNumbers
<1> USE DEF table, stream, client
<1>3. UNCHANGED feed
  BY <1>1 DEF feed
<1>4. FeedInv'
  BY <1>3, FeedStepKeeps DEF StreamInv
<1>5. /\ at' \in {"send", "select", "sleep", "listen", "wait"}
      /\ more' \in BOOLEAN /\ polls' \in 0..Polls
      /\ at' = "send" <=> batch # {n}
  BY <1>1, DrainedReturns DEF StreamInv, StreamTypeOK
<1>6. StreamTypeOK'
  <2>1. lastId' \in 0..MaxNote /\ batch' \subseteq Note /\ sent' \in Seq(Note)
    BY <1>1, <1>2, NoteFeedAssumption DEF StreamInv, StreamTypeOK, Note
  <2> QED BY <1>1, <1>5, <2>1 DEF StreamInv, StreamTypeOK
<1>7. IdsDrawn'
  BY <1>1 DEF StreamInv, IdsDrawn
<1>8. sent \in Seq(Note) /\ \A i \in DOMAIN sent : sent[i] \in stored /\ sent[i] < n
  <2>1. sent \in Seq(Note)
    BY DEF StreamInv, StreamTypeOK
  <2>2. ASSUME NEW i \in DOMAIN sent
        PROVE  sent[i] \in stored /\ sent[i] < n
    <3>1. sent[i] \in stored /\ sent[i] <= lastId
      BY DEF StreamInv, ChannelInOrder
    <3>2. sent[i] \in Nat
      BY <3>1, PlacesAreNumbers, Zenon
    <3> QED BY <1>2, <3>1, <3>2
  <2> QED BY <2>1, <2>2
<1>9. /\ Increasing(sent') /\ Len(sent') = Len(sent) + 1 /\ Len(sent) \in Nat
      /\ DOMAIN sent' = 1..(Len(sent) + 1) /\ sent'[Len(sent) + 1] = n
      /\ \A i \in 1..Len(sent) : i \in DOMAIN sent /\ sent'[i] = sent[i]
  <2>1. Increasing(Append(sent, n))
    BY <1>2, <1>8, AppendKeepsOrder DEF StreamInv, ChannelInOrder
  <2> QED BY <1>1, <1>2, <1>8, <2>1
<1>10. ChannelInOrder'
  <2>1. \A i \in DOMAIN sent' : sent'[i] \in stored /\ sent'[i] <= n
    <3> SUFFICES ASSUME NEW i \in DOMAIN sent'
                 PROVE  sent'[i] \in stored /\ sent'[i] <= n
      OBVIOUS
    <3>1. CASE i = Len(sent) + 1
      BY <1>1, <1>2, <1>9, <3>1
    <3>2. CASE i # Len(sent) + 1
      <4>1. i \in 1..Len(sent)
        BY <1>9, <3>2
      <4>2. sent'[i] \in stored /\ sent'[i] < n
        BY <1>8, <1>9, <4>1
      <4>3. sent'[i] \in Nat
        BY <4>2, PlacesAreNumbers, Zenon
      <4> QED BY <1>1, <1>2, <4>2, <4>3
    <3> QED BY <3>1, <3>2
  <2> QED BY <1>1, <1>2, <1>5, <1>9, <2>1 DEF ChannelInOrder
<1>11. BatchIsNext'
  <2>1. batch' \subseteq After(lastId)' /\ After(lastId)' \subseteq After(lastId)
    <3>1. \A k \in stored : n < k => lastId < k
      BY <1>2, PlacesAreNumbers
    <3>2. \A k \in batch : k # n => n < k
      BY <1>2, PlacesAreNumbers DEF StreamInv, BatchIsNext, After
    <3>3. batch \subseteq stored
      BY DEF StreamInv, BatchIsNext, After
    <3> QED BY <1>1, <3>1, <3>2, <3>3 DEF After
  <2>2. at' = "send" <=> batch' # {}
    BY <1>1, <1>2, <1>5
  <2>3. ASSUME NEW c \in Client, NEW m \in After(lastId)' \ batch', NEW k \in batch', m < k
        PROVE  m \in excused'[c]
    <3>1. m # n
      BY <1>1, <1>2 DEF After
    <3>2. m \in After(lastId) \ batch /\ k \in batch
      BY <1>1, <2>1, <3>1
    <3> QED BY <1>1, <2>3, <3>2 DEF StreamInv, BatchIsNext
  <2> QED BY <1>1, <2>1, <2>2, <2>3 DEF BatchIsNext
<1>12. ASSUME NEW c \in Client
       PROVE  InPlace(c)' /\ OnItsWay(c)'
  <2>1. Owed(c)' = Owed(c) /\ Cursor(c)' = Cursor(c) /\ rx[c] \in Nat
    BY <1>1, PlacesAreNumbers DEF Owed, Wanted, Have, Cursor
  <2>2. rx[c] <= Len(sent) + 1
    BY DEF StreamInv, InPlace
  <2>3. InPlace(c)'
    BY <1>1, <1>9, <2>1, <2>2 DEF StreamInv, InPlace, WantedAfter, Wanted
  <2>4. ASSUME NEW m \in Owed(c), lastId < m \/ \E i \in rx[c]..Len(sent) : sent[i] = m
        PROVE  n < m \/ \E i \in rx[c]..(Len(sent) + 1) : sent'[i] = m
    <3>1. CASE \E i \in rx[c]..Len(sent) : sent[i] = m
      <4>1. PICK i \in rx[c]..Len(sent) : sent[i] = m
        BY <3>1
      <4>2. i \in 1..Len(sent) /\ i \in rx[c]..(Len(sent) + 1)
        BY <1>9, <4>1, PlacesAreNumbers
      <4> QED BY <1>9, <4>1, <4>2
    <3>2. CASE lastId < m
      <4>1. m \in stored /\ m \in Nat /\ m \notin excused[c]
        BY PlacesAreNumbers DEF Owed
      <4>2. CASE m = n
        <5>1. Len(sent) + 1 \in rx[c]..(Len(sent) + 1)
          BY <1>9, <2>1, <2>2
        <5> QED BY <1>9, <4>2, <5>1
      <4>3. ~ (m < n)
        <5>1. m < n => m \notin batch
          BY <1>2, <4>1
        <5>2. m \in After(lastId)
          BY <3>2, <4>1 DEF After
        <5> QED BY <1>2, <4>1, <5>1, <5>2 DEF StreamInv, BatchIsNext
      <4> QED BY <1>2, <4>1, <4>2, <4>3
    <3> QED BY <2>4, <3>1, <3>2
  <2>5. OnItsWay(c)'
    <3>1. OnItsWay(c) /\ (OnItsWay(c)' <=>
             (conn[c] = "open" /\ told[c] = NotTold =>
                 /\ InReplay(c)
                 /\ ~ overflow[c] =>
                       \A m \in Owed(c) : lastSeen[c] < m =>
                           n < m \/ \E i \in rx[c]..(Len(sent) + 1) : sent'[i] = m))
      BY <1>1, <1>9, <2>1 DEF StreamInv, OnItsWay, InReplay, Ahead
    <3> QED BY <2>4, <3>1 DEF OnItsWay, Ahead
  <2> QED BY <2>3, <2>5
<1> QED BY <1>3, <1>4, <1>6, <1>7, <1>10, <1>11, <1>12 DEF StreamInv

-----------------------------------------------------------------------------
(* What a step of one stream leaves alone.                                   *)
LEMMA TableAndPollerStay ==
    ASSUME StreamInv, UNCHANGED <<table, poller, sent>>,
           \A c \in Client : excused[c] \subseteq excused'[c]
    PROVE  IdsDrawn' /\ ChannelInOrder' /\ BatchIsNext'
<1> USE DEF table, poller
<1>1. IdsDrawn' /\ ChannelInOrder'
  BY DEF StreamInv, IdsDrawn, ChannelInOrder, Increasing
<1>2. BatchIsNext'
  BY DEF StreamInv, BatchIsNext, After
<1> QED BY <1>1, <1>2

(* A client subscribes.                                                      *)
LEMMA SubscribeKeeps ==
    ASSUME StreamInv, NEW c \in Client, Subscribe(c)
    PROVE  [FeedNext]_feed /\ StreamInv'
<1> USE DEF Subscribe, client
<1>1. /\ conn[c] = "off" /\ conn' \in [Client -> {"off", "replay", "open"}]
      /\ conn'[c] \in {"replay", "open"} /\ replay[c] = {} /\ ~ overflow[c]
      /\ \A d \in Client \ {c} : conn'[d] = conn[d] /\ excused'[d] = excused[d]
      /\ excused' \in [Client -> SUBSET Note]
      /\ excused[c] \subseteq excused'[c] /\ excused'[c] \subseteq excused[c] \cup stored
      /\ \/ conn'[c] = "replay" /\ UNCHANGED excused
         \/ Cursor(c) = 0 /\ stored \subseteq excused'[c]
  <2>1. /\ conn \in [Client -> {"off", "replay", "open"}] /\ stored \subseteq Note
        /\ excused \in [Client -> SUBSET Note]
    BY DEF StreamInv, StreamTypeOK
  <2>2. conn[c] = "off" /\ replay[c] = {} /\ ~ overflow[c]
    BY DEF StreamInv, InPlace
  <2> QED BY <2>1, <2>2
<1>2. [FeedNext]_feed
  <2>1. CASE UNCHANGED excused
    BY <2>1 DEF feed, table
  <2>2. CASE Cursor(c) = 0
    <3>1. \A d \in Client : \A n \in excused'[d] \ excused[d] : n \in stored /\ Cursor(d) < n
      BY <1>1, <2>2, PlacesAreNumbers
    <3>2. \A d \in Client : excused[d] \subseteq excused'[d]
      BY <1>1
    <3>3. Excuse
      BY <1>1, <3>1, <3>2 DEF Excuse, table
    <3> QED BY <3>3 DEF FeedNext
  <2> QED BY <1>1, <2>1, <2>2
<1>3. FeedInv'
  BY <1>2, FeedStepKeeps DEF StreamInv
<1>4. /\ lastSeen \in [Client -> 0..MaxNote] /\ rx \in [Client -> Nat \ {0}]
      /\ Len(sent) \in Nat
  BY DEF StreamInv, StreamTypeOK
<1>5. StreamTypeOK'
  <2>1. lastSeen' \in [Client -> 0..MaxNote] /\ rx' \in [Client -> Nat \ {0}]
    BY <1>4, NoteFeedAssumption
  <2> QED BY <1>1, <2>1 DEF StreamInv, StreamTypeOK, table, poller
<1>6. IdsDrawn' /\ ChannelInOrder' /\ BatchIsNext'
  <2>1. \A d \in Client : excused[d] \subseteq excused'[d]
    BY <1>1
  <2> QED BY <2>1, TableAndPollerStay
<1>7. ASSUME NEW d \in Client
      PROVE  InPlace(d)' /\ OnItsWay(d)'
  <2>1. CASE d # c
    <3>1. /\ conn'[d] = conn[d] /\ excused[d] \subseteq excused'[d]
          /\ rx'[d] = rx[d] /\ lastSeen'[d] = lastSeen[d]
      BY <1>1, <1>4, <2>1
    <3> QED BY <3>1, StreamStays DEF table, poller
  <2>2. CASE d = c
    <3>1. /\ rx'[c] = Len(sent) + 1 /\ lastSeen'[c] = 0 /\ replay'[c] = {} /\ ~ overflow'[c]
          /\ sent' = sent /\ Cursor(c)' = Cursor(c) /\ stored' = stored
      BY <1>1, <1>4 DEF Cursor, table
    <3>2. conn'[c] = "open" => Cursor(c) = 0 /\ Owed(c)' = {}
      BY <1>1, <3>1 DEF Owed
    <3>3. InPlace(c)'
      BY <1>4, <3>1, <3>2, PlacesAreNumbers DEF InPlace
    <3>4. OnItsWay(c)'
      BY <3>2 DEF OnItsWay, InReplay, Ahead
    <3> QED BY <2>2, <3>3, <3>4
  <2> QED BY <2>1, <2>2
<1> QED BY <1>2, <1>3, <1>5, <1>6, <1>7 DEF StreamInv

(* What is owed lies beyond the cursor, so the replay query finds it; its    *)
(* rows end at lastSeen, and are all there are unless an overflow follows.   *)
LEMMA ReplayKeeps ==
    ASSUME StreamInv, NEW c \in Client, Replay(c)
    PROVE  [FeedNext]_feed /\ StreamInv'
<1> DEFINE rows == WantedAfter(c, Cursor(c))
           page == FirstOf(rows, ReplayLimit)
<1>1. /\ conn[c] = "replay" /\ conn' = [conn EXCEPT ![c] = "open"]
      /\ replay' = [replay EXCEPT ![c] = page]
      /\ overflow' = [overflow EXCEPT ![c] = IsFull(rows, ReplayLimit)]
      /\ lastSeen' = [lastSeen EXCEPT ![c] = IF page = {} THEN Cursor(c) ELSE Newest(page)]
      /\ UNCHANGED <<table, poller, sent, rx, client, excused, faults>>
  BY DEF Replay
<1> USE DEF table, poller, client
<1>2. UNCHANGED feed
  BY <1>1 DEF feed
<1>3. FeedInv'
  BY <1>2, FeedStepKeeps DEF StreamInv
<1>4. /\ page \subseteq rows /\ rows \in SUBSET Note /\ page \in SUBSET Note
      /\ \A n \in page, m \in rows : m < n => m \in page
      /\ ~ IsFull(rows, ReplayLimit) => page = rows
      /\ page = {} => rows = {}
      /\ IsFull(rows, ReplayLimit) \in BOOLEAN
  <2>1. rows \in SUBSET Note
    BY DEF WantedAfter, StreamInv, StreamTypeOK
  <2> HIDE DEF rows
  <2> QED BY <2>1, PageIsFirst, NoteStreamAssumption
<1>5. rows = {n \in stored : Cursor(c) < n /\ Wanted(c, n)}
  BY DEF WantedAfter
<1>6. page # {} => Newest(page) \in page /\ \A n \in page : n <= Newest(page)
  <2> HIDE DEF page
  <2> QED BY <1>4, NewestIsLast
<1> HIDE DEF rows, page
<1>7. /\ lastSeen'[c] \in stored \cup {0} /\ lastSeen'[c] \in Nat /\ Cursor(c) <= lastSeen'[c]
      /\ \A n \in page : n <= lastSeen'[c]
      /\ \A n \in rows : n <= lastSeen'[c] => n \in page
  <2>1. lastSeen'[c] = IF page = {} THEN Cursor(c) ELSE Newest(page)
    BY <1>1 DEF StreamInv, StreamTypeOK
  <2>2. CASE page = {}
    BY <1>4, <2>1, <2>2, PlacesAreNumbers
  <2>3. CASE page # {}
    <3>1. lastSeen'[c] \in page /\ lastSeen'[c] \in rows /\ \A n \in page : n <= lastSeen'[c]
      BY <1>4, <1>6, <2>1, <2>3
    <3>2. lastSeen'[c] \in stored /\ lastSeen'[c] \in Nat /\ Cursor(c) < lastSeen'[c]
      BY <1>5, <3>1, PlacesAreNumbers
    <3>3. \A n \in rows : n <= lastSeen'[c] => n \in page
      <4> SUFFICES ASSUME NEW n \in rows, n <= lastSeen'[c], n # lastSeen'[c]
                   PROVE  n \in page
        BY <3>1
      <4>1. n \in Nat
        BY <1>5, PlacesAreNumbers
      <4>2. n < lastSeen'[c]
        BY <3>2, <4>1
      <4> QED BY <1>4, <3>1, <4>2
    <3> QED BY <3>1, <3>2, <3>3, PlacesAreNumbers
  <2> QED BY <2>2, <2>3
<1>8. StreamTypeOK'
  <2>1. lastSeen'[c] \in 0..MaxNote
    BY <1>7, NoteFeedAssumption DEF StreamInv, StreamTypeOK, Note
  <2>2. /\ lastSeen' \in [Client -> 0..MaxNote] /\ replay' \in [Client -> SUBSET Note]
        /\ overflow' \in [Client -> BOOLEAN]
        /\ conn' \in [Client -> {"off", "replay", "open"}]
    <3>1. /\ lastSeen \in [Client -> 0..MaxNote] /\ replay \in [Client -> SUBSET Note]
          /\ overflow \in [Client -> BOOLEAN]
          /\ conn \in [Client -> {"off", "replay", "open"}]
      BY DEF StreamInv, StreamTypeOK
    <3>2. /\ lastSeen' \in [Client -> 0..MaxNote]
          /\ conn' \in [Client -> {"off", "replay", "open"}]
      BY <1>1, <2>1, <3>1
    <3>3. replay' \in [Client -> SUBSET Note] /\ overflow' \in [Client -> BOOLEAN]
      BY <1>1, <1>4, <3>1
    <3> QED BY <3>2, <3>3
  <2> QED BY <1>1, <2>2 DEF StreamInv, StreamTypeOK
<1>9. IdsDrawn' /\ ChannelInOrder' /\ BatchIsNext'
  BY <1>1, TableAndPollerStay
<1>10. ASSUME NEW d \in Client
       PROVE  InPlace(d)' /\ OnItsWay(d)'
  <2>1. CASE d # c
    <3>1. /\ conn'[d] = conn[d] /\ replay'[d] = replay[d] /\ overflow'[d] = overflow[d]
          /\ rx'[d] = rx[d] /\ lastSeen'[d] = lastSeen[d]
      BY <1>1, <2>1 DEF StreamInv, StreamTypeOK
    <3> QED BY <1>1, <3>1, StreamStays
  <2>2. CASE d = c
    <3>1. /\ conn'[c] = "open" /\ replay'[c] = page /\ rx'[c] = rx[c] /\ sent' = sent
          /\ overflow'[c] = IsFull(rows, ReplayLimit) /\ stored' = stored /\ told' = told
          /\ Cursor(c)' = Cursor(c) /\ Owed(c)' = Owed(c)
          /\ \A n \in stored : Wanted(c, n)' = Wanted(c, n)
      BY <1>1 DEF StreamInv, StreamTypeOK, Cursor, Owed, Wanted, Have
    <3>2. InPlace(c)'
      <4>1. page \subseteq {n \in WantedAfter(c, Cursor(c))' : n <= lastSeen'[c]}
        BY <1>4, <1>5, <1>7, <3>1 DEF WantedAfter, Wanted
      <4>2. rx[c] <= Len(sent) + 1
        BY DEF StreamInv, InPlace
      <4> QED BY <1>7, <3>1, <4>1, <4>2 DEF InPlace
    <3>3. OnItsWay(c)'
      <4> SUFFICES ASSUME told[c] = NotTold
                   PROVE  InReplay(c)' /\ (~ overflow[c] => Ahead(c))'
        BY <3>1 DEF OnItsWay
      <4>1. \A n \in Owed(c) : n \in rows /\ n \in Nat
        <5> SUFFICES ASSUME NEW n \in Owed(c)
                     PROVE  n \in rows /\ n \in Nat
          OBVIOUS
        <5>1. Cursor(c) < n
          BY DEF StreamInv, FeedInv, NoGap, Trusted
        <5> QED BY <1>5, <5>1, PlacesAreNumbers DEF Owed
      <4>2. InReplay(c)'
        BY <1>7, <3>1, <4>1 DEF InReplay
      <4>3. ~ IsFull(rows, ReplayLimit) => \A n \in Owed(c) : ~ (lastSeen'[c] < n)
        BY <1>4, <1>7, <4>1
      <4> QED BY <3>1, <4>2, <4>3 DEF Ahead
    <3> QED BY <2>2, <3>2, <3>3
  <2> QED BY <2>1, <2>2
<1> QED BY <1>2, <1>3, <1>8, <1>9, <1>10 DEF StreamInv

(* A stream ends.                                                            *)
LEMMA ClosedKeeps ==
    ASSUME StreamInv, NEW c \in Client, ReplayFails(c) \/ Disconnect(c)
    PROVE  [FeedNext]_feed /\ StreamInv'
<1>1. /\ Closed(c) /\ UNCHANGED <<table, poller, sent, client, excused>>
      /\ faults' \in 0..MaxFaults
  BY NoteStreamAssumption DEF ReplayFails, Disconnect, Failing, StreamInv, StreamTypeOK
<1> USE <1>1 DEF table, poller, client
<1>2. UNCHANGED feed
  BY DEF feed
<1>3. FeedInv'
  BY <1>2, FeedStepKeeps DEF StreamInv
<1>4. /\ lastSeen \in [Client -> 0..MaxNote] /\ replay \in [Client -> SUBSET Note]
      /\ overflow \in [Client -> BOOLEAN] /\ rx \in [Client -> Nat \ {0}]
      /\ conn \in [Client -> {"off", "replay", "open"}] /\ Len(sent) \in Nat
  BY DEF StreamInv, StreamTypeOK
<1>5. StreamTypeOK'
  <2>1. /\ lastSeen' \in [Client -> 0..MaxNote] /\ rx' \in [Client -> Nat \ {0}]
        /\ conn' \in [Client -> {"off", "replay", "open"}]
    BY <1>4, NoteFeedAssumption DEF Closed
  <2>2. replay' \in [Client -> SUBSET Note] /\ overflow' \in [Client -> BOOLEAN]
    BY <1>4 DEF Closed
  <2> QED BY <2>1, <2>2 DEF StreamInv, StreamTypeOK
<1>6. IdsDrawn' /\ ChannelInOrder' /\ BatchIsNext'
  BY TableAndPollerStay
<1>7. ASSUME NEW d \in Client
      PROVE  InPlace(d)' /\ OnItsWay(d)'
  <2>1. CASE d # c
    <3>1. /\ conn'[d] = conn[d] /\ replay'[d] = replay[d] /\ overflow'[d] = overflow[d]
          /\ rx'[d] = rx[d] /\ lastSeen'[d] = lastSeen[d]
      BY <1>4, <2>1 DEF Closed
    <3> QED BY <3>1, StreamStays
  <2>2. CASE d = c
    <3>1. /\ conn'[c] = "off" /\ replay'[c] = {} /\ overflow'[c] = FALSE
          /\ rx'[c] = 1 /\ lastSeen'[c] = 0
      BY <1>4 DEF Closed
    <3> QED BY <1>4, <2>2, <3>1 DEF InPlace, OnItsWay
  <2> QED BY <2>1, <2>2
<1> QED BY <1>2, <1>3, <1>5, <1>6, <1>7 DEF StreamInv

(* The replica restarts.                                                     *)
LEMMA RestartKeeps ==
    ASSUME StreamInv, Restart
    PROVE  [FeedNext]_feed /\ StreamInv'
<1> USE DEF Restart, table, client
<1>1. UNCHANGED feed
  BY DEF feed
<1>2. FeedInv'
  BY <1>1, FeedStepKeeps DEF StreamInv
<1>3. sent' = <<>> /\ sent' \in Seq(Note) /\ Len(sent') = 0 /\ DOMAIN sent' = {}
  OBVIOUS
<1>4. StreamTypeOK'
  <2>1. faults' \in 0..MaxFaults /\ 0 \in 0..MaxNote /\ 0 \in 0..Polls
    BY NoteFeedAssumption, NoteStreamAssumption DEF Failing, StreamInv, StreamTypeOK
  <2>2. /\ lastSeen' \in [Client -> 0..MaxNote] /\ rx' \in [Client -> Nat \ {0}]
        /\ replay' \in [Client -> SUBSET Note] /\ overflow' \in [Client -> BOOLEAN]
        /\ conn' \in [Client -> {"off", "replay", "open"}]
    BY <2>1
  <2>3. at' = "start" /\ lastId' = 0 /\ batch' = {} /\ more' = FALSE /\ polls' = 0
        /\ UNCHANGED <<stored, nextId, inserting, got, paged, told, excused>>
    OBVIOUS
  <2> QED BY <1>3, <2>1, <2>2, <2>3 DEF StreamInv, StreamTypeOK
<1>5. IdsDrawn'
  BY DEF StreamInv, IdsDrawn
<1>6. ChannelInOrder' /\ BatchIsNext'
  BY <1>3 DEF ChannelInOrder, Increasing, BatchIsNext
<1>7. ASSUME NEW d \in Client
      PROVE  InPlace(d)' /\ OnItsWay(d)'
  <2>1. /\ conn'[d] = "off" /\ replay'[d] = {} /\ overflow'[d] = FALSE
        /\ rx'[d] = 1 /\ lastSeen'[d] = 0
    OBVIOUS
  <2> QED BY <1>3, <2>1 DEF InPlace, OnItsWay
<1> QED BY <1>1, <1>2, <1>4, <1>5, <1>6, <1>7 DEF StreamInv

-----------------------------------------------------------------------------
(* The next replayed row is the first note owed.                             *)
LEMMA YieldRowKeeps ==
    ASSUME StreamInv, NEW c \in Client, YieldReplay(c), replay[c] # {}
    PROVE  [FeedNext]_feed /\ StreamInv'
<1>0. PICK n : n = Earliest(replay[c])
  OBVIOUS
<1>1. /\ conn[c] = "open" /\ replay' = [replay EXCEPT ![c] = @ \ {n}]
      /\ got' = [got EXCEPT ![c] = Append(@, n)]
      /\ UNCHANGED <<overflow, told, table, poller, sent, conn, lastSeen, rx, paged,
                     excused, faults>>
  BY <1>0 DEF YieldReplay
<1> USE DEF table, poller
<1>2. replay \in [Client -> SUBSET Note] /\ replay[c] \in SUBSET Note
  BY DEF StreamInv, StreamTypeOK
<1>3. /\ n \in replay[c] /\ \A m \in replay[c] : n <= m
      /\ n \in stored /\ Wanted(c, n) /\ Cursor(c) < n /\ n <= lastSeen[c]
      /\ n \in Note /\ n \in Nat
  <2>1. n \in replay[c] /\ \A m \in replay[c] : n <= m
    BY <1>0, <1>2, EarliestIsFirst
  <2>2. n \in stored /\ Wanted(c, n) /\ Cursor(c) < n /\ n <= lastSeen[c]
    BY <2>1 DEF StreamInv, InPlace, WantedAfter
  <2> QED BY <2>1, <2>2, PlacesAreNumbers
<1>4. told[c] = NotTold => \A m \in Owed(c) : n <= m
  <2> SUFFICES ASSUME told[c] = NotTold, NEW m \in Owed(c)
               PROVE  n <= m
    OBVIOUS
  <2>1. m \in Nat /\ lastSeen[c] \in Nat
    BY PlacesAreNumbers
  <2>2. m <= lastSeen[c] => m \in replay[c]
    BY <1>1 DEF StreamInv, OnItsWay, InReplay
  <2> QED BY <1>3, <2>1, <2>2
<1>5. Deliver(c, n)
  BY <1>1, <1>3, <1>4 DEF Deliver
<1>6. [FeedNext]_feed
  BY <1>3, <1>5 DEF FeedNext
<1>7. FeedInv'
  BY <1>6, FeedStepKeeps DEF StreamInv
<1>8. StreamTypeOK'
  <2>1. replay' \in [Client -> SUBSET Note] /\ got' \in [Client -> Seq(Note)]
    BY <1>1, <1>2, <1>7 DEF FeedInv, FeedTypes
  <2> QED BY <1>1, <2>1 DEF StreamInv, StreamTypeOK
<1>9. IdsDrawn' /\ ChannelInOrder' /\ BatchIsNext'
  BY <1>1, TableAndPollerStay
<1>10. /\ Cursor(c)' = n /\ \A d \in Client \ {c} : got'[d] = got[d]
       /\ {got'[c][i] : i \in DOMAIN got'[c]} = {got[c][i] : i \in DOMAIN got[c]} \cup {n}
  BY <1>1, <1>3, EventAppended DEF StreamInv
<1>11. ASSUME NEW d \in Client
       PROVE  InPlace(d)' /\ OnItsWay(d)'
  <2>1. CASE d # c
    <3>1. replay'[d] = replay[d] /\ got'[d] = got[d]
      BY <1>1, <1>2, <1>10, <2>1
    <3> QED BY <1>1, <3>1, StreamStays
  <2>2. CASE d = c
    <3>1. /\ replay'[c] = replay[c] \ {n} /\ Owed(c)' \subseteq Owed(c) \ {n}
          /\ \A m \in stored : Wanted(c, m)' = Wanted(c, m)
      BY <1>1, <1>2, <1>10 DEF Owed, Wanted, Have
    <3>2. InPlace(c)'
      <4>1. \A m \in replay[c] : m \in stored /\ Wanted(c, m) /\ m <= lastSeen[c]
        BY DEF StreamInv, InPlace, WantedAfter
      <4>2. \A m \in replay[c] \ {n} : n < m
        BY <1>2, <1>3, NoteNumbers
      <4>3. replay'[c] \subseteq {m \in WantedAfter(c, Cursor(c))' : m <= lastSeen[c]}
        BY <1>1, <1>10, <3>1, <4>1, <4>2 DEF WantedAfter, Wanted
      <4>4. /\ rx[c] <= Len(sent) + 1 /\ lastSeen[c] \in stored \cup {0}
        BY DEF StreamInv, InPlace
      <4> QED BY <1>1, <1>3, <1>10, <4>3, <4>4 DEF InPlace
    <3>3. OnItsWay(c)'
      <4>1. OnItsWay(c)
        BY DEF StreamInv
      <4> QED BY <1>1, <3>1, <4>1 DEF OnItsWay, InReplay, Ahead
    <3> QED BY <2>2, <3>2, <3>3
  <2> QED BY <2>1, <2>2
<1> QED BY <1>6, <1>7, <1>8, <1>9, <1>11 DEF StreamInv

(* A resync, after an overflowing replay or a lag: from then on the client   *)
(* relies on what it re-pages.                                               *)
LEMMA ResyncKeeps ==
    ASSUME StreamInv, NEW c \in Client,
           told' = [told EXCEPT ![c] = RepageFrom(c)],
           UNCHANGED <<table, poller, sent, conn, replay, lastSeen, got, paged, excused, faults>>,
           \/ /\ overflow' = [overflow EXCEPT ![c] = FALSE] /\ UNCHANGED rx
              /\ conn[c] = "open"
           \/ /\ rx' = [rx EXCEPT ![c] = Oldest] /\ UNCHANGED overflow
              /\ conn[c] = "open"
    PROVE  [FeedNext]_feed /\ StreamInv'
<1> USE DEF table, poller
<1>1. /\ told \in [Client -> 0..MaxNote \cup {NotTold}] /\ rx \in [Client -> Nat \ {0}]
      /\ overflow \in [Client -> BOOLEAN] /\ Len(sent) \in Nat /\ Capacity \in Nat \ {0}
  BY NoteStreamAssumption DEF StreamInv, StreamTypeOK
<1>2. Resync(c)
  BY DEF Resync
<1>3. [FeedNext]_feed
  BY <1>2 DEF FeedNext
<1>4. FeedInv'
  BY <1>3, FeedStepKeeps DEF StreamInv
<1>5. told'[c] # NotTold /\ \A d \in Client \ {c} : told'[d] = told[d]
  <2>1. told'[c] = RepageFrom(c)
    BY <1>1
  <2>2. Cursor(c) \in Nat
    BY PlacesAreNumbers
  <2> QED BY <1>1, <2>1, <2>2, NoteNumbers DEF RepageFrom
<1>6. /\ overflow' \in [Client -> BOOLEAN] /\ rx' \in [Client -> Nat \ {0}]
      /\ rx'[c] <= Len(sent) + 1
      /\ \A d \in Client \ {c} : overflow'[d] = overflow[d] /\ rx'[d] = rx[d]
  <2>1. Oldest \in Nat \ {0} /\ Oldest <= Len(sent) + 1
    BY <1>1 DEF Oldest
  <2>2. rx[c] <= Len(sent) + 1
    BY DEF StreamInv, InPlace
  <2>3. CASE overflow' = [overflow EXCEPT ![c] = FALSE] /\ UNCHANGED rx
    BY <1>1, <2>2, <2>3
  <2>4. CASE rx' = [rx EXCEPT ![c] = Oldest] /\ UNCHANGED overflow
    BY <1>1, <2>1, <2>4
  <2> QED BY <2>3, <2>4
<1>7. StreamTypeOK'
  <2>1. told' \in [Client -> 0..MaxNote \cup {NotTold}]
    <3>1. told' \in [Client -> stored' \cup {0, NotTold}] /\ stored' \subseteq Note
      BY <1>4 DEF FeedInv, FeedTypes
    <3>2. stored' \cup {0, NotTold} \subseteq 0..MaxNote \cup {NotTold}
      <4>1. 0 \in 0..MaxNote /\ Note \subseteq 0..MaxNote
        BY NoteFeedAssumption DEF Note
      <4>2. stored' \subseteq 0..MaxNote
        BY <3>1, <4>1
      <4> QED BY <4>1, <4>2, Zenon
    <3> QED BY <3>1, <3>2
  <2> QED BY <1>6, <2>1 DEF StreamInv, StreamTypeOK
<1>8. IdsDrawn' /\ ChannelInOrder' /\ BatchIsNext'
  BY TableAndPollerStay
<1>9. ASSUME NEW d \in Client
      PROVE  InPlace(d)' /\ OnItsWay(d)'
  <2>1. CASE d # c
    BY <1>5, <1>6, <2>1, StreamStays
  <2>2. CASE d = c
    <3>1. OnItsWay(c)'
      BY <1>5, NothingOnItsWay
    <3>2. Cursor(c)' = Cursor(c) /\ WantedAfter(c, Cursor(c))' = WantedAfter(c, Cursor(c))
      BY DEF Cursor, WantedAfter, Wanted
    <3>3. InPlace(c) /\ conn[c] = "open"
      BY DEF StreamInv
    <3>4. InPlace(c)'
      BY <1>6, <3>2, <3>3 DEF InPlace
    <3> QED BY <2>2, <3>1, <3>4
  <2> QED BY <2>1, <2>2
<1> QED BY <1>3, <1>4, <1>7, <1>8, <1>9 DEF StreamInv

(* A stream yields from its replay.                                          *)
LEMMA YieldReplayKeeps ==
    ASSUME StreamInv, NEW c \in Client, YieldReplay(c)
    PROVE  [FeedNext]_feed /\ StreamInv'
<1>1. CASE replay[c] # {}
  BY <1>1, YieldRowKeeps
<1>2. CASE replay[c] = {}
  BY <1>2, ResyncKeeps DEF YieldReplay
<1> QED BY <1>1, <1>2

(* A note of the channel is beyond everything the client is owed, or it is   *)
(* the first of it.                                                          *)
LEMMA TakeKeeps ==
    ASSUME StreamInv, NEW c \in Client, YieldLive(c), Take(c)
    PROVE  [FeedNext]_feed /\ StreamInv'
<1>0. PICK n : n = sent[rx[c]]
  OBVIOUS
<1>1. /\ conn[c] = "open" /\ replay[c] = {} /\ ~ overflow[c] /\ rx[c] <= Len(sent)
      /\ rx' = [rx EXCEPT ![c] = @ + 1]
      /\ UNCHANGED <<told, table, poller, sent, conn, replay, overflow, paged, excused, faults>>
      /\ \/ n <= lastSeen[c] /\ UNCHANGED <<lastSeen, got>>
         \/ /\ ~ (n <= lastSeen[c]) /\ lastSeen' = [lastSeen EXCEPT ![c] = n]
            /\ got' = IF Wanted(c, n) THEN [got EXCEPT ![c] = Append(@, n)] ELSE got
  BY <1>0 DEF YieldLive, Take
<1> USE DEF table, poller
<1>2. /\ sent \in Seq(Note) /\ rx \in [Client -> Nat \ {0}]
      /\ lastSeen \in [Client -> 0..MaxNote] /\ got \in [Client -> Seq(Note)]
  BY DEF StreamInv, StreamTypeOK
<1>3. /\ rx[c] \in DOMAIN sent /\ n \in stored /\ n \in Note /\ n \in Nat /\ n <= lastId
      /\ Cursor(c) <= lastSeen[c] /\ Cursor(c) \in Nat /\ lastSeen[c] \in Nat /\ lastId \in Nat
  <2>1. rx[c] \in DOMAIN sent
    BY <1>1, <1>2
  <2>2. n \in stored /\ n <= lastId /\ Cursor(c) <= lastSeen[c]
    BY <1>0, <1>1, <2>1 DEF StreamInv, ChannelInOrder, InPlace
  <2> QED BY <2>1, <2>2, PlacesAreNumbers
<1>4. ASSUME told[c] = NotTold, NEW m \in Owed(c)
      PROVE  /\ m \in Nat /\ lastSeen[c] < m
             /\ lastId < m \/ \E i \in rx[c]..Len(sent) : sent[i] = m
             /\ n <= m
  <2>1. m \in Nat
    BY PlacesAreNumbers
  <2>2. OnItsWay(c)
    BY DEF StreamInv
  <2>3. lastSeen[c] < m
    BY <1>1, <1>3, <1>4, <2>1, <2>2 DEF OnItsWay, InReplay
  <2>4. lastId < m \/ \E i \in rx[c]..Len(sent) : sent[i] = m
    BY <1>1, <1>4, <2>2, <2>3 DEF OnItsWay, Ahead
  <2>5. CASE lastId < m
    BY <1>3, <2>1, <2>3, <2>4, <2>5
  <2>6. CASE \E i \in rx[c]..Len(sent) : sent[i] = m
    <3>1. PICK i \in rx[c]..Len(sent) : sent[i] = m
      BY <2>6
    <3>2. i \in DOMAIN sent /\ (i = rx[c] \/ rx[c] < i)
      BY <1>2, <3>1
    <3>3. i = rx[c] => m = n
      BY <1>0, <3>1
    <3>4. rx[c] < i => n < m
      BY <1>0, <1>3, <3>1, <3>2 DEF StreamInv, ChannelInOrder, Increasing
    <3> QED BY <1>3, <2>1, <2>3, <2>4, <3>2, <3>3, <3>4
  <2> QED BY <2>4, <2>5, <2>6
<1>5. [FeedNext]_feed
  <2>1. CASE got' = got
    BY <1>1, <2>1 DEF feed
  <2>2. CASE got' # got
    <3>1. /\ Wanted(c, n) /\ got' = [got EXCEPT ![c] = Append(@, n)]
          /\ ~ (n <= lastSeen[c])
      BY <1>1, <2>2
    <3>2. Cursor(c) < n
      BY <1>3, <3>1
    <3>3. told[c] = NotTold => \A m \in Owed(c) : n <= m
      BY <1>4
    <3>4. Deliver(c, n)
      BY <1>1, <1>3, <3>1, <3>2, <3>3 DEF Deliver
    <3> QED BY <1>3, <3>4 DEF FeedNext
  <2> QED BY <2>1, <2>2
<1>6. FeedInv'
  BY <1>5, FeedStepKeeps DEF StreamInv
<1>7. StreamTypeOK'
  <2>1. n \in 0..MaxNote
    BY <1>3, NoteFeedAssumption DEF Note
  <2>2. lastSeen' \in [Client -> 0..MaxNote]
    BY <1>1, <1>2, <2>1
  <2>3. rx' \in [Client -> Nat \ {0}]
    BY <1>1, <1>2
  <2>4. got' \in [Client -> Seq(Note)]
    BY <1>6 DEF FeedInv, FeedTypes
  <2> QED BY <1>1, <2>2, <2>3, <2>4 DEF StreamInv, StreamTypeOK
<1>8. IdsDrawn' /\ ChannelInOrder' /\ BatchIsNext'
  BY <1>1, TableAndPollerStay
<1>9. /\ rx'[c] = rx[c] + 1 /\ rx[c] \in Nat /\ Len(sent) \in Nat
      /\ \A d \in Client \ {c} :
            rx'[d] = rx[d] /\ lastSeen'[d] = lastSeen[d] /\ got'[d] = got[d]
  BY <1>1, <1>2
<1>10. /\ lastSeen'[c] \in stored \cup {0} /\ lastSeen'[c] \in Nat
       /\ lastSeen[c] <= lastSeen'[c] /\ n <= lastSeen'[c]
       /\ lastSeen'[c] \in {lastSeen[c], n}
  <2>1. lastSeen[c] \in stored \cup {0}
    BY DEF StreamInv, InPlace
  <2> QED BY <1>1, <1>2, <1>3, <2>1
<1>11. Cursor(c)' <= lastSeen'[c] /\ Owed(c)' \subseteq Owed(c)
       /\ (lastSeen'[c] # lastSeen[c] => n \notin Owed(c)')
  <2>1. CASE UNCHANGED <<lastSeen, got>>
    BY <1>1, <1>3, <2>1 DEF Cursor, Owed, Wanted, Have
  <2>2. CASE /\ ~ (n <= lastSeen[c]) /\ lastSeen' = [lastSeen EXCEPT ![c] = n]
             /\ ~ Wanted(c, n) /\ got' = got
    <3>1. Cursor(c)' = Cursor(c) /\ Owed(c)' = Owed(c) /\ n \notin Owed(c)
      BY <1>1, <2>2 DEF Cursor, Owed, Wanted, Have
    <3> QED BY <1>3, <1>10, <3>1
  <2>3. CASE /\ ~ (n <= lastSeen[c]) /\ lastSeen' = [lastSeen EXCEPT ![c] = n]
             /\ Wanted(c, n) /\ got' = [got EXCEPT ![c] = Append(@, n)]
    <3>1. Cursor(c) < n
      BY <1>3, <2>3
    <3>2. Cursor(c)' = n
          /\ {got'[c][i] : i \in DOMAIN got'[c]} = {got[c][i] : i \in DOMAIN got[c]} \cup {n}
      BY <1>3, <2>3, <3>1, EventAppended DEF StreamInv
    <3>3. Owed(c)' \subseteq Owed(c) \ {n}
      BY <1>1, <3>2 DEF Owed, Wanted, Have
    <3> QED BY <1>3, <1>10, <3>2, <3>3
  <2> QED BY <1>1, <2>1, <2>2, <2>3
<1>12. ASSUME NEW d \in Client
       PROVE  InPlace(d)' /\ OnItsWay(d)'
  <2>1. CASE d # c
    BY <1>1, <1>9, <2>1, StreamStays
  <2>2. CASE d = c
    <3>1. InPlace(c)'
      BY <1>1, <1>9, <1>10, <1>11 DEF InPlace
    <3>2. OnItsWay(c)'
      <4> SUFFICES ASSUME told[c] = NotTold
                   PROVE  \A m \in Owed(c)' :
                             /\ lastSeen'[c] < m
                             /\ lastId < m \/ \E i \in rx'[c]..Len(sent) : sent[i] = m
        <5>1. ASSUME NEW m \in Owed(c)', lastSeen'[c] < m
              PROVE  ~ (m <= lastSeen'[c])
          <6>1. m \in Nat
            BY <1>11, PlacesAreNumbers
          <6> QED BY <1>10, <5>1, <6>1
        <5> QED BY <1>1, <5>1 DEF OnItsWay, InReplay, Ahead
      <4> TAKE m \in Owed(c)'
      <4>1. /\ m \in Owed(c) /\ m \in Nat /\ lastSeen[c] < m /\ n <= m
            /\ lastId < m \/ \E i \in rx[c]..Len(sent) : sent[i] = m
        BY <1>4, <1>11
      <4>2. lastSeen'[c] < m
        <5>1. lastSeen'[c] # lastSeen[c] => lastSeen'[c] = n /\ n # m
          BY <1>10, <1>11
        <5> QED BY <1>3, <1>10, <4>1, <5>1
      <4>3. n # m
        BY <1>3, <1>10, <4>1, <4>2
      <4>4. ASSUME NEW i \in rx[c]..Len(sent), sent[i] = m
            PROVE  i \in rx'[c]..Len(sent)
        BY <1>0, <1>9, <4>3, <4>4
      <4> QED BY <4>1, <4>2, <4>4
    <3> QED BY <2>2, <3>1, <3>2
  <2> QED BY <2>1, <2>2
<1> QED BY <1>5, <1>6, <1>7, <1>8, <1>12 DEF StreamInv

(* A stream yields from the channel, or skips what it lost.                  *)
LEMMA YieldLiveKeeps ==
    ASSUME StreamInv, NEW c \in Client, YieldLive(c)
    PROVE  [FeedNext]_feed /\ StreamInv'
<1>1. CASE Lagged(c)
  BY <1>1, ResyncKeeps DEF YieldLive, Lagged
<1>2. CASE Take(c)
  BY <1>2, TakeKeeps
<1> QED BY <1>1, <1>2 DEF YieldLive

(* A page that is not full ends the re-paging: nothing is owed any more.     *)
LEMMA ReadPageKeeps ==
    ASSUME StreamInv, NEW c \in Client, ReadPage(c)
    PROVE  [FeedNext]_feed /\ StreamInv'
<1> DEFINE rows == WantedAfter(c, told[c])
           page == FirstOf(rows, ListPage)
           t == IF IsFull(rows, ListPage) THEN Newest(page) ELSE NotTold
<1>1. /\ told[c] # NotTold /\ paged' = [paged EXCEPT ![c] = @ \cup page]
      /\ told' = [told EXCEPT ![c] = t]
      /\ UNCHANGED <<table, poller, sent, stream, got, excused, faults>>
  BY DEF ReadPage
<1> USE DEF table, poller, stream
<1>2. /\ page \subseteq rows /\ rows \in SUBSET Note /\ page \in SUBSET Note
      /\ \A n \in page, m \in rows : m < n => m \in page
      /\ ~ IsFull(rows, ListPage) => page = rows
      /\ IsFull(rows, ListPage) => page # {}
  <2>1. rows \in SUBSET Note
    BY DEF WantedAfter, StreamInv, StreamTypeOK
  <2> HIDE DEF rows
  <2> QED BY <2>1, PageIsFirst, NoteStreamAssumption
<1>3. rows = {n \in stored : told[c] < n /\ Wanted(c, n)}
  BY DEF WantedAfter
<1>4. page # {} => Newest(page) \in page /\ \A n \in page : n <= Newest(page)
  <2> HIDE DEF page
  <2> QED BY <1>2, NewestIsLast
<1> HIDE DEF rows, page
<1>5. t \in stored \cup {NotTold} /\ (t # NotTold => t = Newest(page) /\ page # {})
  BY <1>2, <1>3, <1>4
<1>6. \A n \in Owed(c) : n \in rows /\ n \in Nat
  <2> SUFFICES ASSUME NEW n \in Owed(c)
               PROVE  n \in rows /\ n \in Nat
    OBVIOUS
  <2>1. told[c] < n
    BY <1>1 DEF StreamInv, FeedInv, NoGap, Trusted
  <2> QED BY <1>3, <2>1, PlacesAreNumbers DEF Owed
<1>7. \A n \in Owed(c) \ page : t # NotTold /\ t < n
  <2> SUFFICES ASSUME NEW n \in Owed(c), n \notin page
               PROVE  t # NotTold /\ t < n
    OBVIOUS
  <2>1. n \in rows /\ n \in Nat /\ IsFull(rows, ListPage)
    BY <1>2, <1>6
  <2>2. t = Newest(page) /\ t \in page /\ t \in rows
    BY <1>2, <1>4, <2>1
  <2>3. t \in Nat /\ t # NotTold /\ t # n
    BY <1>2, <2>2, NoteNumbers
  <2>4. ~ (n < t)
    BY <1>2, <2>1, <2>2
  <2> QED BY <2>1, <2>3, <2>4
<1>8. Reread(c)
  <2>1. page \in SUBSET stored
    BY <1>2, <1>3
  <2>2. \A n \in Owed(c) \ page : (IF t = NotTold THEN Cursor(c) ELSE t) < n
    BY <1>7
  <2>3. \E tt \in stored \cup {NotTold} :
          /\ told' = [told EXCEPT ![c] = tt]
          /\ \A n \in Owed(c) \ page : (IF tt = NotTold THEN Cursor(c) ELSE tt) < n
    BY <1>1, <1>5, <2>2
  <2> QED BY <1>1, <2>1, <2>3 DEF Reread
<1>9. [FeedNext]_feed
  BY <1>8 DEF FeedNext
<1>10. FeedInv'
  BY <1>9, FeedStepKeeps DEF StreamInv
<1>11. told'[c] = t /\ paged'[c] = paged[c] \cup page
       /\ \A d \in Client \ {c} : told'[d] = told[d] /\ paged'[d] = paged[d]
  <2>1. told \in [Client -> 0..MaxNote \cup {NotTold}] /\ paged \in [Client -> SUBSET Note]
    BY DEF StreamInv, StreamTypeOK
  <2> HIDE DEF t
  <2> QED BY <1>1, <2>1
<1>12. StreamTypeOK'
  <2>1. told' \in [Client -> 0..MaxNote \cup {NotTold}]
    <3>1. told' \in [Client -> stored' \cup {0, NotTold}] /\ stored' \subseteq Note
      BY <1>10 DEF FeedInv, FeedTypes
    <3>2. stored' \cup {0, NotTold} \subseteq 0..MaxNote \cup {NotTold}
      <4>1. 0 \in 0..MaxNote /\ Note \subseteq 0..MaxNote
        BY NoteFeedAssumption DEF Note
      <4>2. stored' \subseteq 0..MaxNote
        BY <3>1, <4>1
      <4> QED BY <4>1, <4>2, Zenon
    <3> QED BY <3>1, <3>2
  <2>2. paged' \in [Client -> SUBSET Note]
    BY <1>10 DEF FeedInv, FeedTypes
  <2> QED BY <1>1, <2>1, <2>2 DEF StreamInv, StreamTypeOK
<1>13. IdsDrawn' /\ ChannelInOrder' /\ BatchIsNext'
  BY <1>1, TableAndPollerStay
<1>14. ASSUME NEW d \in Client
       PROVE  InPlace(d)' /\ OnItsWay(d)'
  <2>1. CASE d # c
    BY <1>1, <1>11, <2>1, StreamStays
  <2>2. CASE d = c
    <3>1. Cursor(c)' = Cursor(c) /\ WantedAfter(c, Cursor(c))' = WantedAfter(c, Cursor(c))
      BY <1>1 DEF Cursor, WantedAfter, Wanted
    <3>2. InPlace(c)'
      BY <1>1, <3>1 DEF StreamInv, InPlace
    <3>3. Owed(c)' \subseteq Owed(c) \ page
      BY <1>1, <1>11 DEF Owed, Wanted, Have
    <3>4. told'[c] = NotTold => Owed(c)' = {}
      BY <1>7, <1>11, <3>3
    <3>5. OnItsWay(c)'
      BY <3>4 DEF OnItsWay, InReplay, Ahead
    <3> QED BY <2>2, <3>2, <3>5
  <2> QED BY <2>1, <2>2
<1> QED BY <1>9, <1>10, <1>12, <1>13, <1>14 DEF StreamInv

-----------------------------------------------------------------------------
(* Every step.                                                               *)
LEMMA StreamStepKeeps ==
    ASSUME StreamInv, [Next]_vars
    PROVE  [FeedNext]_feed /\ StreamInv'
<1>1. CASE DrawId \/ Poller \/ ListenLost \/ Restart
  BY <1>1, DrawIdKeeps, StartReadKeeps, WaitingKeeps, SelectKeeps, SendKeeps, RestartKeeps
  DEF Poller
<1>2. CASE \E n \in inserting : CommitNote(n)
  BY <1>2, CommitNoteKeeps
<1>3. ASSUME NEW c \in Client, Subscribe(c) \/ Stream(c) \/ Disconnect(c) \/ ReadPage(c)
      PROVE  [FeedNext]_feed /\ StreamInv'
  BY <1>3, SubscribeKeeps, ReplayKeeps, ClosedKeeps, YieldReplayKeeps, YieldLiveKeeps,
     ReadPageKeeps DEF Stream
<1>4. CASE UNCHANGED vars
  <2> USE <1>4 DEF vars, table, poller, stream, client
  <2>1. UNCHANGED feed
    BY DEF feed
  <2>2. FeedInv'
    BY <2>1, FeedStepKeeps DEF StreamInv
  <2>3. StreamTypeOK'
    BY DEF StreamInv, StreamTypeOK
  <2>4. IdsDrawn' /\ ChannelInOrder' /\ BatchIsNext'
    BY TableAndPollerStay
  <2>5. \A c \in Client : InPlace(c)' /\ OnItsWay(c)'
    BY StreamStays
  <2> QED BY <2>1, <2>2, <2>3, <2>4, <2>5 DEF StreamInv
<1> QED BY <1>1, <1>2, <1>3, <1>4 DEF Next

(* What the relay keeps up, step by step: the poller's page is what comes    *)
(* next, and what an open stream owes its client lies in the replay, in the  *)
(* channel or ahead of the poller (routes/notes.rs:110-165, 208-276).        *)
THEOREM StreamInvariance == Spec => []StreamInv
<1>1. StreamInv /\ [Next]_vars => StreamInv'
  BY StreamStepKeeps
<1> QED BY StreamInitially, <1>1, PTL DEF Spec

(* Every variable keeps its type, for any page, replay and channel size.     *)
THEOREM StreamTypeCorrect == Spec => []StreamTypeOK
<1>1. StreamInv => StreamTypeOK
  BY DEF StreamInv
<1> QED BY StreamInvariance, <1>1, PTL

(* The relay implements the feed its clients are promised: every step of it  *)
(* is a step of the feed, or none.                                           *)
THEOREM FeedImplemented == Spec => FeedSpec
<1>1. Init => FeedInit
  BY DEF Init
<1>2. StreamInv /\ [Next]_vars => [FeedNext]_feed
  BY StreamStepKeeps
<1> QED BY StreamInvariance, <1>1, <1>2, PTL DEF Spec, FeedSpec

(* No client misses a note behind its cursor or, after a resync, behind its  *)
(* re-paging ("no gaps", notes.rs:86).                                       *)
THEOREM NothingMissed == Spec => []NoGap
BY FeedImplemented, FeedKeepsPromise, PTL

(* A client's events never repeat a note and never go back, across           *)
(* reconnects and restarts too ("no duplicates", notes.rs:86).               *)
THEOREM NothingTwice == Spec => []EventsInOrder
BY FeedImplemented, FeedKeepsPromise, PTL
=============================================================================
