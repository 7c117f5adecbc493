----------------------------- MODULE NoteStream -----------------------------
(***************************************************************************)
(* attesta-api: the encrypted-note relay of routes/notes.rs. One background *)
(* task reads new rows of encrypted_notes by id and broadcasts them on a   *)
(* bounded channel; each SSE subscriber first replays from its cursor and  *)
(* then follows the channel; /v1/notes pages through the table.            *)
(*                                                                         *)
(* A step is one query, or one note sent or received, so that the indexer, *)
(* the task and the subscribers interleave between them. Notifications are *)
(* wake-ups only and the wait for one ends after 10 s anyway, so a wake-up *)
(* may come at any time. An INSERT draws its id before it commits: with    *)
(* several indexers rows can become visible out of id order.               *)
(*                                                                         *)
(* The client (external) is an EventSource: it reconnects with the id of   *)
(* its last event, and on a resync it re-pages from there.                 *)
(***************************************************************************)
EXTENDS NoteFeed, Integers, FiniteSets

CONSTANTS
    Writers,      \* indexers: INSERTs into encrypted_notes under way at once
    Capacity,     \* slots of the broadcast channel (1024)
    ReplayLimit,  \* REPLAY_LIMIT (5000)
    DrainPage,    \* rows per query of drain_new_notes (1000)
    ListPage,     \* PAGE_SIZE of /v1/notes (500)
    Polls,        \* polls before the next attempt to LISTEN (15)
    MaxFaults     \* bound: failed queries and API restarts

VARIABLES
    nextId,     \* the sequence behind encrypted_notes.id
    inserting,  \* ids drawn by INSERTs that have not committed
    at,         \* where poll_new_notes is
    lastId,     \* its last_id
    batch,      \* rows of its current query still to send
    more,       \* whether that query filled its page
    polls,      \* polls left in fallback mode; 0 in LISTEN mode
    sent,       \* every note sent on the channel of this process
    conn,       \* conn[c]: "off", "replay" or "open"
    replay,     \* replay[c]: replayed rows the stream has yet to yield
    overflow,   \* overflow[c]: a resync event follows them
    lastSeen,   \* lastSeen[c]: last_seen of c's stream
    rx,         \* rx[c]: position of c's receiver in sent
    faults      \* history: failures so far

table  == <<stored, nextId, inserting>>
poller == <<at, lastId, batch, more, polls>>
stream == <<conn, replay, overflow, lastSeen, rx>>
client == <<got, paged, told>>
vars == <<table, poller, sent, stream, client, excused, faults>>

ASSUME NoteStreamAssumption ==
    /\ Writers \in Nat \ {0} /\ Polls \in Nat \ {0}
    /\ Capacity \in Nat \ {0} /\ ReplayLimit \in Nat \ {0}
    /\ DrainPage \in Nat \ {0} /\ ListPage \in Nat \ {0}
    /\ MaxFaults \in Nat

-----------------------------------------------------------------------------
(* ORDER BY id LIMIT k over the rows S; such a page is full when S has k.    *)
FirstOf(S, k) == {n \in S : Cardinality({m \in S : m < n}) < k}
IsFull(S, k) == Cardinality(S) >= k

Newest(S) == IF S = {} THEN 0 ELSE CHOOSE n \in S : \A m \in S : m <= n
Earliest(S) == CHOOSE n \in S : \A m \in S : n <= m

After(n) == {m \in stored : n < m}
WantedAfter(c, n) == {m \in stored : n < m /\ Wanted(c, m)}

(* The channel keeps its last Capacity notes.                                *)
Oldest == IF Len(sent) > Capacity THEN Len(sent) - Capacity + 1 ELSE 1

Failing == faults < MaxFaults /\ faults' = faults + 1

Init ==
    /\ FeedInit
    /\ nextId = 1 /\ inserting = {}
    /\ at = "start" /\ lastId = 0 /\ batch = {} /\ more = FALSE /\ polls = 0
    /\ sent = <<>>
    /\ conn = [c \in Client |-> "off"]
    /\ replay = [c \in Client |-> {}]
    /\ overflow = [c \in Client |-> FALSE]
    /\ lastSeen = [c \in Client |-> 0]
    /\ rx = [c \in Client |-> 1]
    /\ faults = 0

-----------------------------------------------------------------------------
(* The table: an indexer's INSERT draws an id, then commits. One that fails  *)
(* leaves a hole in the ids: here it just never commits.                     *)
DrawId ==
    /\ nextId <= MaxNote /\ Cardinality(inserting) < Writers
    /\ nextId' = nextId + 1
    /\ inserting' = inserting \cup {nextId}
    /\ UNCHANGED <<stored, poller, sent, stream, client, excused, faults>>

CommitNote(n) ==
    /\ n \in inserting
    /\ inserting' = inserting \ {n}
    /\ Store(n)
    /\ UNCHANGED <<nextId, poller, sent, stream, faults>>

-----------------------------------------------------------------------------
(* poll_new_notes. It starts from the newest id, or from 0 if it cannot read *)
(* it. Whatever a subscriber has not replayed by then it will not get: those *)
(* notes are excused.                                                        *)
StartRead ==
    /\ at = "start" /\ at' = "listen"
    /\ \/ /\ lastId' = Newest(stored)
          /\ excused' = [c \in Client |->
                           IF conn[c] = "open" THEN excused[c] \cup After(lastSeen[c])
                           ELSE excused[c]]
          /\ UNCHANGED faults
       \/ Failing /\ lastId' = 0 /\ UNCHANGED excused
    /\ UNCHANGED <<table, batch, more, polls, sent, stream, client>>

(* Variant: a new LISTEN starts from the newest id again.                    *)
ListenAfresh ==
    /\ at = "listen" /\ at' = "select"
    /\ polls' = 0
    /\ lastId' = Newest(stored)
    /\ UNCHANGED <<table, batch, more, sent, stream, client, excused, faults>>

Listen ==
    /\ at = "listen" /\ at' = "select"
    /\ polls' = 0
    /\ UNCHANGED <<table, lastId, batch, more, sent, stream, client, excused, faults>>

(* LISTEN cannot be set up, or its connection breaks: fall back to polling.  *)
ListenLost ==
    /\ at \in {"listen", "wait"} /\ at' = "sleep"
    /\ polls' = Polls
    /\ UNCHANGED <<table, lastId, batch, more, sent, stream, client, excused, faults>>

(* Variant: LISTEN mode waits for a notification, and it was lost.           *)
WakeNotified ==
    /\ at = "sleep" /\ at' = "select"
    /\ UNCHANGED <<table, lastId, batch, more, polls, sent, stream, client, excused, faults>>

(* A notification, or 10 s without one; in fallback mode, 2 s.               *)
Wake ==
    /\ at \in {"wait", "sleep"} /\ at' = "select"
    /\ UNCHANGED <<table, lastId, batch, more, polls, sent, stream, client, excused, faults>>

(* Variant: the polls are counted in LISTEN mode too.                        *)
DrainedAlways ==
    /\ at' = IF polls > 1 THEN "sleep" ELSE IF polls = 1 THEN "listen" ELSE "wait"
    /\ polls' = polls - 1

(* drain_new_notes returns to the LISTEN loop or to the polling loop.        *)
Drained ==
    /\ at' = IF polls > 1 THEN "sleep" ELSE IF polls = 1 THEN "listen" ELSE "wait"
    /\ polls' = IF polls > 0 THEN polls - 1 ELSE 0

Select ==
    /\ at = "select"
    /\ LET rows == FirstOf(After(lastId), DrainPage) IN
         \/ /\ rows # {}
            /\ batch' = rows
            /\ more' = IsFull(After(lastId), DrainPage)
            /\ at' = "send"
            /\ UNCHANGED <<polls, faults>>
         \/ /\ rows = {} /\ Drained
            /\ UNCHANGED <<batch, more, faults>>
         \/ Failing /\ Drained /\ UNCHANGED <<batch, more>>
    /\ UNCHANGED <<table, lastId, sent, stream, client, excused>>

Send ==
    /\ at = "send"
    /\ LET n == Earliest(batch) IN
         /\ lastId' = n
         /\ sent' = Append(sent, n)
         /\ batch' = batch \ {n}
         /\ IF batch # {n} THEN UNCHANGED <<at, more, polls>>
            ELSE /\ more' = FALSE
                 /\ IF more THEN at' = "select" /\ UNCHANGED polls ELSE Drained
    /\ UNCHANGED <<table, stream, client, excused, faults>>

-----------------------------------------------------------------------------
(* stream_notes. Subscribing comes first, then the replay query. A client    *)
(* with a cursor sends it; without one it replays everything (since_cursor   *)
(* 0) or asks for live notes only, and then nobody promised it the old ones. *)
Subscribe(c) ==
    /\ conn[c] = "off"
    /\ rx' = [rx EXCEPT ![c] = Len(sent) + 1]
    /\ lastSeen' = [lastSeen EXCEPT ![c] = 0]
    /\ \/ /\ conn' = [conn EXCEPT ![c] = "replay"]
          /\ UNCHANGED excused
       \/ /\ Cursor(c) = 0
          /\ conn' = [conn EXCEPT ![c] = "open"]
          /\ excused' = [excused EXCEPT ![c] = @ \cup stored]
    /\ UNCHANGED <<table, poller, sent, replay, overflow, client, faults>>

Replay(c) ==
    /\ conn[c] = "replay"
    /\ LET rows == WantedAfter(c, Cursor(c))
           page == FirstOf(rows, ReplayLimit)
       IN  /\ replay' = [replay EXCEPT ![c] = page]
           /\ overflow' = [overflow EXCEPT ![c] = IsFull(rows, ReplayLimit)]
           /\ lastSeen' = [lastSeen EXCEPT ![c] = IF page = {} THEN Cursor(c) ELSE Newest(page)]
    /\ conn' = [conn EXCEPT ![c] = "open"]
    /\ UNCHANGED <<table, poller, sent, rx, client, excused, faults>>

Closed(c) ==
    /\ conn' = [conn EXCEPT ![c] = "off"]
    /\ replay' = [replay EXCEPT ![c] = {}]
    /\ overflow' = [overflow EXCEPT ![c] = FALSE]
    /\ lastSeen' = [lastSeen EXCEPT ![c] = 0]
    /\ rx' = [rx EXCEPT ![c] = 1]

(* The replay query fails: an error response.                                *)
ReplayFails(c) ==
    /\ conn[c] = "replay" /\ Failing /\ Closed(c)
    /\ UNCHANGED <<table, poller, sent, client, excused>>

(* The stream yields the replayed rows in order, then the resync event.      *)
YieldReplay(c) ==
    /\ conn[c] = "open"
    /\ \/ /\ replay[c] # {}
          /\ replay' = [replay EXCEPT ![c] = @ \ {Earliest(@)}]
          /\ got' = [got EXCEPT ![c] = Append(@, Earliest(replay[c]))]
          /\ UNCHANGED <<overflow, told>>
       \/ /\ replay[c] = {} /\ overflow[c]
          /\ overflow' = [overflow EXCEPT ![c] = FALSE]
          /\ told' = [told EXCEPT ![c] = RepageFrom(c)]
          /\ UNCHANGED <<replay, got>>
    /\ UNCHANGED <<table, poller, sent, conn, lastSeen, rx, paged, excused, faults>>

(* Variant: a receiver that fell behind goes on without a word.              *)
LaggedSilently(c) ==
    /\ rx[c] < Oldest
    /\ rx' = [rx EXCEPT ![c] = Oldest]
    /\ UNCHANGED <<told, lastSeen, got>>

(* The receiver fell behind: it jumps to the oldest note kept, and the       *)
(* stream yields a resync event.                                             *)
Lagged(c) ==
    /\ rx[c] < Oldest
    /\ rx' = [rx EXCEPT ![c] = Oldest]
    /\ told' = [told EXCEPT ![c] = RepageFrom(c)]
    /\ UNCHANGED <<lastSeen, got>>

(* Variant: the overlap of replay and channel is not deduplicated.           *)
TakeAll(c) ==
    /\ rx[c] >= Oldest
    /\ rx' = [rx EXCEPT ![c] = @ + 1]
    /\ LET n == sent[rx[c]] IN
         /\ lastSeen' = [lastSeen EXCEPT ![c] = n]
         /\ got' = IF Wanted(c, n) THEN [got EXCEPT ![c] = Append(@, n)] ELSE got
    /\ UNCHANGED told

(* The next note of the channel, unless seen or filtered out.                *)
Take(c) ==
    /\ rx[c] >= Oldest
    /\ rx' = [rx EXCEPT ![c] = @ + 1]
    /\ LET n == sent[rx[c]] IN
         IF n <= lastSeen[c] THEN UNCHANGED <<lastSeen, got>>
         ELSE /\ lastSeen' = [lastSeen EXCEPT ![c] = n]
              /\ got' = IF Wanted(c, n) THEN [got EXCEPT ![c] = Append(@, n)] ELSE got
    /\ UNCHANGED told

(* The channel is polled once the replay is used up.                         *)
YieldLive(c) ==
    /\ conn[c] = "open" /\ replay[c] = {} /\ ~ overflow[c]
    /\ rx[c] <= Len(sent)
    /\ Lagged(c) \/ Take(c)
    /\ UNCHANGED <<table, poller, sent, conn, replay, overflow, paged, excused, faults>>

Disconnect(c) ==
    /\ conn[c] # "off" /\ Closed(c)
    /\ UNCHANGED <<table, poller, sent, client, excused, faults>>

(* A client told to re-page reads /v1/notes page by page until a short one.  *)
ReadPage(c) ==
    /\ told[c] # NotTold
    /\ LET rows == WantedAfter(c, told[c])
           page == FirstOf(rows, ListPage)
       IN  /\ paged' = [paged EXCEPT ![c] = @ \cup page]
           /\ told' = [told EXCEPT ![c] = IF IsFull(rows, ListPage) THEN Newest(page)
                                          ELSE NotTold]
    /\ UNCHANGED <<table, poller, sent, stream, got, excused, faults>>

(* The API process dies and comes back: its channel and streams are gone.    *)
Restart ==
    /\ Failing
    /\ at' = "start" /\ lastId' = 0 /\ batch' = {} /\ more' = FALSE /\ polls' = 0
    /\ sent' = <<>>
    /\ conn' = [c \in Client |-> "off"]
    /\ replay' = [c \in Client |-> {}]
    /\ overflow' = [c \in Client |-> FALSE]
    /\ lastSeen' = [c \in Client |-> 0]
    /\ rx' = [c \in Client |-> 1]
    /\ UNCHANGED <<table, client, excused>>

-----------------------------------------------------------------------------
Poller == StartRead \/ Listen \/ Wake \/ Select \/ Send
Stream(c) == Replay(c) \/ ReplayFails(c) \/ YieldReplay(c) \/ YieldLive(c)

Next ==
    \/ DrawId \/ Poller \/ ListenLost \/ Restart
    \/ \E n \in inserting : CommitNote(n)
    \/ \E c \in Client : Subscribe(c) \/ Stream(c) \/ Disconnect(c) \/ ReadPage(c)

Spec == Init /\ [][Next]_vars

(* poll_new_notes never returns and every wait in it ends; the server goes   *)
(* on with each open stream. Nothing is assumed of indexers or clients, and  *)
(* LISTEN may fail as often as it likes.                                     *)
FairSpec == Spec /\ WF_vars(Poller) /\ \A c \in Client : WF_vars(Stream(c))

-----------------------------------------------------------------------------
(* Properties, besides NoGap, EventsInOrder and FeedSpec of NoteFeed.        *)

(* Every variable keeps its type; the receivers stay inside the channel.     *)
StreamTypeOK ==
    /\ stored \subseteq Note /\ inserting \subseteq Note /\ nextId \in 1..(MaxNote + 1)
    /\ at \in {"start", "listen", "select", "send", "wait", "sleep"}
    /\ lastId \in 0..MaxNote /\ batch \subseteq Note /\ more \in BOOLEAN
    /\ polls \in 0..Polls
    /\ sent \in Seq(Note)
    /\ conn \in [Client -> {"off", "replay", "open"}]
    /\ replay \in [Client -> SUBSET Note] /\ overflow \in [Client -> BOOLEAN]
    /\ lastSeen \in [Client -> 0..MaxNote]
    /\ rx \in [Client -> Nat \ {0}]
    /\ got \in [Client -> Seq(Note)] /\ paged \in [Client -> SUBSET Note]
    /\ told \in [Client -> 0..MaxNote \cup {NotTold}]
    /\ excused \in [Client -> SUBSET Note]
    /\ faults \in 0..MaxFaults

(* Whatever happens to LISTEN ("the stream never goes down with it",         *)
(* notes.rs:207), a stream that stays open catches up again and again: its   *)
(* client is owed nothing, or has to re-page.                                *)
StreamsCatchUp ==
    \A c \in Client :
        []<>(conn[c] # "open" \/ told[c] # NotTold \/ Owed(c) = {})

(* "No gaps" (notes.rs:86) without exception: from its first event on a      *)
(* client has every note up to where it relies on the stream. A subscriber   *)
(* that replays before the poller has read its starting point breaks it.     *)
NoGapsAtAll ==
    \A c \in Client : got[c] # <<>> =>
        \A n \in stored :
            Wanted(c, n) /\ got[c][1] < n /\ n <= Trusted(c) => n \in Have(c)
=============================================================================
