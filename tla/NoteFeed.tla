------------------------------ MODULE NoteFeed ------------------------------
(***************************************************************************)
(* What a client of the encrypted-note relay is promised, whatever goes on *)
(* behind it: events in increasing id order, and no gap behind the last    *)
(* one unless the client was told to re-page. NoteStream implements it.    *)
(*                                                                         *)
(* The promise does not cover every note. `excused[c]` names the others:   *)
(* what was stored before c first subscribed without a cursor, an id that  *)
(* became visible after a higher one, and what a poller that starts while  *)
(* c listens takes for old. A note c has passed is never excused later.    *)
(***************************************************************************)
EXTENDS Naturals, Sequences

CONSTANTS
    Client,     \* subscribers, each one EventSource with its cursor
    Pool,
    PoolOf,     \* PoolOf[n]: the pool of the note with id n
    Wants,      \* Wants[c]: the pools in c's filter
    MaxNote,    \* bound: ids drawn from the sequence of encrypted_notes
    NotTold     \* told[c] when c has nothing to re-page

VARIABLES
    stored,     \* committed rows of encrypted_notes
    got,        \* got[c]: ids of the events c received, in order
    paged,      \* paged[c]: notes c read from /v1/notes after a resync
    told,       \* told[c]: where c has to re-page from, or NotTold
    excused     \* excused[c]: notes nobody promised to c

feed == <<stored, got, paged, told, excused>>

Note == 1..MaxNote

ASSUME NoteFeedAssumption ==
    /\ MaxNote \in Nat /\ NotTold \notin Nat
    /\ PoolOf \in [Note -> Pool] /\ Wants \in [Client -> SUBSET Pool]

-----------------------------------------------------------------------------
Wanted(c, n) == PoolOf[n] \in Wants[c]

(* Last-Event-ID as the browser keeps it.                                    *)
Cursor(c) == IF got[c] = <<>> THEN 0 ELSE got[c][Len(got[c])]

Have(c) == {got[c][i] : i \in DOMAIN got[c]} \cup paged[c]

Owed(c) == {n \in stored : Wanted(c, n) /\ n \notin excused[c] /\ n \notin Have(c)}

(* Up to here c relies on what it has.                                       *)
Trusted(c) == IF told[c] = NotTold THEN Cursor(c) ELSE told[c]

(* The earlier of c's cursor and where it already has to re-page from.       *)
RepageFrom(c) ==
    IF told[c] # NotTold /\ told[c] < Cursor(c) THEN told[c] ELSE Cursor(c)

-----------------------------------------------------------------------------
FeedInit ==
    /\ stored = {}
    /\ got = [c \in Client |-> <<>>]
    /\ paged = [c \in Client |-> {}]
    /\ told = [c \in Client |-> NotTold]
    /\ excused = [c \in Client |-> {}]

(* A row becomes visible; behind a higher one, nobody is promised it.        *)
Store(n) ==
    /\ n \notin stored
    /\ stored' = stored \cup {n}
    /\ excused' = [c \in Client |->
                     IF \E m \in stored : n < m THEN excused[c] \cup {n} ELSE excused[c]]
    /\ UNCHANGED <<got, paged, told>>

Excuse ==
    /\ excused' \in [Client -> SUBSET Note]
    /\ \A c \in Client :
          /\ excused[c] \subseteq excused'[c]
          /\ \A n \in excused'[c] \ excused[c] : n \in stored /\ Cursor(c) < n
    /\ UNCHANGED <<stored, got, paged, told>>

(* c receives note n, and unless it was told to re-page nothing owed to it   *)
(* lies before n.                                                            *)
Deliver(c, n) ==
    /\ n \in stored /\ Wanted(c, n) /\ Cursor(c) < n
    /\ told[c] = NotTold => \A m \in Owed(c) : n <= m
    /\ got' = [got EXCEPT ![c] = Append(@, n)]
    /\ UNCHANGED <<stored, paged, told, excused>>

Resync(c) ==
    /\ told' = [told EXCEPT ![c] = RepageFrom(c)]
    /\ UNCHANGED <<stored, got, paged, excused>>

(* c reads on, and then relies on no more than it has.                       *)
Reread(c) ==
    /\ told[c] # NotTold
    /\ \E rows \in SUBSET stored, t \in stored \cup {NotTold} :
          /\ paged' = [paged EXCEPT ![c] = @ \cup rows]
          /\ told' = [told EXCEPT ![c] = t]
          /\ \A n \in Owed(c) \ rows : (IF t = NotTold THEN Cursor(c) ELSE t) < n
    /\ UNCHANGED <<stored, got, excused>>

FeedNext ==
    \/ \E n \in Note : Store(n)
    \/ Excuse
    \/ \E c \in Client : Resync(c) \/ Reread(c) \/ \E n \in Note : Deliver(c, n)

FeedSpec == FeedInit /\ [][FeedNext]_feed

-----------------------------------------------------------------------------
(* Properties.                                                               *)

(* Whatever is owed to a client lies beyond what it relies on: it misses     *)
(* nothing behind its cursor, nor, after a resync, behind its re-paging      *)
(* ("no gaps", notes.rs:86).                                                 *)
NoGap == \A c \in Client : \A n \in Owed(c) : Trusted(c) < n

(* A client's events never repeat a note and never go back ("no duplicates", *)
(* notes.rs:86), across reconnects too.                                      *)
EventsInOrder ==
    \A c \in Client : \A i, j \in DOMAIN got[c] : i < j => got[c][i] < got[c][j]
=============================================================================
