---------------------------- MODULE MCNoteStream ----------------------------
(* NoteStream with notes of two pools: every third one is of pool b.         *)
EXTENDS NoteStream, TLC

CONSTANTS c1, c2, a, b

MCPoolOf == [n \in Note |-> IF n % 3 = 2 THEN b ELSE a]
MCWants == [c \in Client |-> IF c = c1 THEN {a, b} ELSE {a}]
=============================================================================
