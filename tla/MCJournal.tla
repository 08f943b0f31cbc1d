----------------------------- MODULE MCJournal -----------------------------
(* Session recording in two checkouts of one repository, the first shared  *)
(* by two windows.                                                         *)
EXTENDS Journal

CONSTANTS t1, t2, w1, w2, w3, r1, r2

MCHome == [w \in {w1, w2, w3} |-> IF w = w3 THEN t2 ELSE t1]
MCSessions ==
    [w \in {w1, w2, w3} |->
        CASE w = w1 -> {r1, r2} [] w = w2 -> {r2} [] OTHER -> {r1}]
MCLegacy == {<<t1, r1>>}
=============================================================================
