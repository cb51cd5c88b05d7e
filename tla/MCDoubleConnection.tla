-------------------------- MODULE MCDoubleConnection --------------------------
(* Small instances of DoubleConnection.                                     *)
EXTENDS DoubleConnection, TLC

CONSTANTS r1, r2, r3, s1, s2

OneSession == [r \in Requests |-> s1]
TwoSessions == [r \in Requests |-> IF r = r3 THEN s2 ELSE s1]

Interchangeable == Permutations(Requests \ Readers)
=============================================================================
