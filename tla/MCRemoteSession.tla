--------------------------- MODULE MCRemoteSession ---------------------------
(* Small instances of RemoteSession.                                        *)
EXTENDS RemoteSession, TLC

CONSTANTS r1, r2, r3, r4, s1

OneSession == [r \in Requests |-> s1]

Interchangeable == Permutations(Requests \ Readers)
=============================================================================
