----------------------------- MODULE MCApplication -----------------------------
(* Small instances of Application.                                          *)
EXTENDS Application, TLC

CONSTANTS r1, r2, i1, i2, i3, t1, t2, t3

=============================================================================
