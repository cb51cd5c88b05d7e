--------------------------- MODULE OrderedResponse ---------------------------
(***************************************************************************)
(* What a response promises the application: what it writes is sent in     *)
(* the order it was written, each write once, some time before the         *)
(* response is complete; only what the application cleared or suppressed   *)
(* is not sent.                                                            *)
(***************************************************************************)
EXTENDS Naturals, Sequences

VARIABLES
  written,   \* how many writes there were: they are numbered
  pending,   \* the writes not yet sent, in order
  sent,      \* those that were sent, in order
  dropped    \* those the application dropped

vars == <<written, pending, sent, dropped>>

Elements(s) == {s[i] : i \in DOMAIN s}

Init == written = 0 /\ pending = <<>> /\ sent = <<>> /\ dropped = {}

Write ==
  /\ written' = written + 1
  /\ \/ pending' = Append(pending, written') /\ UNCHANGED <<sent, dropped>>
     \/ sent' = sent \o pending \o <<written'>> /\ pending' = <<>> /\ UNCHANGED dropped
     \/ /\ dropped' = dropped \cup Elements(pending)
        /\ sent' = Append(sent, written') /\ pending' = <<>>

Send ==
  /\ sent' = sent \o pending
  /\ pending' = <<>>
  /\ UNCHANGED <<written, dropped>>

Drop ==
  /\ dropped' = dropped \cup Elements(pending)
  /\ pending' = <<>>
  /\ UNCHANGED <<written, sent>>

Next == Write \/ Send \/ Drop

Spec == Init /\ [][Next]_vars

-----------------------------------------------------------------------------
\* Every write is in one place, and what is sent is in the order of the writes.
SentInOrder ==
  /\ \A i, j \in DOMAIN (sent \o pending) : i < j => (sent \o pending)[i] < (sent \o pending)[j]
  /\ Elements(sent \o pending) \cup dropped = 1 .. written
  /\ Elements(sent \o pending) \cap dropped = {}
=============================================================================
