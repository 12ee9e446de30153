----------------------------- MODULE MCIoBuffer -----------------------------
(* Instances of IoBuffer for TLC.                                          *)
EXTENDS IoBuffer

CONSTANTS s1, s2

SinkRequests ==
  [op : {"last"}, start : 0 .. MaxWrites, count : {0}]
  \cup [op : {"spansLast"}, start : 0 .. MaxWrites, count : {2}]

\* The first sink on the core of the source and the second one on another core,
\* or both on that other core.
SinksApart == [c \in Coroutines |-> IF c = s2 THEN 2 ELSE 1]
SinksTogether == [c \in Coroutines |-> IF c = Source THEN 1 ELSE 2]
=============================================================================
