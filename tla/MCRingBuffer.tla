---------------------------- MODULE MCRingBuffer ----------------------------
(* Instances of RingBuffer for TLC.                                        *)
EXTENDS RingBuffer

\* One call of each kind, and those whose arguments matter: a start index that
\* lies ahead of or behind the readable range, a range of all elements, of the
\* first two and of the last two.
AllRequests ==
  {[op |-> o, start |-> s, count |-> 0] : o \in {"last", "first"}, s \in {0, 2}}
  \cup {[op |-> o, start |-> s, count |-> c] :
          o \in {"spansFirst", "spansLast"}, s \in {0, 3}, c \in {0, 2}}

\* The calls that lock the oldest element, and those that lock the newest.
FewRequests ==
  {[op |-> o, start |-> 0, count |-> 0] : o \in {"spansFirst", "last"}}
=============================================================================
