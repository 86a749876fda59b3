----------------------------- MODULE MCWriteAhead -----------------------------
(***************************************************************************)
(* Two pods drain four writes of two events, so that an event is queued    *)
(* more than once; as many faults as it takes to discard an event.         *)
(***************************************************************************)
EXTENDS WriteAhead

CONSTANTS e1, e2, p1, p2

MCEvents == {e1, e2}
MCPods == {p1, p2}
=============================================================================
