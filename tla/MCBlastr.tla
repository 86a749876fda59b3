------------------------------- MODULE MCBlastr -------------------------------
(***************************************************************************)
(* Two events for one relay; two pods share the retry list.  The channel   *)
(* holds one event and a round fetches one entry.                          *)
(***************************************************************************)
EXTENDS Blastr

CONSTANTS e1, e2, r1, p1, p2, refused, timeout

MCEvents == {e1, e2}
MCRelays == {r1}
MCPods == {p1, p2}
MCErrors == {refused, timeout}
=============================================================================
