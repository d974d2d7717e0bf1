---------------------------- MODULE MCControlPlane -----------------------------
(* Two references, and two calls at a time: a mount read or a call of a    *)
(* card that has left, beside an action.                                   *)
EXTENDS ControlPlane
CONSTANTS r1, r2
MCRefs == {r1, r2}
MCCalls == {1, 2}
===============================================================================
