----------------------------- MODULE MCHostWiring ------------------------------
(* Two configurations, of which the entry is one.                          *)
EXTENDS HostWiring
CONSTANTS r1, r2, bad, none
MCRefs == {r1, r2}
===============================================================================
