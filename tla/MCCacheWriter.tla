---------------------------- MODULE MCCacheWriter ----------------------------
(* Two processes sharing one home; any fault but a failing rm.            *)
EXTENDS CacheWriter
MCAttempts == 1 .. 2
MCFaults == {"op", "power", "crash"}
==============================================================================
