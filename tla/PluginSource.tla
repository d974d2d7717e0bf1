----------------------------- MODULE PluginSource ------------------------------
(***************************************************************************)
(* What the plugin promises those who read its configuration: whether it is*)
(* mounted, and the serviceable configuration its source thunk yields, here*)
(* known by its credential reference.  It comes with some configuration,   *)
(* changes it while it is there, teardown included, and goes without       *)
(* touching it; then it stays what it was.                                 *)
(*                                                                         *)
(* HostWiring implements it: see SuppliesSource there.  ControlPlane relies*)
(* on it, and on nothing else of the plugin.                               *)
(***************************************************************************)
CONSTANT Refs           \* the serviceable configurations

VARIABLES
    mounted,            \* is the plugin mounted, or still being torn down?
    apiKeyEnv           \* the reference current() yields

sourceVars == <<mounted, apiKeyEnv>>

Init == mounted = FALSE /\ apiKeyEnv \in Refs

\* Whatever the composition entry or the stored section names at the mount.
Mounts == ~mounted /\ mounted' = TRUE /\ apiKeyEnv' \in Refs

\* Its teardown ends: who is at work on the host goes on with the configuration there was.
Unmounts == mounted /\ mounted' = FALSE /\ UNCHANGED apiKeyEnv

\* A commit, or another source.
Changes == mounted /\ apiKeyEnv' \in Refs \ {apiKeyEnv} /\ UNCHANGED mounted

Next == Mounts \/ Unmounts \/ Changes

Spec == Init /\ [][Next]_sourceVars
===============================================================================
