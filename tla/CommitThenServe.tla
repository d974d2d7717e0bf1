--------------------------- MODULE CommitThenServe ---------------------------
(***************************************************************************)
(* What the lifecycle, its attempts and its cache writer promise together, *)
(* in terms of three facts only: the generation published on disk, the one *)
(* the process serves, and whether a publication is still owed its swap.   *)
(* A generation is published first and served next; nothing else is        *)
(* published while a swap is owed; a newer generation is never replaced by *)
(* an older one except by a power loss, which may bring back an earlier    *)
(* publication whose directory entry was not flushed.                      *)
(*                                                                         *)
(* CatalogLifecycle implements it: see CommitsThenServes there.            *)
(***************************************************************************)
EXTENDS Naturals

CONSTANT Generations    \* 0 is the embedded catalog, published by nobody

VARIABLES
    running,      \* is there a process that serves?
    published,    \* the generation on disk, 0 if none
    fallbacks,    \* the earlier generations a power loss may bring back
    served,       \* the generation the process serves
    unserved      \* published by this process and not served yet

facts == <<running, published, fallbacks, served, unserved>>

Init == running = FALSE /\ published = 0 /\ fallbacks = {} /\ served = 0 /\ unserved = FALSE

\* A process starts, or starts over, with what is on disk or with what it embeds.
Start ==
    /\ ~unserved
    /\ running' = TRUE
    /\ served' \in {0, published}
    /\ UNCHANGED <<published, fallbacks, unserved>>

\* A generation newer than everything the disk may hold is committed.
Publish ==
    /\ running /\ ~unserved
    /\ published' \in {g \in Generations : \A h \in fallbacks \cup {published} : g > h}
    /\ fallbacks' = fallbacks \cup {published}
    /\ unserved' = TRUE
    /\ UNCHANGED <<running, served>>

\* The commit is followed by the swap.
Serve ==
    /\ running /\ unserved
    /\ served' = published
    /\ unserved' = FALSE
    /\ UNCHANGED <<running, published, fallbacks>>

\* The directory is flushed: the current publication is there to stay.
Flush ==
    /\ fallbacks' = {}
    /\ UNCHANGED <<running, published, served, unserved>>

Stop ==
    /\ running' = FALSE /\ unserved' = FALSE
    /\ UNCHANGED <<published, fallbacks, served>>

\* The power fails, whether or not a process runs.
Blackout ==
    /\ running' = FALSE /\ unserved' = FALSE
    /\ published' \in fallbacks \cup {published}
    /\ fallbacks' = {}
    /\ UNCHANGED served

Next == Start \/ Publish \/ Serve \/ Flush \/ Stop \/ Blackout

Spec == Init /\ [][Next]_facts
==============================================================================
