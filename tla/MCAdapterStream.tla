--------------------------- MODULE MCAdapterStream ----------------------------
(* Two requests, three catalogs of which the second lacks the model.       *)
EXTENDS AdapterStream
CONSTANTS r1, r2
MCRequests == {r1, r2}
MCListing == {1, 3}
===============================================================================
