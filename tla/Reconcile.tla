------------------------------ MODULE Reconcile ------------------------------
(***************************************************************************)
(* reconcile (src/reconcile.ts) and the checks readCache applies to what   *)
(* was written from its result (src/cache-parse.ts, src/cache-schema.ts).  *)
(*                                                                         *)
(* A reconciliation state is a record of three partial functions over the  *)
(* model ids - catalog, quarantine, deprecated - and the instant           *)
(* generatedAt; an observation of the sources is a record                  *)
(*   known   : id -> the metadata of a parsed models.dev record            *)
(*   invalid : the ids whose models.dev record did not parse               *)
(*   live    : the ids the live endpoint lists                             *)
(* A metadata value is either a member of Models, the facts of the catalog *)
(* model it derives (deriveCatalogModel), or Underviable.  A catalog model *)
(* is those facts and whether the key `family` is there: parseModelRecord  *)
(* sets it on every record, the renderers write it, and parseCatalogModel  *)
(* drops it when a file is read back.  The order of the arrays is left     *)
(* out: every array is rendered sorted by id.                              *)
(***************************************************************************)
EXTENDS Integers

CONSTANTS
    Ids,            \* model ids
    Models,         \* the facts of a catalog model, its `family` left out
    Underviable,    \* metadata no catalog model can be derived from
    Grace           \* FOURTEEN_DAYS_MS

ASSUME ReconcileAssumption ==
    /\ Underviable \notin Models
    /\ Grace \in Nat

NotEvicted == -1      \* evictedAt is undefined

Reasons == {"NO_MODELS_DEV_METADATA", "INVALID_RECORD", "UNDERVIABLE"}

\* The partial functions from S to T.
Partial(S, T) == UNION {[D -> T] : D \in SUBSET S}

Observations ==
    {o \in [known : Partial(Ids, Models \cup {Underviable}),
            invalid : SUBSET Ids,
            live : SUBSET Ids] : o.invalid \cap DOMAIN o.known = {}}

\* The ids whose metadata derives a catalog model.
Viable(o) == {id \in DOMAIN o.known : o.known[id] \in Models}

CatalogModels == [facts : Models, family : BOOLEAN]

\* deriveCatalogModel: the family parseModelRecord set is taken along.
Derived(facts) == [facts |-> facts, family |-> TRUE]

\* parseCatalogModel of what renderCatalogModel wrote: `family` is not kept.
ParsedModel(model) == [model EXCEPT !.family = FALSE]

------------------------------------------------------------------------------
(* reconcile, part by part.                                                *)

CatalogOf(o) == [id \in o.live \cap Viable(o) |-> Derived(o.known[id])]

\* The ids recordQuarantine is called for: live ones without a model, invalid
\* records, and underviable metadata of ids not already deprecated.
QuarantinedIds(o, prev) ==
    (o.live \ Viable(o))
    \cup (o.invalid \ o.live)
    \cup ((DOMAIN o.known \ Viable(o)) \ (o.live \cup DOMAIN prev.deprecated))

ReasonOf(o, id) ==
    IF id \in DOMAIN o.known THEN "UNDERVIABLE"
    ELSE IF id \in o.invalid THEN "INVALID_RECORD" ELSE "NO_MODELS_DEV_METADATA"

\* A record of the previous run keeps its detectedAt.
QuarantineOf(o, prev, now) ==
    [id \in QuarantinedIds(o, prev) |->
        [detectedAt |-> IF id \in DOMAIN prev.quarantine
                        THEN prev.quarantine[id].detectedAt ELSE now,
         source |-> IF id \in o.live THEN "live" ELSE "models.dev",
         reason |-> ReasonOf(o, id)]]

\* Wrong variant: off by one at the boundary.
AgedLate(entry, now) ==
    IF entry.evictedAt = NotEvicted /\ now - entry.deprecatedAt > Grace + 1
    THEN [entry EXCEPT !.evictedAt = now] ELSE entry

\* Wrong variant: a tombstone past the boundary is stamped again.
AgedAgain(entry, now) ==
    IF now - entry.deprecatedAt > Grace
    THEN [entry EXCEPT !.evictedAt = now] ELSE entry

\* An entry of a model that is still not live: a tombstone stays, an entry past
\* the grace boundary becomes one, another one keeps its clock.
Aged(entry, now) ==
    IF entry.evictedAt = NotEvicted /\ now - entry.deprecatedAt > Grace
    THEN [entry EXCEPT !.evictedAt = now] ELSE entry

\* Wrong variant: a model whose metadata disappeared is forgotten.
DeprecatedOfKnown(o, prev, now) ==
    [id \in Viable(o) \ o.live |->
        IF id \in DOMAIN prev.deprecated THEN Aged(prev.deprecated[id], now)
        ELSE [deprecatedAt |-> now, evictedAt |-> NotEvicted,
              model |-> Derived(o.known[id])]]

\* Wrong variant: only a model that was served before gets an entry.
DeprecatedOfServed(o, prev, now) ==
    [id \in (DOMAIN prev.deprecated \cup (Viable(o) \cap DOMAIN prev.catalog)) \ o.live |->
        IF id \in DOMAIN prev.deprecated THEN Aged(prev.deprecated[id], now)
        ELSE [deprecatedAt |-> now, evictedAt |-> NotEvicted,
              model |-> Derived(o.known[id])]]

\* A live id is dropped (resurrected); the other entries age, whether models.dev
\* still knows them or not; a viable known id that is not live gets an entry.
DeprecatedOf(o, prev, now) ==
    [id \in (DOMAIN prev.deprecated \cup Viable(o)) \ o.live |->
        IF id \in DOMAIN prev.deprecated THEN Aged(prev.deprecated[id], now)
        ELSE [deprecatedAt |-> now, evictedAt |-> NotEvicted,
              model |-> Derived(o.known[id])]]

\* transitioned: some rendered part differs from the previous one.
SameContent(s, t) ==
    s.catalog = t.catalog /\ s.quarantine = t.quarantine /\ s.deprecated = t.deprecated

\* Wrong variant: every run is a transition.
ReconcileStateAlwaysNew(o, prev, now) ==
    [catalog |-> CatalogOf(o), quarantine |-> QuarantineOf(o, prev, now),
     deprecated |-> DeprecatedOf(o, prev, now), generatedAt |-> now]

\* The whole of reconcile: deprecated models are not pushed into the catalog.
ReconcileState(o, prev, now) ==
    LET next == [catalog |-> CatalogOf(o),
                 quarantine |-> QuarantineOf(o, prev, now),
                 deprecated |-> DeprecatedOf(o, prev, now),
                 generatedAt |-> prev.generatedAt]
    IN  IF SameContent(next, prev) THEN next ELSE [next EXCEPT !.generatedAt = now]

------------------------------------------------------------------------------
(* The reader of a cache envelope: a state and the instant refreshedAt.    *)
(* What it accepts has no `family` to drop, so it parses to itself.        *)

\* assertStrictCatalogEntry, for the catalog and for the frozen models:
\* CATALOG_MODEL_KEYS does not list `family`.
StrictKeys(s) ==
    /\ \A id \in DOMAIN s.catalog : ~s.catalog[id].family
    /\ \A id \in DOMAIN s.deprecated : ~s.deprecated[id].model.family

\* Every instant a state holds.
Instants(s) ==
    {s.generatedAt}
    \cup {s.deprecated[id].deprecatedAt : id \in DOMAIN s.deprecated}
    \cup {s.deprecated[id].evictedAt : id \in DOMAIN s.deprecated}
    \cup {s.quarantine[id].detectedAt : id \in DOMAIN s.quarantine}

\* assertNotAfter: nothing claims to be later than the refresh it came with.
NotAfterRefresh(s, refreshedAt) == \A t \in Instants(s) : t <= refreshedAt

\* parseDeprecatedFile: a tombstone is strictly later than its grace boundary.
TombstonesLate(s) ==
    \A id \in DOMAIN s.deprecated :
        LET entry == s.deprecated[id]
        IN  entry.evictedAt # NotEvicted => entry.evictedAt > entry.deprecatedAt + Grace

\* No id is both served and evicted, or both served and quarantined.
NotServedTwice(s) ==
    /\ \A id \in DOMAIN s.deprecated \cap DOMAIN s.catalog :
           s.deprecated[id].evictedAt = NotEvicted
    /\ DOMAIN s.quarantine \cap DOMAIN s.catalog = {}

\* A deprecated id that is not evicted is still in the catalog, as it was frozen.
GraceIsServed(s) ==
    \A id \in DOMAIN s.deprecated :
        s.deprecated[id].evictedAt = NotEvicted =>
            id \in DOMAIN s.catalog /\ s.catalog[id] = s.deprecated[id].model

\* assertNotFuture, for refreshedAt and every other instant.
NotFuture(s, refreshedAt, now, tolerance) ==
    \A t \in Instants(s) \cup {refreshedAt} : t - now <= tolerance

ReaderAccepts(s, refreshedAt, now, tolerance) ==
    /\ StrictKeys(s)
    /\ NotFuture(s, refreshedAt, now, tolerance)
    /\ NotAfterRefresh(s, refreshedAt)
    /\ TombstonesLate(s)
    /\ GraceIsServed(s)
    /\ NotServedTwice(s)
==============================================================================
