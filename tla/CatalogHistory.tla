--------------------------- MODULE CatalogHistory ----------------------------
(***************************************************************************)
(* The life of a reconciliation state: the generator builds the embedded   *)
(* manifest, a release ships it, and on a host successive refreshes with   *)
(* arbitrary observations of the sources, restarts through the cache file  *)
(* and a wall clock that moves in both directions.  A refresh here is a    *)
(* whole successful one (CatalogLifecycle models the ways it can fail); it *)
(* is only made when the clock is past the last one, freshnessMs being at  *)
(* least 1.                                                                *)
(***************************************************************************)
EXTENDS CatalogGenerator

CONSTANTS
    MaxTime,            \* bound: the clock reads BuildTime .. MaxTime
    FutureTolerance     \* FUTURE_TIMESTAMP_TOLERANCE_MS

\* The host clock is never behind the build of the bundle, nor the epoch.
Epoch == 0
BuildTime == 1
Time == BuildTime .. MaxTime

ASSUME HistoryAssumption ==
    /\ MaxTime \in Nat /\ FutureTolerance \in Nat

VARIABLES
    shipped,        \* the embedded manifest: none until the release
    served,         \* the reconciliation state of the lifecycle's snapshot
    refreshedAt,    \* its refreshedAt
    cache,          \* the cache file: the envelopes on disk, none or one
    clock

hostVars == <<served, refreshedAt, cache, clock>>
historyVars == <<generatorVars, shipped, hostVars>>

\* embeddedSnapshot over the manifest embeddedCatalogManifest parsed.
StateOf(manifest) ==
    [catalog |-> ParsedManifest(manifest).catalog, quarantine |-> NothingIn,
     deprecated |-> NothingIn, generatedAt |-> manifest.generatedAt]

\* embeddedSnapshot: the manifest's models and generatedAt, whatever the other
\* committed files say.
EmbeddedState == StateOf(CHOOSE m \in shipped : TRUE)

HistoryInit ==
    /\ GeneratorInit
    /\ shipped = {}
    /\ served = StateOf([catalog |-> NothingIn, generatedAt |-> Epoch])
    /\ refreshedAt = Epoch
    /\ cache = {}
    /\ clock = BuildTime

\* The release: the package takes models.json along as the files stand, and a host
\* starts on it.  What becomes of the files afterwards is left out.
Ships(manifest) ==
    /\ shipped = {} /\ manifest.generatedAt \in Epoch .. BuildTime
    /\ shipped' = {manifest}
    /\ served' = StateOf(manifest)
    /\ clock' \in Time
    /\ artifacts' = NoFiles /\ run' = NoRun /\ runs' = MaxRuns
    /\ UNCHANGED <<refreshedAt, cache>>

\* Wrong variant: a refresh in spite of a clock behind the last one.
RefreshAnytime(o) ==
    /\ served' = ReconcileState(o, served, clock)
    /\ refreshedAt' = clock
    /\ cache' = {[state |-> served', refreshedAt |-> refreshedAt']}
    /\ UNCHANGED clock

\* One successful refresh: reconcile, build the snapshot, write it, swap it in.
Refresh(o) ==
    /\ clock > refreshedAt
    /\ served' = ReconcileState(o, served, clock)
    /\ refreshedAt' = clock
    /\ cache' = {[state |-> served', refreshedAt |-> refreshedAt']}
    /\ UNCHANGED clock

\* The envelope loadInitial wraps, if readCache accepts it.
Accepted ==
    {e \in cache : ReaderAccepts(e.state, e.refreshedAt, clock, FutureTolerance)}

\* loadInitial: the cache when it is there and accepted, else the bootstrap.
RestartFromCache ==
    \E e \in Accepted :
        /\ served' = e.state
        /\ refreshedAt' = e.refreshedAt
        /\ UNCHANGED <<cache, clock>>

RestartFromEmbedded ==
    /\ Accepted = {}
    /\ served' = EmbeddedState
    /\ refreshedAt' = Epoch
    /\ UNCHANGED <<cache, clock>>

ClockMoves ==
    /\ clock' \in Time \ {clock}
    /\ UNCHANGED <<served, refreshedAt, cache>>

HostSteps ==
    \/ \E o \in Observations : Refresh(o)
    \/ RestartFromCache
    \/ RestartFromEmbedded
    \/ ClockMoves

HistoryNext ==
    \/ shipped = {} /\ GeneratorNext /\ UNCHANGED <<shipped, hostVars>>
    \/ \E manifest \in artifacts.models : Ships(manifest)
    \/ shipped # {} /\ HostSteps /\ UNCHANGED <<generatorVars, shipped>>

HistorySpec == HistoryInit /\ [][HistoryNext]_historyVars

------------------------------------------------------------------------------
(* Properties.                                                             *)

\* A refresh wrote a new envelope in this step.
Refreshed == cache' # cache

\* What a refresh writes satisfies, whatever the clock did over the whole
\* history, every check of the reader but the two the runs on findings are about:
\* no instant is later than refreshedAt, a tombstone is past its grace, and no id
\* is served and evicted or quarantined at once (readCache, parseDeprecatedFile).
WrittenEnvelopeConsistent ==
    \A e \in cache :
        /\ NotAfterRefresh(e.state, e.refreshedAt)
        /\ TombstonesLate(e.state)
        /\ NotServedTwice(e.state)

\* Grace ends on time: after a refresh no entry older than the grace period is
\* without its tombstone (reconcile, the boundary comparison).
GraceEndsOnTime ==
    \A id \in DOMAIN served.deprecated :
        LET entry == served.deprecated[id]
        IN  entry.evictedAt = NotEvicted => refreshedAt - entry.deprecatedAt <= Grace

\* "first deprecatedAt is preserved across reruns": whatever a host does - refresh,
\* restart through its cache file, restart on the embedded manifest - an id that is
\* deprecated before and after keeps its clock, its frozen model and its tombstone,
\* and one that is quarantined before and after its detectedAt.  A restart on the
\* embedded manifest forgets them all, so that their clocks start anew with the next
\* refresh; a restart through the cache file forgets none.
ClocksKept ==
    [][ /\ \A id \in DOMAIN served.deprecated \cap DOMAIN served'.deprecated :
               LET old == served.deprecated[id]  new == served'.deprecated[id]
               IN  \/ new = old
                   \/ old.evictedAt = NotEvicted /\ new = [old EXCEPT !.evictedAt = clock]
        /\ \A id \in DOMAIN served.quarantine \cap DOMAIN served'.quarantine :
               served'.quarantine[id].detectedAt = served.quarantine[id].detectedAt
        /\ \/ /\ DOMAIN served.deprecated \subseteq DOMAIN served'.deprecated
              /\ DOMAIN served.quarantine \subseteq DOMAIN served'.quarantine
           \/ Refreshed \/ served' = EmbeddedState
      ]_historyVars

\* An id leaves the deprecated state only by being live again - served, or
\* quarantined as a live id - also when models.dev dropped its metadata meanwhile.
DeprecationEndsByReturn ==
    [][Refreshed =>
        \A id \in DOMAIN served.deprecated \ DOMAIN served'.deprecated :
            \/ id \in DOMAIN served'.catalog
            \/ /\ id \in DOMAIN served'.quarantine
               /\ served'.quarantine[id].source = "live"
      ]_historyVars

\* A refresh settles: from every state and observation, reconciling the same
\* observation again changes nothing until a grace period runs out, so generatedAt
\* "moves only on real transitions".
RefreshSettles ==
    shipped # {} => \A o \in Observations :
        LET once == ReconcileState(o, served, clock)
            Due(id, later) == /\ once.deprecated[id].evictedAt = NotEvicted
                              /\ later - once.deprecated[id].deprecatedAt > Grace
        IN  \A later \in {t \in Time : t >= clock} :
                \/ \E id \in DOMAIN once.deprecated : Due(id, later)
                \/ ReconcileState(o, once, later) = once

\* Stated by src/cache-schema.ts:8-10: the writer's output always passes the key
\* sets of the reader.
WriterOutputPasses == \A e \in cache : StrictKeys(e.state)

\* Stated by README.md:99-101: a known model missing from live availability stays
\* selectable during its grace period.
GraceStaysSelectable == GraceIsServed(served)
==============================================================================
