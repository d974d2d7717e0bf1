-------------------------- MODULE CatalogGenerator ---------------------------
(***************************************************************************)
(* The generator of the committed catalog (scripts/update-models.ts and    *)
(* its core, src/generator.ts): a run reads the files its earlier runs     *)
(* left, computes the next ones in one go and replaces them one after the  *)
(* other.  Each replacement is atomic, the row of them is not: a run that  *)
(* is interrupted leaves files of two generations.                         *)
(***************************************************************************)
EXTENDS Reconcile, Sequences

CONSTANTS
    BuildTimes,     \* the instants a run may be given as --now
    MaxRuns         \* bound: runs of the generator

ASSUME GeneratorAssumption ==
    BuildTimes \subseteq Nat /\ MaxRuns \in Nat

VARIABLES
    artifacts,      \* the files; models is the manifest on disk, none or one
    run,            \* the run in progress: its input, output and what is left
    runs            \* how many there were

generatorVars == <<artifacts, run, runs>>

NothingIn == [id \in {} |-> {}]

\* A quarantine.json or a deprecated.json that is missing counts as an empty one.
NoFiles == [models |-> {}, quarantine |-> NothingIn, deprecated |-> NothingIn]
NoRun == [left |-> <<>>]

\* parseModelsManifest and parseDeprecatedFile of what the renderers wrote: every
\* model, served or frozen, comes back without its family.
ParsedManifest(m) ==
    [m EXCEPT !.catalog = [id \in DOMAIN m.catalog |-> ParsedModel(m.catalog[id])]]

ParsedDeprecated(deprecated) ==
    [id \in DOMAIN deprecated |->
        [deprecated[id] EXCEPT !.model = ParsedModel(deprecated[id].model)]]

ReadBack(held) ==
    [models |-> {ParsedManifest(m) : m \in held.models},
     quarantine |-> held.quarantine,
     deprecated |-> ParsedDeprecated(held.deprecated)]

\* GenerateInput without the files: what models.dev and the live endpoint say,
\* whether there is a live payload at all, and the clock.  The provenance text is
\* the default one, which follows from the presence of the payload.
Inputs == [sources : Observations, live : BOOLEAN, now : BuildTimes]

GeneratorInit ==
    /\ artifacts = NoFiles
    /\ run = NoRun
    /\ runs = 0

------------------------------------------------------------------------------
(* generateCatalogFiles.  Here `held` is the previous state as parsed.     *)

\* Wrong variant: every run is a first detection.
BootstrapQuarantineAnew(in, held) ==
    LET o == in.sources
    IN  [id \in o.invalid \cup (DOMAIN o.known \ Viable(o)) |->
            [detectedAt |-> in.now, source |-> "models.dev", reason |-> ReasonOf(o, id)]]

\* bootstrapQuarantine: metadata failures only; the first detection is kept.
BootstrapQuarantine(in, held) ==
    LET o == in.sources
    IN  [id \in o.invalid \cup (DOMAIN o.known \ Viable(o)) |->
            [detectedAt |-> IF id \in DOMAIN held.quarantine
                            THEN held.quarantine[id].detectedAt ELSE in.now,
             source |-> "models.dev",
             reason |-> ReasonOf(o, id)]]

\* The files before their stamp: reconciled with a live payload, else every model
\* that can be derived and no deprecation.
Content(in, held) ==
    LET o == in.sources
        prev == [catalog |-> IF held.models = {} THEN NothingIn
                             ELSE (CHOOSE m \in held.models : TRUE).catalog,
                 quarantine |-> held.quarantine, deprecated |-> held.deprecated]
    IN  IF in.live
        THEN [availability |-> "verified", catalog |-> CatalogOf(o),
              quarantine |-> QuarantineOf(o, prev, in.now),
              deprecated |-> DeprecatedOf(o, prev, in.now)]
        ELSE [availability |-> "unverified",
              catalog |-> [id \in Viable(o) |-> Derived(o.known[id])],
              quarantine |-> BootstrapQuarantine(in, held),
              deprecated |-> NothingIn]

\* generatedAt: the previous one while neither the manifest - its availability
\* and provenance included - nor one of the other two files changes.  The two
\* sides are compared as rendered: the previous manifest without families, the
\* next one with them, so that any model makes them differ.
Stamp(in, held, next) ==
    LET same == {m \in held.models :
                    /\ m.availability = next.availability
                    /\ m.catalog = next.catalog
                    /\ held.quarantine = next.quarantine
                    /\ held.deprecated = next.deprecated}
    IN  IF same = {} THEN in.now ELSE (CHOOSE m \in same : TRUE).generatedAt

\* What a run over the files on disk writes.
Generated(in, files) ==
    LET held == ReadBack(files)
        next == Content(in, held)
    IN  [models |-> {[generatedAt |-> Stamp(in, held, next),
                      availability |-> next.availability,
                      catalog |-> next.catalog]},
         quarantine |-> next.quarantine,
         deprecated |-> next.deprecated]

------------------------------------------------------------------------------
(* A run of the script.                                                    *)

\* parseDeprecatedFile refuses a tombstone inside its grace; the run then throws
\* before it writes anything.
Parses(held) == TombstonesLate(held)

Generates(in) ==
    /\ run = NoRun /\ runs < MaxRuns
    /\ Parses(artifacts)
    /\ run' = [input |-> in, output |-> Generated(in, artifacts),
               left |-> <<"models", "quarantine", "deprecated", "patches">>]
    /\ runs' = runs + 1
    /\ UNCHANGED artifacts

\* One writeAtomic: a temp file renamed over the old one.  patches.json is an input
\* of every run, rendered back as it was parsed: writing it changes nothing.
WritesFile ==
    /\ run # NoRun
    /\ artifacts' = IF Head(run.left) = "patches" THEN artifacts
                    ELSE [artifacts EXCEPT ![Head(run.left)] = run.output[Head(run.left)]]
    /\ run' = IF Len(run.left) = 1 THEN NoRun ELSE [run EXCEPT !.left = Tail(@)]
    /\ UNCHANGED runs

\* A write fails, or the process dies: nothing is rolled back.
Interrupted ==
    /\ run # NoRun
    /\ run' = NoRun
    /\ UNCHANGED <<artifacts, runs>>

GeneratorNext ==
    \/ \E in \in Inputs : Generates(in)
    \/ WritesFile
    \/ Interrupted

------------------------------------------------------------------------------
(* Properties.                                                             *)

\* Apart from the stamp of the manifest.
Undated(held) ==
    [held EXCEPT !.models = {[availability |-> m.availability, catalog |-> m.catalog] :
                                m \in held.models}]

\* The instants at which no grace period of what the run found is over.
QuietInstants ==
    {t \in BuildTimes :
        /\ t >= run.input.now
        /\ run.input.live =>
               \A id \in DOMAIN run.output.deprecated :
                   run.output.deprecated[id].evictedAt = NotEvicted =>
                       t - run.output.deprecated[id].deprecatedAt <= Grace}

\* A later run over a run's output, with the same sources, accepts it and finds the
\* same models, the same first detections and the same grace clocks, unless a grace
\* period ran out between the two - whatever files earlier runs, interrupted ones
\* too, had left.  Only generatedAt and the families of frozen models may move
\* (generateCatalogFiles): parseCatalogModel drops the family that renderCatalogModel
\* writes, so a rerun over at least one model does restamp generatedAt.
RerunKeepsState ==
    run # NoRun =>
        \A later \in QuietInstants :
            /\ Parses(run.output)
            /\ Undated(ReadBack(Generated([run.input EXCEPT !.now = later], run.output)))
               = Undated(ReadBack(run.output))

\* A run that is repeated with the same input after an interruption, between any
\* two of its writes, ends where the undisturbed one would have, but for families
\* of frozen models, which no reader sees: nothing a run decides gets lost with the
\* file that says so (main, the loop over the output files).  Repeated at a later
\* clock it takes a new generatedAt, as every rerun does.
InterruptionHeals ==
    run # NoRun =>
        /\ Parses(artifacts)
        /\ ReadBack(Generated(run.input, artifacts)) = ReadBack(run.output)
==============================================================================
