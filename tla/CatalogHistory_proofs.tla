------------------------- MODULE CatalogHistory_proofs -------------------------
(***************************************************************************)
(* The generator and the history of a host, for any set of ids and models, *)
(* any grace period and any clock.                                         *)
(***************************************************************************)
EXTENDS CatalogHistory, TLAPS

Entry == [deprecatedAt : Int, evictedAt : Int, model : CatalogModels]
Record == [detectedAt : Int, source : {"live", "models.dev"}, reason : Reasons]

\* The entries of a deprecated.json or of a snapshot, and their tombstones.
EntriesOK(deprecated) ==
    \A id \in DOMAIN deprecated :
        /\ deprecated[id] \in Entry
        /\ deprecated[id].evictedAt # NotEvicted =>
               deprecated[id].evictedAt > deprecated[id].deprecatedAt + Grace

------------------------------------------------------------------------------
(* reconcile, applied to its own result.                                   *)

\* A quarantine is the same when it is computed once more, over its own result or, at
\* the same instant, over what it replaced, beside deprecations of the same ids.
LEMMA QuarantineStable ==
    ASSUME NEW o, NEW prev, NEW next, NEW now, NEW later,
           \/ next.quarantine = QuarantineOf(o, prev, now)
           \/ next.quarantine = prev.quarantine /\ later = now,
           DOMAIN next.deprecated
               \in {DOMAIN prev.deprecated, DOMAIN DeprecatedOf(o, prev, now)}
    PROVE  QuarantineOf(o, next, later) = QuarantineOf(o, prev, now)
<1>1. QuarantinedIds(o, next) = QuarantinedIds(o, prev)
    BY DEF QuarantinedIds, DeprecatedOf, Viable
<1> QED BY <1>1 DEF QuarantineOf

\* So are the deprecations, over entries of the same ids none of which is due.
LEMMA DeprecationStable ==
    ASSUME NEW o, NEW prev, NEW now, NEW later, NEW next,
           DOMAIN next.deprecated = DOMAIN DeprecatedOf(o, prev, now),
           next.deprecated = [id \in DOMAIN next.deprecated |-> next.deprecated[id]],
           \A id \in DOMAIN next.deprecated :
               Aged(next.deprecated[id], later) = next.deprecated[id]
    PROVE  DeprecatedOf(o, next, later) = next.deprecated
<1> DEFINE D == (DOMAIN prev.deprecated \cup Viable(o)) \ o.live
<1>1. DOMAIN next.deprecated = D
    BY DEF DeprecatedOf
<1>2. (DOMAIN next.deprecated \cup Viable(o)) \ o.live = D
    BY <1>1
<1>3. DeprecatedOf(o, next, later) = [id \in D |-> Aged(next.deprecated[id], later)]
    BY <1>1, <1>2 DEF DeprecatedOf
<1> QED BY <1>1, <1>3

\* Without an entry that is due, a second reconciliation repeats the first.
LEMMA ReconcileSettles ==
    ASSUME NEW o, NEW prev, NEW now, NEW later,
           \A id \in DOMAIN DeprecatedOf(o, prev, now) :
               Aged(DeprecatedOf(o, prev, now)[id], later) = DeprecatedOf(o, prev, now)[id]
    PROVE  ReconcileState(o, ReconcileState(o, prev, now), later) = ReconcileState(o, prev, now)
<1> DEFINE once == ReconcileState(o, prev, now)
<1>1. /\ once.catalog = CatalogOf(o)
      /\ once.quarantine = QuarantineOf(o, prev, now)
      /\ once.deprecated = DeprecatedOf(o, prev, now)
    BY DEF ReconcileState
<1>2. DeprecatedOf(o, once, later) = once.deprecated
  <2>1. once.deprecated = [id \in DOMAIN once.deprecated |-> once.deprecated[id]]
    BY <1>1 DEF DeprecatedOf
  <2> QED BY <1>1, <2>1, DeprecationStable
<1>3. QuarantineOf(o, once, later) = once.quarantine
    BY <1>1, QuarantineStable
<1>4. once = [catalog |-> once.catalog, quarantine |-> once.quarantine,
              deprecated |-> once.deprecated, generatedAt |-> once.generatedAt]
    BY DEF ReconcileState
<1> QED BY <1>1, <1>2, <1>3, <1>4 DEF ReconcileState, SameContent

\* From every state of a history a refresh repeated with the same observation is a
\* no-op, generatedAt included, until an entry is due (the transition test of reconcile).
THEOREM RefreshesSettle == HistorySpec => []RefreshSettles
<1>1. RefreshSettles
  <2> SUFFICES ASSUME NEW o \in Observations, NEW later \in Time,
                      LET once == ReconcileState(o, served, clock)
                      IN  \A id \in DOMAIN once.deprecated :
                            ~(/\ once.deprecated[id].evictedAt = NotEvicted
                              /\ later - once.deprecated[id].deprecatedAt > Grace)
               PROVE  LET once == ReconcileState(o, served, clock)
                      IN  ReconcileState(o, once, later) = once
    BY DEF RefreshSettles
  <2>1. ReconcileState(o, served, clock).deprecated = DeprecatedOf(o, served, clock)
    BY DEF ReconcileState
  <2> QED BY <2>1, ReconcileSettles DEF Aged
<1> QED BY <1>1, PTL
------------------------------------------------------------------------------
(* The generator.                                                          *)

\* The shape of a manifest and of the files, mixed generations included.
ManifestOK(m) ==
    /\ m = [generatedAt |-> m.generatedAt, availability |-> m.availability,
            catalog |-> m.catalog]
    /\ m.catalog = [id \in DOMAIN m.catalog |-> m.catalog[id]]
    /\ \A id \in DOMAIN m.catalog : m.catalog[id] \in CatalogModels

FilesOK(files) ==
    /\ \A m, n \in files.models : m = n
    /\ \A m \in files.models : ManifestOK(m)
    /\ EntriesOK(files.deprecated)
    /\ files = [models |-> files.models, quarantine |-> files.quarantine,
                deprecated |-> files.deprecated]

\* The files a run was computed from, where those it has not replaced yet still are.
Half(held, output, left) ==
    [models |-> IF left = <<"models", "quarantine", "deprecated", "patches">>
                THEN held.models ELSE output.models,
     quarantine |-> IF left \in {<<"deprecated", "patches">>, <<"patches">>}
                    THEN output.quarantine ELSE held.quarantine,
     deprecated |-> IF left = <<"patches">> THEN output.deprecated ELSE held.deprecated]

Rows == {<<"models", "quarantine", "deprecated", "patches">>,
         <<"quarantine", "deprecated", "patches">>, <<"deprecated", "patches">>,
         <<"patches">>}

GeneratorInv ==
    /\ FilesOK(artifacts)
    /\ run # NoRun =>
        /\ run.left \in Rows /\ run.input \in Inputs
        /\ run = [input |-> run.input, output |-> run.output, left |-> run.left]
        /\ \E held : /\ FilesOK(held)
                     /\ run.output = Generated(run.input, held)
                     /\ artifacts = Half(held, run.output, run.left)

LEMMA InputsNat == \A in \in Inputs : in.now \in Nat
<1>1. \A in \in Inputs : in.now \in BuildTimes
    BY DEF Inputs
<1> QED BY <1>1, GeneratorAssumption

LEMMA Aging ==
    ASSUME NEW entry \in Entry, NEW now \in Nat,
           entry.evictedAt # NotEvicted => entry.evictedAt > entry.deprecatedAt + Grace
    PROVE  /\ Aged(entry, now) \in Entry
           /\ Aged(entry, now).deprecatedAt = entry.deprecatedAt
           /\ Aged(entry, now).evictedAt \in {entry.evictedAt, now}
           /\ Aged(entry, now).evictedAt # NotEvicted =>
                  Aged(entry, now).evictedAt > Aged(entry, now).deprecatedAt + Grace
           /\ Aged(entry, now).evictedAt = NotEvicted =>
                  Aged(entry, now) = entry /\ now - entry.deprecatedAt <= Grace
<1> USE ReconcileAssumption DEF NotEvicted
<1>1. entry.deprecatedAt \in Int /\ entry.evictedAt \in Int
    BY DEF Entry
<1>2. CASE entry.evictedAt = NotEvicted /\ now - entry.deprecatedAt > Grace
  <2>1. Aged(entry, now) = [entry EXCEPT !.evictedAt = now]
    BY <1>2 DEF Aged
  <2>2. /\ Aged(entry, now) \in Entry
        /\ Aged(entry, now).deprecatedAt = entry.deprecatedAt
        /\ Aged(entry, now).evictedAt = now
    BY <2>1 DEF Entry
  <2> QED BY <1>1, <1>2, <2>2
<1>3. CASE ~(entry.evictedAt = NotEvicted /\ now - entry.deprecatedAt > Grace)
  <2>1. Aged(entry, now) = entry
    BY <1>3 DEF Aged
  <2> QED BY <1>1, <1>3, <2>1
<1> QED BY <1>2, <1>3

LEMMA DeprecationsOK ==
    ASSUME NEW o, NEW prev, NEW now \in Nat, EntriesOK(prev.deprecated)
    PROVE  EntriesOK(DeprecatedOf(o, prev, now))
<1> SUFFICES ASSUME NEW id \in DOMAIN DeprecatedOf(o, prev, now)
             PROVE  LET entry == DeprecatedOf(o, prev, now)[id]
                    IN  /\ entry \in Entry
                        /\ entry.evictedAt # NotEvicted =>
                               entry.evictedAt > entry.deprecatedAt + Grace
    BY DEF EntriesOK
<1>1. CASE id \in DOMAIN prev.deprecated
  <2>1. DeprecatedOf(o, prev, now)[id] = Aged(prev.deprecated[id], now)
    BY <1>1 DEF DeprecatedOf
  <2> QED BY <1>1, <2>1, Aging DEF EntriesOK
<1>2. CASE id \notin DOMAIN prev.deprecated
  <2>1. DeprecatedOf(o, prev, now)[id] =
            [deprecatedAt |-> now, evictedAt |-> NotEvicted, model |-> Derived(o.known[id])]
    BY <1>2 DEF DeprecatedOf
  <2>2. Derived(o.known[id]) \in CatalogModels
    BY <1>2 DEF DeprecatedOf, Viable, Derived, CatalogModels
  <2> QED BY <2>1, <2>2 DEF Entry, NotEvicted
<1> QED BY <1>1, <1>2

\* No entry of a fresh deprecation is due at the instant it was computed.
LEMMA DeprecationsSettled ==
    ASSUME NEW o, NEW prev, NEW now \in Nat, EntriesOK(prev.deprecated),
           NEW id \in DOMAIN DeprecatedOf(o, prev, now),
           DeprecatedOf(o, prev, now)[id].evictedAt = NotEvicted
    PROVE  now - DeprecatedOf(o, prev, now)[id].deprecatedAt <= Grace
<1>1. CASE id \in DOMAIN prev.deprecated
  <2>1. DeprecatedOf(o, prev, now)[id] = Aged(prev.deprecated[id], now)
    BY <1>1 DEF DeprecatedOf
  <2> QED BY <1>1, <2>1, Aging DEF EntriesOK
<1>2. CASE id \notin DOMAIN prev.deprecated
  <2>1. DeprecatedOf(o, prev, now)[id] =
            [deprecatedAt |-> now, evictedAt |-> NotEvicted, model |-> Derived(o.known[id])]
    BY <1>2 DEF DeprecatedOf
  <2> QED BY <2>1, ReconcileAssumption
<1> QED BY <1>1, <1>2

------------------------------------------------------------------------------
(* Reading back what was written.                                          *)

LEMMA ParsingAModel ==
    ASSUME NEW model \in CatalogModels
    PROVE  /\ ParsedModel(model) \in CatalogModels
           /\ ParsedModel(ParsedModel(model)) = ParsedModel(model)
BY DEF CatalogModels, ParsedModel

LEMMA ParsingAnEntry ==
    ASSUME NEW entry \in Entry
    PROVE  LET parsed == [entry EXCEPT !.model = ParsedModel(entry.model)]
           IN  /\ parsed \in Entry
               /\ parsed.deprecatedAt = entry.deprecatedAt
               /\ parsed.evictedAt = entry.evictedAt
               /\ [parsed EXCEPT !.model = ParsedModel(parsed.model)] = parsed
<1>1. entry.model \in CatalogModels
    BY DEF Entry
<1>2. /\ ParsedModel(entry.model) \in CatalogModels
      /\ ParsedModel(ParsedModel(entry.model)) = ParsedModel(entry.model)
    BY <1>1, ParsingAModel
<1> QED BY <1>2 DEF Entry

LEMMA ParsingDeprecated ==
    ASSUME NEW deprecated, EntriesOK(deprecated)
    PROVE  /\ DOMAIN ParsedDeprecated(deprecated) = DOMAIN deprecated
           /\ EntriesOK(ParsedDeprecated(deprecated))
           /\ \A id \in DOMAIN deprecated :
                  /\ ParsedDeprecated(deprecated)[id].deprecatedAt = deprecated[id].deprecatedAt
                  /\ ParsedDeprecated(deprecated)[id].evictedAt = deprecated[id].evictedAt
           /\ ParsedDeprecated(ParsedDeprecated(deprecated)) = ParsedDeprecated(deprecated)
<1> DEFINE parsed == ParsedDeprecated(deprecated)
<1>1. /\ DOMAIN parsed = DOMAIN deprecated
      /\ \A id \in DOMAIN deprecated :
             parsed[id] = [deprecated[id] EXCEPT !.model = ParsedModel(deprecated[id].model)]
      /\ parsed = [id \in DOMAIN parsed |-> parsed[id]]
    BY DEF ParsedDeprecated
<1>2. ParsedDeprecated(parsed) =
          [id \in DOMAIN parsed |-> [parsed[id] EXCEPT !.model = ParsedModel(parsed[id].model)]]
    BY DEF ParsedDeprecated
<1> HIDE DEF parsed
<1>3. ASSUME NEW id \in DOMAIN deprecated
      PROVE  /\ parsed[id] \in Entry
             /\ parsed[id].deprecatedAt = deprecated[id].deprecatedAt
             /\ parsed[id].evictedAt = deprecated[id].evictedAt
             /\ [parsed[id] EXCEPT !.model = ParsedModel(parsed[id].model)] = parsed[id]
  <2>1. deprecated[id] \in Entry
    BY <1>3 DEF EntriesOK
  <2> QED BY <1>1, <2>1, ParsingAnEntry
<1>4. EntriesOK(parsed)
    BY <1>1, <1>3 DEF EntriesOK
<1>5. ParsedDeprecated(parsed) = parsed
    BY <1>1, <1>2, <1>3
<1> QED BY <1>1, <1>3, <1>4, <1>5 DEF parsed

LEMMA ParsingAManifest ==
    ASSUME NEW m, ManifestOK(m)
    PROVE  /\ ManifestOK(ParsedManifest(m))
           /\ ParsedManifest(m).generatedAt = m.generatedAt
           /\ ParsedManifest(m).availability = m.availability
           /\ ParsedManifest(m).catalog = [id \in DOMAIN m.catalog |-> ParsedModel(m.catalog[id])]
           /\ ParsedManifest(ParsedManifest(m)) = ParsedManifest(m)
<1> DEFINE C == [id \in DOMAIN m.catalog |-> ParsedModel(m.catalog[id])]
           parsed == ParsedManifest(m)
<1>1. parsed = [generatedAt |-> m.generatedAt, availability |-> m.availability, catalog |-> C]
    BY DEF ManifestOK, ParsedManifest
<1>2. \A id \in DOMAIN m.catalog :
          ParsedModel(m.catalog[id]) \in CatalogModels
          /\ ParsedModel(ParsedModel(m.catalog[id])) = ParsedModel(m.catalog[id])
    BY ParsingAModel DEF ManifestOK
<1>3. /\ DOMAIN C = DOMAIN m.catalog
      /\ C = [id \in DOMAIN C |-> C[id]]
      /\ \A id \in DOMAIN C : C[id] \in CatalogModels /\ ParsedModel(C[id]) = C[id]
    BY <1>2
<1> HIDE DEF C, parsed
<1>4. ManifestOK(parsed)
    BY <1>1, <1>3 DEF ManifestOK
<1>5. [id \in DOMAIN C |-> ParsedModel(C[id])] = C
    BY <1>3
<1>6. ParsedManifest(parsed) = parsed
    BY <1>1, <1>5 DEF ParsedManifest
<1> QED BY <1>1, <1>4, <1>6 DEF C, parsed

\* The state a run starts from has the shape of the files and parses to itself.
LEMMA ReadingBack ==
    ASSUME NEW files, FilesOK(files)
    PROVE  /\ FilesOK(ReadBack(files))
           /\ \A m \in ReadBack(files).models : ParsedManifest(m) = m
           /\ ParsedDeprecated(ReadBack(files).deprecated) = ReadBack(files).deprecated
<1> DEFINE held == ReadBack(files)
<1>1. /\ held = [models |-> {ParsedManifest(m) : m \in files.models},
                 quarantine |-> files.quarantine,
                 deprecated |-> ParsedDeprecated(files.deprecated)]
    BY DEF ReadBack
<1> HIDE DEF held
<1>2. \A m \in files.models :
          ManifestOK(ParsedManifest(m)) /\ ParsedManifest(ParsedManifest(m)) = ParsedManifest(m)
    BY ParsingAManifest DEF FilesOK
<1>3. /\ \A m, n \in held.models : m = n
      /\ \A m \in held.models : ManifestOK(m) /\ ParsedManifest(m) = m
  <2>1. \A m \in held.models : \E n \in files.models : m = ParsedManifest(n)
    BY <1>1
  <2> QED BY <1>2, <2>1 DEF FilesOK
<1>4. /\ EntriesOK(held.deprecated)
      /\ ParsedDeprecated(held.deprecated) = held.deprecated
    BY <1>1, ParsingDeprecated DEF FilesOK
<1>5. held = [models |-> held.models, quarantine |-> held.quarantine,
              deprecated |-> held.deprecated]
    BY <1>1
<1>6. FilesOK(held)
    BY <1>3, <1>4, <1>5 DEF FilesOK
<1> QED BY <1>3, <1>4, <1>6 DEF held

------------------------------------------------------------------------------
(* What a run computes.                                                    *)

PrevOf(held) ==
    [catalog |-> IF held.models = {} THEN NothingIn
                 ELSE (CHOOSE m \in held.models : TRUE).catalog,
     quarantine |-> held.quarantine, deprecated |-> held.deprecated]

LEMMA LiveContent ==
    ASSUME NEW in, NEW held, in.live
    PROVE  /\ Content(in, held) =
                [availability |-> "verified", catalog |-> CatalogOf(in.sources),
                 quarantine |-> QuarantineOf(in.sources, PrevOf(held), in.now),
                 deprecated |-> DeprecatedOf(in.sources, PrevOf(held), in.now)]
           /\ PrevOf(held).quarantine = held.quarantine
           /\ PrevOf(held).deprecated = held.deprecated
BY DEF Content, PrevOf

LEMMA ContentOK ==
    ASSUME NEW in \in Inputs, NEW held, EntriesOK(held.deprecated)
    PROVE  LET next == Content(in, held)
           IN  /\ EntriesOK(next.deprecated)
               /\ \A id \in DOMAIN next.deprecated :
                      next.deprecated[id].evictedAt = NotEvicted =>
                          in.now - next.deprecated[id].deprecatedAt <= Grace
               /\ next.deprecated = [id \in DOMAIN next.deprecated |-> next.deprecated[id]]
               /\ next.catalog = [id \in DOMAIN next.catalog |-> next.catalog[id]]
               /\ \A id \in DOMAIN next.catalog : next.catalog[id] \in CatalogModels
<1>1. in.now \in Nat
    BY InputsNat
<1>2. CASE in.live
  <2>1. /\ Content(in, held).deprecated = DeprecatedOf(in.sources, PrevOf(held), in.now)
        /\ Content(in, held).catalog = CatalogOf(in.sources)
        /\ EntriesOK(PrevOf(held).deprecated)
    BY <1>2, LiveContent
  <2>2. EntriesOK(DeprecatedOf(in.sources, PrevOf(held), in.now))
    BY <1>1, <2>1, DeprecationsOK
  <2>3. \A id \in DOMAIN DeprecatedOf(in.sources, PrevOf(held), in.now) :
            DeprecatedOf(in.sources, PrevOf(held), in.now)[id].evictedAt = NotEvicted =>
              in.now - DeprecatedOf(in.sources, PrevOf(held), in.now)[id].deprecatedAt <= Grace
    BY <1>1, <2>1, DeprecationsSettled
  <2>4. /\ CatalogOf(in.sources) =
               [id \in DOMAIN CatalogOf(in.sources) |-> CatalogOf(in.sources)[id]]
        /\ \A id \in DOMAIN CatalogOf(in.sources) : CatalogOf(in.sources)[id] \in CatalogModels
    BY DEF CatalogOf, Viable, Derived, CatalogModels
  <2>5. DeprecatedOf(in.sources, PrevOf(held), in.now) =
          [id \in DOMAIN DeprecatedOf(in.sources, PrevOf(held), in.now) |->
              DeprecatedOf(in.sources, PrevOf(held), in.now)[id]]
    BY DEF DeprecatedOf
  <2> QED BY <2>1, <2>2, <2>3, <2>4, <2>5
<1>3. CASE ~in.live
  <2>1. /\ Content(in, held).deprecated = NothingIn
        /\ Content(in, held).catalog = [id \in Viable(in.sources) |-> Derived(in.sources.known[id])]
    BY <1>3 DEF Content
  <2> QED BY <2>1 DEF NothingIn, EntriesOK, Viable, Derived, CatalogModels
<1> QED BY <1>2, <1>3

LEMMA GeneratedIs ==
    ASSUME NEW in, NEW files
    PROVE  LET held == ReadBack(files)
               next == Content(in, held)
           IN  Generated(in, files) =
                [models |-> {[generatedAt |-> Stamp(in, held, next),
                              availability |-> next.availability, catalog |-> next.catalog]},
                 quarantine |-> next.quarantine, deprecated |-> next.deprecated]
BY DEF Generated

LEMMA GeneratedOK ==
    ASSUME NEW in \in Inputs, NEW files, FilesOK(files)
    PROVE  FilesOK(Generated(in, files))
<1> DEFINE held == ReadBack(files)
           next == Content(in, held)
           manifest == [generatedAt |-> Stamp(in, held, next),
                        availability |-> next.availability, catalog |-> next.catalog]
<1>1. Generated(in, files) =
        [models |-> {manifest}, quarantine |-> next.quarantine, deprecated |-> next.deprecated]
    BY GeneratedIs
<1>2. EntriesOK(held.deprecated)
    BY ReadingBack DEF FilesOK
<1> HIDE DEF held
<1>3. /\ EntriesOK(next.deprecated)
      /\ next.catalog = [id \in DOMAIN next.catalog |-> next.catalog[id]]
      /\ \A id \in DOMAIN next.catalog : next.catalog[id] \in CatalogModels
    BY <1>2, ContentOK
<1> HIDE DEF next
<1>4. ManifestOK(manifest)
    BY <1>3 DEF ManifestOK
<1> HIDE DEF manifest
<1> QED BY <1>1, <1>3, <1>4 DEF FilesOK

\* What a run computes does not change while it replaces the files it read, but for
\* what the parse of its deprecations dropped.
LEMMA ContentStable ==
    ASSUME NEW in \in Inputs, NEW held, EntriesOK(held.deprecated), NEW mix, NEW later,
           \/ mix.quarantine = Content(in, held).quarantine
           \/ mix.quarantine = held.quarantine /\ later = in.now,
           \/ mix.deprecated = held.deprecated /\ later = in.now
           \/ /\ mix.deprecated = ParsedDeprecated(Content(in, held).deprecated)
              /\ \A id \in DOMAIN mix.deprecated :
                     Aged(mix.deprecated[id], later) = mix.deprecated[id]
    PROVE  LET next == Content(in, held)
               again == Content([in EXCEPT !.now = later], mix)
           IN  /\ again.availability = next.availability
               /\ again.catalog = next.catalog
               /\ again.quarantine = next.quarantine
               /\ \/ again.deprecated = next.deprecated /\ mix.deprecated = held.deprecated
                  \/ /\ again.deprecated = mix.deprecated
                     /\ mix.deprecated = ParsedDeprecated(next.deprecated)
<1> DEFINE input == [in EXCEPT !.now = later]
<1>1. /\ input.live = in.live /\ input.sources = in.sources /\ input.now = later
    BY DEF Inputs
<1>2. /\ DOMAIN ParsedDeprecated(Content(in, held).deprecated) = DOMAIN Content(in, held).deprecated
      /\ ParsedDeprecated(Content(in, held).deprecated) =
            [id \in DOMAIN ParsedDeprecated(Content(in, held).deprecated) |->
                ParsedDeprecated(Content(in, held).deprecated)[id]]
    BY DEF ParsedDeprecated
<1> HIDE DEF input
<1>3. CASE in.live
  <2>1. /\ Content(in, held) =
            [availability |-> "verified", catalog |-> CatalogOf(in.sources),
             quarantine |-> QuarantineOf(in.sources, PrevOf(held), in.now),
             deprecated |-> DeprecatedOf(in.sources, PrevOf(held), in.now)]
        /\ PrevOf(held).quarantine = held.quarantine
        /\ PrevOf(held).deprecated = held.deprecated
    BY <1>3, LiveContent
  <2>2. /\ Content(input, mix) =
            [availability |-> "verified", catalog |-> CatalogOf(in.sources),
             quarantine |-> QuarantineOf(in.sources, PrevOf(mix), later),
             deprecated |-> DeprecatedOf(in.sources, PrevOf(mix), later)]
        /\ PrevOf(mix).quarantine = mix.quarantine
        /\ PrevOf(mix).deprecated = mix.deprecated
    <3>1. input.live
        BY <1>1, <1>3
    <3>2. /\ Content(input, mix) =
                [availability |-> "verified", catalog |-> CatalogOf(input.sources),
                 quarantine |-> QuarantineOf(input.sources, PrevOf(mix), input.now),
                 deprecated |-> DeprecatedOf(input.sources, PrevOf(mix), input.now)]
          /\ PrevOf(mix).quarantine = mix.quarantine
          /\ PrevOf(mix).deprecated = mix.deprecated
        BY <3>1, LiveContent
    <3> QED BY <1>1, <3>2
  <2>3. QuarantineOf(in.sources, PrevOf(mix), later)
            = QuarantineOf(in.sources, PrevOf(held), in.now)
    <3>1. DOMAIN PrevOf(mix).deprecated
              \in {DOMAIN PrevOf(held).deprecated,
                   DOMAIN DeprecatedOf(in.sources, PrevOf(held), in.now)}
        BY <1>2, <2>1, <2>2
    <3>2. \/ PrevOf(mix).quarantine = QuarantineOf(in.sources, PrevOf(held), in.now)
          \/ PrevOf(mix).quarantine = PrevOf(held).quarantine /\ later = in.now
        BY <2>1, <2>2
    <3> QED BY <3>1, <3>2, QuarantineStable
  <2>4. CASE mix.deprecated = held.deprecated /\ later = in.now
    <3>1. DeprecatedOf(in.sources, PrevOf(mix), later)
              = DeprecatedOf(in.sources, PrevOf(held), in.now)
        BY <2>1, <2>2, <2>4 DEF DeprecatedOf
    <3> QED BY <2>1, <2>2, <2>3, <2>4, <3>1 DEF input
  <2>5. CASE /\ mix.deprecated = ParsedDeprecated(Content(in, held).deprecated)
             /\ \A id \in DOMAIN mix.deprecated :
                    Aged(mix.deprecated[id], later) = mix.deprecated[id]
    <3>1. DeprecatedOf(in.sources, PrevOf(mix), later) = PrevOf(mix).deprecated
      <4>1. /\ DOMAIN PrevOf(mix).deprecated =
                   DOMAIN DeprecatedOf(in.sources, PrevOf(held), in.now)
            /\ PrevOf(mix).deprecated =
                   [id \in DOMAIN PrevOf(mix).deprecated |-> PrevOf(mix).deprecated[id]]
            /\ \A id \in DOMAIN PrevOf(mix).deprecated :
                   Aged(PrevOf(mix).deprecated[id], later) = PrevOf(mix).deprecated[id]
        BY <1>2, <2>1, <2>2, <2>5
      <4> QED BY <4>1, DeprecationStable
    <3> QED BY <2>1, <2>2, <2>3, <2>5, <3>1 DEF input
  <2> QED BY <2>4, <2>5
<1>4. CASE ~in.live
  <2>1. /\ Content(in, held) =
            [availability |-> "unverified",
             catalog |-> [id \in Viable(in.sources) |-> Derived(in.sources.known[id])],
             quarantine |-> BootstrapQuarantine(in, held), deprecated |-> NothingIn]
        /\ Content(input, mix) =
            [availability |-> "unverified",
             catalog |-> [id \in Viable(in.sources) |-> Derived(in.sources.known[id])],
             quarantine |-> BootstrapQuarantine(input, mix), deprecated |-> NothingIn]
    BY <1>1, <1>4 DEF Content
  <2>2. BootstrapQuarantine(input, mix) = BootstrapQuarantine(in, held)
    BY <1>1, <2>1 DEF BootstrapQuarantine
  <2>3. ParsedDeprecated(NothingIn) = NothingIn
    BY DEF ParsedDeprecated, NothingIn
  <2> QED BY <2>1, <2>2, <2>3 DEF input
<1> QED BY <1>3, <1>4

\* The stamp of the files a run leaves is the stamp it would choose again, at the same
\* instant, over any of its files.
LEMMA StampStable ==
    ASSUME NEW in, NEW held, NEW next, NEW mix, NEW again,
           \A m \in held.models : ManifestOK(m) /\ ParsedManifest(m) = m,
           ParsedDeprecated(held.deprecated) = held.deprecated,
           NEW manifest, ManifestOK(manifest),
           manifest.generatedAt = Stamp(in, held, next),
           manifest.availability = next.availability, manifest.catalog = next.catalog,
           mix.models = {ParsedManifest(manifest)},
           mix.quarantine \in {held.quarantine, next.quarantine},
           mix.deprecated \in {held.deprecated, ParsedDeprecated(next.deprecated)},
           again.availability = next.availability, again.catalog = next.catalog,
           again.quarantine = next.quarantine,
           again.deprecated \in {next.deprecated, mix.deprecated}
    PROVE  Stamp(in, mix, again) = Stamp(in, held, next)
<1> DEFINE parsed == ParsedManifest(manifest)
           Same(files, content) ==
                {m \in files.models : /\ m.availability = content.availability
                                      /\ m.catalog = content.catalog
                                      /\ files.quarantine = content.quarantine
                                      /\ files.deprecated = content.deprecated}
<1>1. /\ parsed.generatedAt = Stamp(in, held, next)
      /\ parsed.availability = next.availability
      /\ parsed.catalog = [id \in DOMAIN next.catalog |-> ParsedModel(next.catalog[id])]
    BY ParsingAManifest
<1> HIDE DEF parsed
<1>2. /\ Stamp(in, held, next) = IF Same(held, next) = {} THEN in.now
                                ELSE (CHOOSE m \in Same(held, next) : TRUE).generatedAt
      /\ Stamp(in, mix, again) = IF Same(mix, again) = {} THEN in.now
                                ELSE (CHOOSE m \in Same(mix, again) : TRUE).generatedAt
    BY DEF Stamp
<1>3. mix.models = {parsed}
    BY DEF parsed
<1>4. CASE Same(held, next) = {}
  <2>1. Same(mix, again) = {} \/ Same(mix, again) = {parsed}
    BY <1>3
  <2> QED BY <1>1, <1>2, <1>4, <2>1
<1>5. CASE Same(held, next) # {}
  <2>1. PICK m \in held.models : /\ m.catalog = next.catalog
                                 /\ held.quarantine = next.quarantine
                                 /\ held.deprecated = next.deprecated
    BY <1>5
  <2>2. parsed.catalog = next.catalog
    <3>1. m.catalog = [id \in DOMAIN m.catalog |-> ParsedModel(m.catalog[id])]
        BY ParsingAManifest
    <3> QED BY <1>1, <2>1, <3>1
  <2>3. mix.quarantine = again.quarantine /\ mix.deprecated = again.deprecated
    BY <2>1
  <2>4. Same(mix, again) = {parsed}
    BY <1>1, <1>3, <2>2, <2>3
  <2> QED BY <1>1, <1>2, <2>4
<1> QED BY <1>4, <1>5

\* An entry that is not past its grace does not age, parsed or not.
LEMMA NotDue ==
    ASSUME NEW deprecated, EntriesOK(deprecated), NEW later \in Nat,
           \A id \in DOMAIN deprecated :
               deprecated[id].evictedAt = NotEvicted =>
                   later - deprecated[id].deprecatedAt <= Grace
    PROVE  \A id \in DOMAIN ParsedDeprecated(deprecated) :
               Aged(ParsedDeprecated(deprecated)[id], later) = ParsedDeprecated(deprecated)[id]
<1> SUFFICES ASSUME NEW id \in DOMAIN deprecated
             PROVE  Aged(ParsedDeprecated(deprecated)[id], later)
                        = ParsedDeprecated(deprecated)[id]
    BY ParsingDeprecated
<1>1. /\ ParsedDeprecated(deprecated)[id].deprecatedAt = deprecated[id].deprecatedAt
      /\ ParsedDeprecated(deprecated)[id].evictedAt = deprecated[id].evictedAt
    BY ParsingDeprecated
<1>2. deprecated[id].deprecatedAt \in Int
    BY DEF EntriesOK, Entry
<1>3. ~(deprecated[id].evictedAt = NotEvicted /\ later - deprecated[id].deprecatedAt > Grace)
    BY <1>2, ReconcileAssumption
<1> QED BY <1>1, <1>3 DEF Aged

\* What a run finds over files of which an earlier run with the same sources replaced
\* some, parsed: Same is what the two runs agree on.
LEMMA RunOver ==
    ASSUME NEW in \in Inputs, NEW files, FilesOK(files), NEW mixed, NEW later \in Nat,
           mixed.models = Generated(in, files).models,
           \/ mixed.quarantine = Generated(in, files).quarantine
           \/ mixed.quarantine = files.quarantine /\ later = in.now,
           \/ mixed.deprecated = files.deprecated /\ later = in.now
           \/ /\ mixed.deprecated = Generated(in, files).deprecated
              /\ \A id \in DOMAIN mixed.deprecated :
                     mixed.deprecated[id].evictedAt = NotEvicted =>
                         later - mixed.deprecated[id].deprecatedAt <= Grace
    PROVE  LET held == ReadBack(files)  mix == ReadBack(mixed)
               next == Content(in, held)
               again == Content([in EXCEPT !.now = later], mix)
           IN  /\ again.availability = next.availability
               /\ again.catalog = next.catalog
               /\ again.quarantine = next.quarantine
               /\ ParsedDeprecated(again.deprecated) = ParsedDeprecated(next.deprecated)
               /\ later = in.now => Stamp(in, mix, again) = Stamp(in, held, next)
<1> DEFINE held == ReadBack(files)
           mix == ReadBack(mixed)
           next == Content(in, held)
           again == Content([in EXCEPT !.now = later], mix)
           manifest == [generatedAt |-> Stamp(in, held, next),
                        availability |-> next.availability, catalog |-> next.catalog]
<1>1. /\ Generated(in, files).models = {manifest}
      /\ Generated(in, files).quarantine = next.quarantine
      /\ Generated(in, files).deprecated = next.deprecated
    BY GeneratedIs
<1>2. /\ FilesOK(held)
      /\ \A m \in held.models : ManifestOK(m) /\ ParsedManifest(m) = m
      /\ ParsedDeprecated(held.deprecated) = held.deprecated
    BY ReadingBack DEF FilesOK
<1>3. /\ mix.models = {ParsedManifest(m) : m \in mixed.models}
      /\ mix.quarantine = mixed.quarantine
      /\ mix.deprecated = ParsedDeprecated(mixed.deprecated)
      /\ held.quarantine = files.quarantine
      /\ held.deprecated = ParsedDeprecated(files.deprecated)
    BY DEF ReadBack
<1> HIDE DEF held, mix
<1>4. EntriesOK(next.deprecated) /\ ManifestOK(manifest)
  <2>1. EntriesOK(held.deprecated)
    BY <1>2 DEF FilesOK
  <2>2. /\ EntriesOK(next.deprecated)
        /\ next.catalog = [id \in DOMAIN next.catalog |-> next.catalog[id]]
        /\ \A id \in DOMAIN next.catalog : next.catalog[id] \in CatalogModels
    BY <2>1, ContentOK
  <2> HIDE DEF next
  <2> QED BY <2>2 DEF ManifestOK
<1>5. \/ mix.deprecated = held.deprecated /\ later = in.now
      \/ /\ mix.deprecated = ParsedDeprecated(next.deprecated)
         /\ \A id \in DOMAIN mix.deprecated :
                Aged(mix.deprecated[id], later) = mix.deprecated[id]
  <2> HIDE DEF next, again
  <2>1. CASE mixed.deprecated = files.deprecated /\ later = in.now
    BY <1>3, <2>1
  <2>2. CASE /\ mixed.deprecated = next.deprecated
             /\ \A id \in DOMAIN mixed.deprecated :
                    mixed.deprecated[id].evictedAt = NotEvicted =>
                        later - mixed.deprecated[id].deprecatedAt <= Grace
    BY <1>3, <1>4, <2>2, NotDue
  <2> QED BY <1>1, <2>1, <2>2
<1>6. \/ mix.quarantine = next.quarantine
      \/ mix.quarantine = held.quarantine /\ later = in.now
    BY <1>1, <1>3
<1>7. /\ again.availability = next.availability
      /\ again.catalog = next.catalog
      /\ again.quarantine = next.quarantine
      /\ \/ again.deprecated = next.deprecated /\ mix.deprecated = held.deprecated
         \/ /\ again.deprecated = mix.deprecated
            /\ mix.deprecated = ParsedDeprecated(next.deprecated)
  <2>1. EntriesOK(held.deprecated)
    BY <1>2 DEF FilesOK
  <2> QED BY <1>5, <1>6, <2>1, ContentStable
<1> HIDE DEF next, again
<1>8. ParsedDeprecated(again.deprecated) = ParsedDeprecated(next.deprecated)
    BY <1>4, <1>7, ParsingDeprecated
<1>9. Stamp(in, mix, again) = Stamp(in, held, next)
  <2>1. mix.models = {ParsedManifest(manifest)}
    BY <1>1, <1>3
  <2>2. /\ manifest.generatedAt = Stamp(in, held, next)
        /\ manifest.availability = next.availability /\ manifest.catalog = next.catalog
    OBVIOUS
  <2>3. /\ mix.quarantine \in {held.quarantine, next.quarantine}
        /\ mix.deprecated \in {held.deprecated, ParsedDeprecated(next.deprecated)}
        /\ again.deprecated \in {next.deprecated, mix.deprecated}
    BY <1>5, <1>6, <1>7
  <2> HIDE DEF manifest
  <2> QED BY <1>2, <1>4, <1>7, <2>1, <2>2, <2>3, StampStable
<1> QED BY <1>7, <1>8, <1>9 DEF held, mix, next, again

\* The result of a run as the next reader sees it.
LEMMA ReadBackGenerated ==
    ASSUME NEW in, NEW files
    PROVE  LET held == ReadBack(files)
               next == Content(in, held)
           IN  ReadBack(Generated(in, files)) =
                [models |-> {ParsedManifest([generatedAt |-> Stamp(in, held, next),
                                             availability |-> next.availability,
                                             catalog |-> next.catalog])},
                 quarantine |-> next.quarantine,
                 deprecated |-> ParsedDeprecated(next.deprecated)]
<1> DEFINE held == ReadBack(files)
           next == Content(in, held)
           manifest == [generatedAt |-> Stamp(in, held, next),
                        availability |-> next.availability, catalog |-> next.catalog]
<1>1. Generated(in, files) =
        [models |-> {manifest}, quarantine |-> next.quarantine, deprecated |-> next.deprecated]
    BY GeneratedIs
<1> HIDE DEF held, next, manifest
<1>2. ReadBack(Generated(in, files)) =
        [models |-> {ParsedManifest(manifest)}, quarantine |-> next.quarantine,
         deprecated |-> ParsedDeprecated(next.deprecated)]
    BY <1>1 DEF ReadBack
<1> QED BY <1>2 DEF held, next, manifest

\* A run over files of which it has replaced some gives what it gave, to a reader.
LEMMA Repeated ==
    ASSUME NEW in \in Inputs, NEW files, FilesOK(files), NEW mixed,
           mixed.models = Generated(in, files).models,
           mixed.quarantine \in {Generated(in, files).quarantine, files.quarantine},
           mixed.deprecated \in {Generated(in, files).deprecated, files.deprecated}
    PROVE  ReadBack(Generated(in, mixed)) = ReadBack(Generated(in, files))
<1> DEFINE held == ReadBack(files)
           mix == ReadBack(mixed)
           next == Content(in, held)
           again == Content(in, mix)
<1>1. in = [in EXCEPT !.now = in.now] /\ in.now \in Nat
    BY InputsNat DEF Inputs
<1>2. \A id \in DOMAIN Generated(in, files).deprecated :
          Generated(in, files).deprecated[id].evictedAt = NotEvicted =>
              in.now - Generated(in, files).deprecated[id].deprecatedAt <= Grace
  <2>1. EntriesOK(held.deprecated)
    BY ReadingBack DEF FilesOK
  <2>2. Generated(in, files).deprecated = next.deprecated
    BY GeneratedIs
  <2> HIDE DEF held
  <2>3. \A id \in DOMAIN next.deprecated :
            next.deprecated[id].evictedAt = NotEvicted =>
                in.now - next.deprecated[id].deprecatedAt <= Grace
    BY <2>1, ContentOK
  <2> HIDE DEF next
  <2> QED BY <2>2, <2>3
<1>3. /\ again.availability = next.availability
      /\ again.catalog = next.catalog
      /\ again.quarantine = next.quarantine
      /\ ParsedDeprecated(again.deprecated) = ParsedDeprecated(next.deprecated)
      /\ Stamp(in, mix, again) = Stamp(in, held, next)
    BY <1>1, <1>2, RunOver
<1>4. /\ ReadBack(Generated(in, mixed)) =
            [models |-> {ParsedManifest([generatedAt |-> Stamp(in, mix, again),
                                         availability |-> again.availability,
                                         catalog |-> again.catalog])},
             quarantine |-> again.quarantine,
             deprecated |-> ParsedDeprecated(again.deprecated)]
      /\ ReadBack(Generated(in, files)) =
            [models |-> {ParsedManifest([generatedAt |-> Stamp(in, held, next),
                                         availability |-> next.availability,
                                         catalog |-> next.catalog])},
             quarantine |-> next.quarantine,
             deprecated |-> ParsedDeprecated(next.deprecated)]
    BY ReadBackGenerated
<1> HIDE DEF held, mix, next, again
<1> QED BY <1>3, <1>4

\* A later run over all of a run's output, before an entry is due, gives the same apart
\* from the stamp.
LEMMA RerunSame ==
    ASSUME NEW in \in Inputs, NEW files, FilesOK(files), NEW later \in Nat,
           \A id \in DOMAIN Generated(in, files).deprecated :
               Generated(in, files).deprecated[id].evictedAt = NotEvicted =>
                   later - Generated(in, files).deprecated[id].deprecatedAt <= Grace
    PROVE  Undated(ReadBack(Generated([in EXCEPT !.now = later], Generated(in, files))))
           = Undated(ReadBack(Generated(in, files)))
<1> DEFINE mixed == Generated(in, files)
           input == [in EXCEPT !.now = later]
           held == ReadBack(files)
           mix == ReadBack(mixed)
           next == Content(in, held)
           again == Content(input, mix)
<1>1. /\ again.availability = next.availability
      /\ again.catalog = next.catalog
      /\ again.quarantine = next.quarantine
      /\ ParsedDeprecated(again.deprecated) = ParsedDeprecated(next.deprecated)
    BY RunOver
<1>2. /\ ReadBack(Generated(input, mixed)) =
            [models |-> {ParsedManifest([generatedAt |-> Stamp(input, mix, again),
                                         availability |-> again.availability,
                                         catalog |-> again.catalog])},
             quarantine |-> again.quarantine,
             deprecated |-> ParsedDeprecated(again.deprecated)]
      /\ ReadBack(mixed) =
            [models |-> {ParsedManifest([generatedAt |-> Stamp(in, held, next),
                                         availability |-> next.availability,
                                         catalog |-> next.catalog])},
             quarantine |-> next.quarantine,
             deprecated |-> ParsedDeprecated(next.deprecated)]
    BY ReadBackGenerated
<1> HIDE DEF mixed, input, held, mix, next, again
<1>3. Undated(ReadBack(Generated(input, mixed))) = Undated(ReadBack(mixed))
  <2> DEFINE ManifestAt(t) == ParsedManifest([generatedAt |-> t,
                                              availability |-> next.availability,
                                              catalog |-> next.catalog])
             FilesAt(t) == [models |-> {ManifestAt(t)}, quarantine |-> next.quarantine,
                            deprecated |-> ParsedDeprecated(next.deprecated)]
             parsed == [id \in DOMAIN next.catalog |-> ParsedModel(next.catalog[id])]
  <2>1. \A t : /\ ManifestAt(t).availability = next.availability
               /\ ManifestAt(t).catalog = parsed
    BY DEF ParsedManifest
  <2>2. ReadBack(Generated(input, mixed)) = FilesAt(Stamp(input, mix, again))
        /\ ReadBack(mixed) = FilesAt(Stamp(in, held, next))
    BY <1>1, <1>2
  <2> HIDE DEF ManifestAt, parsed
  <2>3. ASSUME NEW t
        PROVE  Undated(FilesAt(t)) =
                 [models |-> {[availability |-> next.availability, catalog |-> parsed]},
                  quarantine |-> next.quarantine,
                  deprecated |-> ParsedDeprecated(next.deprecated)]
    <3>1. {[availability |-> m.availability, catalog |-> m.catalog] : m \in FilesAt(t).models}
              = {[availability |-> next.availability, catalog |-> parsed]}
        BY <2>1
    <3> QED BY <3>1 DEF Undated
  <2> HIDE DEF FilesAt
  <2> QED BY <2>2, <2>3
<1> QED BY <1>3 DEF mixed, input

------------------------------------------------------------------------------
(* The runs of the generator, and what ships.                              *)

LEMMA NoFilesOK == FilesOK(NoFiles)
BY DEF FilesOK, NoFiles, EntriesOK, NothingIn

LEMMA HalfOK ==
    ASSUME NEW held, NEW output, NEW left, FilesOK(held), FilesOK(output)
    PROVE  FilesOK(Half(held, output, left))
BY DEF FilesOK, Half

LEMMA RowFacts ==
    /\ Len(<<"models", "quarantine", "deprecated", "patches">>) = 4
    /\ Head(<<"models", "quarantine", "deprecated", "patches">>) = "models"
    /\ Tail(<<"models", "quarantine", "deprecated", "patches">>)
            = <<"quarantine", "deprecated", "patches">>
    /\ Len(<<"quarantine", "deprecated", "patches">>) = 3
    /\ Head(<<"quarantine", "deprecated", "patches">>) = "quarantine"
    /\ Tail(<<"quarantine", "deprecated", "patches">>) = <<"deprecated", "patches">>
    /\ Len(<<"deprecated", "patches">>) = 2
    /\ Head(<<"deprecated", "patches">>) = "deprecated"
    /\ Tail(<<"deprecated", "patches">>) = <<"patches">>
    /\ Len(<<"patches">>) = 1 /\ Head(<<"patches">>) = "patches"
OBVIOUS

LEMMA HalfAt ==
    ASSUME NEW held, NEW output
    PROVE  /\ Half(held, output, <<"quarantine", "deprecated", "patches">>) =
                [models |-> output.models, quarantine |-> held.quarantine,
                 deprecated |-> held.deprecated]
           /\ Half(held, output, <<"deprecated", "patches">>) =
                [models |-> output.models, quarantine |-> output.quarantine,
                 deprecated |-> held.deprecated]
           /\ Half(held, output, <<"patches">>) =
                [models |-> output.models, quarantine |-> output.quarantine,
                 deprecated |-> output.deprecated]
           /\ Half(held, output, <<"models", "quarantine", "deprecated", "patches">>) =
                [models |-> held.models, quarantine |-> held.quarantine,
                 deprecated |-> held.deprecated]
<1>1. /\ <<"quarantine", "deprecated", "patches">>
             # <<"models", "quarantine", "deprecated", "patches">>
      /\ <<"deprecated", "patches">> # <<"models", "quarantine", "deprecated", "patches">>
      /\ <<"patches">> # <<"models", "quarantine", "deprecated", "patches">>
      /\ <<"quarantine", "deprecated", "patches">> # <<"deprecated", "patches">>
      /\ <<"quarantine", "deprecated", "patches">> # <<"patches">>
      /\ <<"deprecated", "patches">> # <<"patches">>
      /\ <<"models", "quarantine", "deprecated", "patches">> # <<"deprecated", "patches">>
      /\ <<"models", "quarantine", "deprecated", "patches">> # <<"patches">>
    BY RowFacts
<1> QED BY <1>1 DEF Half

LEMMA InitGeneratorInv == HistoryInit => GeneratorInv
BY NoFilesOK DEF HistoryInit, GeneratorInit, GeneratorInv

LEMMA StepGeneratorInv == GeneratorInv /\ [HistoryNext]_historyVars => GeneratorInv'
<1> SUFFICES ASSUME GeneratorInv, [HistoryNext]_historyVars PROVE GeneratorInv'
    OBVIOUS
<1>1. ASSUME NEW in \in Inputs, Generates(in) PROVE GeneratorInv'
  <2> DEFINE row == <<"models", "quarantine", "deprecated", "patches">>
  <2>1. /\ run' = [input |-> in, output |-> Generated(in, artifacts), left |-> row]
        /\ artifacts' = artifacts /\ FilesOK(artifacts)
    BY <1>1 DEF Generates, GeneratorInv
  <2>2. artifacts = Half(artifacts, Generated(in, artifacts), row)
    BY <2>1 DEF Half, FilesOK
  <2> QED BY <2>1, <2>2 DEF GeneratorInv, Rows
<1>2. CASE WritesFile
  <2>1. PICK held : /\ FilesOK(held)
                    /\ run.output = Generated(run.input, held)
                    /\ artifacts = Half(held, run.output, run.left)
    BY <1>2 DEF WritesFile, GeneratorInv
  <2>2. /\ run.left \in Rows /\ run.input \in Inputs
        /\ run = [input |-> run.input, output |-> run.output, left |-> run.left]
        /\ FilesOK(run.output)
    BY <1>2, <2>1, GeneratedOK DEF WritesFile, GeneratorInv
  <2>3. CASE run.left = <<"models", "quarantine", "deprecated", "patches">>
    <3>1. /\ run' = [run EXCEPT !.left = <<"quarantine", "deprecated", "patches">>]
          /\ artifacts' = [artifacts EXCEPT !.models = run.output.models]
      <4>1. /\ Head(run.left) = "models" /\ Len(run.left) # 1
            /\ Tail(run.left) = <<"quarantine", "deprecated", "patches">>
        BY <2>3, RowFacts
      <4>2. run' = [run EXCEPT !.left = Tail(run.left)]
        BY <1>2, <4>1 DEF WritesFile
      <4> QED BY <1>2, <4>1, <4>2 DEF WritesFile
    <3>2. artifacts' = Half(held, run.output, <<"quarantine", "deprecated", "patches">>)
      <4>1. artifacts = [models |-> held.models, quarantine |-> held.quarantine,
                         deprecated |-> held.deprecated]
        BY <2>1, <2>3, HalfAt
      <4>2. Half(held, run.output, <<"quarantine", "deprecated", "patches">>) =
                [models |-> run.output.models, quarantine |-> held.quarantine,
                 deprecated |-> held.deprecated]
        BY HalfAt
      <4> QED BY <3>1, <4>1, <4>2
    <3>3. /\ run'.left = <<"quarantine", "deprecated", "patches">>
          /\ run'.input = run.input /\ run'.output = run.output
          /\ run' = [input |-> run'.input, output |-> run'.output, left |-> run'.left]
        BY <2>2, <3>1
    <3>4. FilesOK(artifacts')
        BY <2>1, <2>2, <3>2, HalfOK
    <3> QED BY <2>1, <2>2, <3>2, <3>3, <3>4 DEF GeneratorInv, Rows
  <2>4. CASE run.left = <<"quarantine", "deprecated", "patches">>
    <3>1. /\ run' = [run EXCEPT !.left = <<"deprecated", "patches">>]
          /\ artifacts' = [artifacts EXCEPT !.quarantine = run.output.quarantine]
      <4>1. /\ Head(run.left) = "quarantine" /\ Len(run.left) # 1
            /\ Tail(run.left) = <<"deprecated", "patches">>
        BY <2>4, RowFacts
      <4>2. run' = [run EXCEPT !.left = Tail(run.left)]
        BY <1>2, <4>1 DEF WritesFile
      <4> QED BY <1>2, <4>1, <4>2 DEF WritesFile
    <3>2. artifacts' = Half(held, run.output, <<"deprecated", "patches">>)
      <4>1. artifacts = [models |-> run.output.models, quarantine |-> held.quarantine,
                         deprecated |-> held.deprecated]
        BY <2>1, <2>4, HalfAt
      <4>2. Half(held, run.output, <<"deprecated", "patches">>) =
                [models |-> run.output.models, quarantine |-> run.output.quarantine,
                 deprecated |-> held.deprecated]
        BY HalfAt
      <4> QED BY <3>1, <4>1, <4>2
    <3>3. /\ run'.left = <<"deprecated", "patches">>
          /\ run'.input = run.input /\ run'.output = run.output
          /\ run' = [input |-> run'.input, output |-> run'.output, left |-> run'.left]
        BY <2>2, <3>1
    <3>4. FilesOK(artifacts')
        BY <2>1, <2>2, <3>2, HalfOK
    <3> QED BY <2>1, <2>2, <3>2, <3>3, <3>4 DEF GeneratorInv, Rows
  <2>5. CASE run.left = <<"deprecated", "patches">>
    <3>1. /\ run' = [run EXCEPT !.left = <<"patches">>]
          /\ artifacts' = [artifacts EXCEPT !.deprecated = run.output.deprecated]
      <4>1. /\ Head(run.left) = "deprecated" /\ Len(run.left) # 1
            /\ Tail(run.left) = <<"patches">>
        BY <2>5, RowFacts
      <4>2. run' = [run EXCEPT !.left = Tail(run.left)]
        BY <1>2, <4>1 DEF WritesFile
      <4> QED BY <1>2, <4>1, <4>2 DEF WritesFile
    <3>2. artifacts' = Half(held, run.output, <<"patches">>)
      <4>1. artifacts = [models |-> run.output.models, quarantine |-> run.output.quarantine,
                         deprecated |-> held.deprecated]
        BY <2>1, <2>5, HalfAt
      <4>2. Half(held, run.output, <<"patches">>) =
                [models |-> run.output.models, quarantine |-> run.output.quarantine,
                 deprecated |-> run.output.deprecated]
        BY DEF Half
      <4> QED BY <3>1, <4>1, <4>2
    <3>3. /\ run'.left = <<"patches">>
          /\ run'.input = run.input /\ run'.output = run.output
          /\ run' = [input |-> run'.input, output |-> run'.output, left |-> run'.left]
        BY <2>2, <3>1
    <3>4. FilesOK(artifacts')
        BY <2>1, <2>2, <3>2, HalfOK
    <3> QED BY <2>1, <2>2, <3>2, <3>3, <3>4 DEF GeneratorInv, Rows
  <2>6. CASE run.left = <<"patches">>
    <3>1. run' = NoRun /\ artifacts' = artifacts
        BY <1>2, <2>6, RowFacts DEF WritesFile
    <3> QED BY <3>1 DEF GeneratorInv
  <2> QED BY <2>2, <2>3, <2>4, <2>5, <2>6 DEF Rows
<1>3. CASE Interrupted
    BY <1>3 DEF Interrupted, GeneratorInv
<1>4. ASSUME NEW manifest \in artifacts.models, Ships(manifest) PROVE GeneratorInv'
    BY <1>4, NoFilesOK DEF Ships, GeneratorInv
<1>5. CASE UNCHANGED generatorVars
    BY <1>5 DEF generatorVars, GeneratorInv
<1> QED BY <1>1, <1>2, <1>3, <1>4, <1>5 DEF HistoryNext, GeneratorNext, historyVars

THEOREM GeneratorInvariance == HistorySpec => []GeneratorInv
BY InitGeneratorInv, StepGeneratorInv, PTL DEF HistorySpec

\* Between any two writes of a run the files on disk give the same output to a run with
\* the same input, but for families of frozen models: an interruption loses nothing
\* (main, the loop over output.files).
THEOREM InterruptionsHeal == HistorySpec => []InterruptionHeals
<1>1. GeneratorInv => InterruptionHeals
  <2> SUFFICES ASSUME GeneratorInv, run # NoRun
               PROVE  /\ Parses(artifacts)
                      /\ ReadBack(Generated(run.input, artifacts)) = ReadBack(run.output)
    BY DEF InterruptionHeals
  <2>1. PICK files : /\ FilesOK(files)
                     /\ run.output = Generated(run.input, files)
                     /\ artifacts = Half(files, run.output, run.left)
    BY DEF GeneratorInv
  <2>2. Parses(artifacts)
    BY DEF GeneratorInv, FilesOK, EntriesOK, Parses, TombstonesLate
  <2>3. run.left \in Rows /\ run.input \in Inputs
    BY DEF GeneratorInv
  <2>4. CASE run.left = <<"models", "quarantine", "deprecated", "patches">>
    <3>1. artifacts = files
        BY <2>1, <2>4 DEF Half, FilesOK
    <3> QED BY <2>1, <2>2, <3>1
  <2>5. CASE run.left # <<"models", "quarantine", "deprecated", "patches">>
    <3>1. /\ artifacts.models = run.output.models
          /\ artifacts.quarantine \in {run.output.quarantine, files.quarantine}
          /\ artifacts.deprecated \in {run.output.deprecated, files.deprecated}
        BY <2>1, <2>5 DEF Half
    <3> QED BY <2>1, <2>2, <2>3, <3>1, Repeated
  <2> QED BY <2>4, <2>5
<1> QED BY GeneratorInvariance, <1>1, PTL

\* A later run over the output of a run, with the same sources, accepts it and keeps
\* the models, the first detections and the grace clocks, unless an entry is due by
\* then (generateCatalogFiles and parseDeprecatedFile).
THEOREM RerunsKeepState == HistorySpec => []RerunKeepsState
<1>1. GeneratorInv => RerunKeepsState
  <2> SUFFICES ASSUME GeneratorInv, run # NoRun, NEW later \in QuietInstants
               PROVE  /\ Parses(run.output)
                      /\ Undated(ReadBack(Generated([run.input EXCEPT !.now = later], run.output)))
                         = Undated(ReadBack(run.output))
    BY DEF RerunKeepsState
  <2>1. PICK files : FilesOK(files) /\ run.output = Generated(run.input, files)
    BY DEF GeneratorInv
  <2>2. run.input \in Inputs
    BY DEF GeneratorInv
  <2>3. Parses(run.output)
    BY <2>1, <2>2, GeneratedOK DEF FilesOK, EntriesOK, Parses, TombstonesLate
  <2>4. \A id \in DOMAIN run.output.deprecated :
            run.output.deprecated[id].evictedAt = NotEvicted =>
                later - run.output.deprecated[id].deprecatedAt <= Grace
    <3>1. CASE run.input.live
        BY <3>1 DEF QuietInstants
    <3>2. CASE ~run.input.live
        BY <2>1, <3>2 DEF Generated, Content, NothingIn
    <3> QED BY <3>1, <3>2
  <2>5. later \in Nat
    BY GeneratorAssumption DEF QuietInstants
  <2> QED BY <2>1, <2>2, <2>3, <2>4, <2>5, RerunSame
<1> QED BY GeneratorInvariance, <1>1, PTL

------------------------------------------------------------------------------
(* The host.                                                               *)

\* A reconciliation state as of its refresh t: no instant is later than t, but for the
\* generatedAt of the bundle; a tombstone is past the grace of its entry, the other
\* entries are within it; and an id is in one place only.
Lawful(s, t) ==
    /\ s.generatedAt \in Nat /\ (s.generatedAt <= t \/ s.generatedAt <= BuildTime)
    /\ EntriesOK(s.deprecated)
    /\ \A id \in DOMAIN s.deprecated :
           /\ s.deprecated[id].deprecatedAt <= t /\ s.deprecated[id].evictedAt <= t
           /\ s.deprecated[id].evictedAt = NotEvicted =>
                  t - s.deprecated[id].deprecatedAt <= Grace
    /\ \A id \in DOMAIN s.quarantine :
           s.quarantine[id].detectedAt \in Nat /\ s.quarantine[id].detectedAt <= t
    /\ NotServedTwice(s)

HistoryInv ==
    /\ refreshedAt \in Nat /\ clock \in Nat /\ clock >= BuildTime
    /\ Lawful(served, refreshedAt)
    /\ \A e \in cache : /\ e.refreshedAt \in Nat /\ e.refreshedAt >= BuildTime
                        /\ Lawful(e.state, e.refreshedAt)
    /\ \A m \in shipped : m.generatedAt \in Epoch .. BuildTime

LEMMA ReconcileLawful ==
    ASSUME NEW o \in Observations, NEW prev, NEW t \in Nat, Lawful(prev, t),
           NEW now \in Nat, now > t, now >= BuildTime
    PROVE  Lawful(ReconcileState(o, prev, now), now)
<1> DEFINE next == ReconcileState(o, prev, now)
<1> USE DEF BuildTime
<1>1. /\ next.catalog = CatalogOf(o)
      /\ next.quarantine = QuarantineOf(o, prev, now)
      /\ next.deprecated = DeprecatedOf(o, prev, now)
      /\ next.generatedAt \in {prev.generatedAt, now}
    BY DEF ReconcileState
<1> HIDE DEF next
<1>2. next.generatedAt \in Nat /\ (next.generatedAt <= now \/ next.generatedAt <= BuildTime)
    BY <1>1 DEF Lawful
<1>3. EntriesOK(next.deprecated)
    BY <1>1, DeprecationsOK DEF Lawful
<1>4. ASSUME NEW id \in DOMAIN next.deprecated
      PROVE  /\ next.deprecated[id].deprecatedAt <= now /\ next.deprecated[id].evictedAt <= now
             /\ next.deprecated[id].evictedAt = NotEvicted =>
                    now - next.deprecated[id].deprecatedAt <= Grace
  <2>1. CASE id \in DOMAIN prev.deprecated
    <3>1. next.deprecated[id] = Aged(prev.deprecated[id], now)
        BY <1>1, <1>4, <2>1 DEF DeprecatedOf
    <3>2. /\ prev.deprecated[id] \in Entry
          /\ prev.deprecated[id].evictedAt # NotEvicted =>
                 prev.deprecated[id].evictedAt > prev.deprecated[id].deprecatedAt + Grace
          /\ prev.deprecated[id].deprecatedAt <= t /\ prev.deprecated[id].evictedAt <= t
        BY <2>1 DEF Lawful, EntriesOK
    <3>3. prev.deprecated[id].deprecatedAt \in Int /\ prev.deprecated[id].evictedAt \in Int
        BY <3>2 DEF Entry
    <3>4. /\ next.deprecated[id].deprecatedAt = prev.deprecated[id].deprecatedAt
          /\ next.deprecated[id].evictedAt \in {prev.deprecated[id].evictedAt, now}
          /\ next.deprecated[id].evictedAt = NotEvicted =>
                 now - prev.deprecated[id].deprecatedAt <= Grace
        BY <3>1, <3>2, Aging
    <3> QED BY <3>2, <3>3, <3>4
  <2>2. CASE id \notin DOMAIN prev.deprecated
    <3>1. next.deprecated[id] =
              [deprecatedAt |-> now, evictedAt |-> NotEvicted, model |-> Derived(o.known[id])]
        BY <1>1, <1>4, <2>2 DEF DeprecatedOf
    <3> QED BY <3>1, ReconcileAssumption DEF NotEvicted
  <2> QED BY <2>1, <2>2
<1>5. ASSUME NEW id \in DOMAIN next.quarantine
      PROVE  next.quarantine[id].detectedAt \in Nat /\ next.quarantine[id].detectedAt <= now
  <2>1. next.quarantine[id].detectedAt = IF id \in DOMAIN prev.quarantine
                                         THEN prev.quarantine[id].detectedAt ELSE now
    BY <1>1, <1>5 DEF QuarantineOf
  <2> QED BY <2>1 DEF Lawful
<1>6. NotServedTwice(next)
  <2>1. /\ DOMAIN next.catalog = o.live \cap Viable(o)
        /\ DOMAIN next.quarantine = QuarantinedIds(o, prev)
        /\ DOMAIN next.deprecated = (DOMAIN prev.deprecated \cup Viable(o)) \ o.live
    BY <1>1 DEF CatalogOf, QuarantineOf, DeprecatedOf
  <2>2. DOMAIN next.quarantine \cap DOMAIN next.catalog = {}
    BY <2>1 DEF QuarantinedIds
  <2>3. DOMAIN next.deprecated \cap DOMAIN next.catalog = {}
    BY <2>1
  <2> QED BY <2>2, <2>3 DEF NotServedTwice
<1>7. Lawful(next, now)
    BY <1>2, <1>3, <1>4, <1>5, <1>6 DEF Lawful
<1> QED BY <1>7 DEF next

LEMMA BundleLawful ==
    ASSUME NEW manifest, manifest.generatedAt \in Epoch .. BuildTime, NEW t \in Nat
    PROVE  Lawful(StateOf(manifest), t)
BY DEF Lawful, StateOf, NothingIn, EntriesOK, NotServedTwice, Epoch, BuildTime

LEMMA InitHistoryInv == HistoryInit => HistoryInv
<1> SUFFICES ASSUME HistoryInit PROVE HistoryInv
    OBVIOUS
<1>1. Lawful(served, refreshedAt)
    BY BundleLawful DEF HistoryInit, Epoch, BuildTime
<1> QED BY <1>1 DEF HistoryInit, HistoryInv, Epoch, BuildTime

LEMMA StepHistoryInv == HistoryInv /\ [HistoryNext]_historyVars => HistoryInv'
<1> SUFFICES ASSUME HistoryInv, [HistoryNext]_historyVars PROVE HistoryInv'
    OBVIOUS
<1>1. ASSUME NEW o \in Observations, Refresh(o), UNCHANGED shipped PROVE HistoryInv'
  <2>1. /\ served' = ReconcileState(o, served, clock) /\ refreshedAt' = clock
        /\ cache' = {[state |-> served', refreshedAt |-> clock]}
        /\ clock' = clock /\ clock > refreshedAt
    BY <1>1 DEF Refresh
  <2>2. Lawful(served', clock)
    BY <2>1, ReconcileLawful DEF HistoryInv
  <2> QED BY <1>1, <2>1, <2>2 DEF HistoryInv
<1>2. CASE RestartFromCache /\ UNCHANGED shipped
    BY <1>2 DEF RestartFromCache, Accepted, HistoryInv
<1>3. CASE RestartFromEmbedded /\ UNCHANGED shipped /\ shipped # {}
  <2>1. Lawful(EmbeddedState, Epoch)
    BY <1>3, BundleLawful DEF EmbeddedState, HistoryInv, Epoch
  <2> QED BY <1>3, <2>1 DEF RestartFromEmbedded, HistoryInv, Epoch
<1>4. CASE ClockMoves /\ UNCHANGED shipped
    BY <1>4, HistoryAssumption DEF ClockMoves, HistoryInv, Time, BuildTime
<1>5. ASSUME NEW manifest \in artifacts.models, Ships(manifest) PROVE HistoryInv'
  <2>1. Lawful(served', refreshedAt')
    BY <1>5, BundleLawful DEF Ships, HistoryInv
  <2> QED BY <1>5, <2>1, HistoryAssumption DEF Ships, HistoryInv, Time, BuildTime
<1>6. CASE UNCHANGED <<shipped, hostVars>>
    BY <1>6 DEF hostVars, HistoryInv
<1> QED
    BY <1>1, <1>2, <1>3, <1>4, <1>5, <1>6
    DEF HistoryNext, HostSteps, generatorVars, historyVars

THEOREM HistoryInvariance == HistorySpec => []HistoryInv
BY InitHistoryInv, StepHistoryInv, PTL DEF HistorySpec

\* Every envelope a refresh writes is consistent, whatever the clock did
\* (the checks of readCache but the key sets and the selectable grace).
THEOREM EnvelopesConsistent == HistorySpec => []WrittenEnvelopeConsistent
<1>1. HistoryInv => WrittenEnvelopeConsistent
  <2> SUFFICES ASSUME HistoryInv, NEW e \in cache
               PROVE  /\ NotAfterRefresh(e.state, e.refreshedAt)
                      /\ TombstonesLate(e.state) /\ NotServedTwice(e.state)
    BY DEF WrittenEnvelopeConsistent
  <2>1. e.refreshedAt \in Nat /\ e.refreshedAt >= BuildTime /\ Lawful(e.state, e.refreshedAt)
    BY DEF HistoryInv
  <2>2. e.state.generatedAt <= e.refreshedAt
    BY <2>1 DEF Lawful, BuildTime
  <2>3. NotAfterRefresh(e.state, e.refreshedAt)
    BY <2>1, <2>2 DEF Lawful, NotAfterRefresh, Instants
  <2>4. TombstonesLate(e.state)
    BY <2>1 DEF Lawful, EntriesOK, TombstonesLate
  <2> QED BY <2>1, <2>3, <2>4 DEF Lawful
<1> QED BY HistoryInvariance, <1>1, PTL

\* No entry a refresh leaves without its tombstone is past its grace (reconcile).
THEOREM GraceEnds == HistorySpec => []GraceEndsOnTime
<1>1. HistoryInv => GraceEndsOnTime
    BY DEF HistoryInv, Lawful, GraceEndsOnTime
<1> QED BY HistoryInvariance, <1>1, PTL

\* A step that changes the cache is a refresh.
LEMMA OnlyRefreshWrites ==
    ASSUME [HistoryNext]_historyVars, Refreshed
    PROVE  \E o \in Observations : Refresh(o)
BY DEF Refreshed, HistoryNext, HostSteps, RestartFromCache, RestartFromEmbedded, ClockMoves,
       Ships, hostVars, historyVars

\* A snapshot with entries is the one in the cache file, once there is a file.
NoEntries == served.deprecated = NothingIn /\ served.quarantine = NothingIn

Remembered ==
    /\ shipped = {} => NoEntries
    /\ \A e \in cache : cache = {[state |-> e.state, refreshedAt |-> e.refreshedAt]}
    /\ NoEntries \/ cache = {} \/ cache = {[state |-> served, refreshedAt |-> refreshedAt]}

LEMMA StepRemembered == Remembered /\ [HistoryNext]_historyVars => Remembered'
<1> SUFFICES ASSUME Remembered, [HistoryNext]_historyVars PROVE Remembered'
    OBVIOUS
<1> USE DEF Remembered, NoEntries
<1>1. ASSUME NEW o \in Observations, Refresh(o), UNCHANGED shipped, shipped # {}
      PROVE  Remembered'
    BY <1>1 DEF Refresh
<1>2. CASE RestartFromCache /\ UNCHANGED shipped /\ shipped # {}
  <2>1. PICK e \in cache : served' = e.state /\ refreshedAt' = e.refreshedAt /\ cache' = cache
    BY <1>2 DEF RestartFromCache, Accepted
  <2>2. cache' = {[state |-> served', refreshedAt |-> refreshedAt']}
    BY <2>1
  <2> QED BY <1>2, <2>1, <2>2
<1>3. CASE RestartFromEmbedded /\ UNCHANGED shipped
    BY <1>3 DEF RestartFromEmbedded, EmbeddedState, StateOf
<1>4. CASE ClockMoves /\ UNCHANGED shipped
    BY <1>4 DEF ClockMoves
<1>5. ASSUME NEW manifest \in artifacts.models, Ships(manifest) PROVE Remembered'
    BY <1>5 DEF Ships, StateOf
<1>6. CASE UNCHANGED <<shipped, hostVars>>
    BY <1>6 DEF hostVars
<1> QED BY <1>1, <1>2, <1>3, <1>4, <1>5, <1>6 DEF HistoryNext, HostSteps, generatorVars, historyVars

\* Whatever a host does, the clock, the frozen model and the tombstone of a deprecation
\* and the detection of a quarantine stay what they are while it lasts, and only a
\* refresh or the fall-back to the embedded manifest ends one (reconcile, loadInitial).
THEOREM ClocksKeep == HistorySpec => ClocksKept
<1> DEFINE Keeps ==
        /\ \A id \in DOMAIN served.deprecated \cap DOMAIN served'.deprecated :
               LET old == served.deprecated[id]  new == served'.deprecated[id]
               IN  \/ new = old
                   \/ old.evictedAt = NotEvicted /\ new = [old EXCEPT !.evictedAt = clock]
        /\ \A id \in DOMAIN served.quarantine \cap DOMAIN served'.quarantine :
               served'.quarantine[id].detectedAt = served.quarantine[id].detectedAt
        /\ \/ /\ DOMAIN served.deprecated \subseteq DOMAIN served'.deprecated
              /\ DOMAIN served.quarantine \subseteq DOMAIN served'.quarantine
           \/ Refreshed \/ served' = EmbeddedState
<1>1. HistoryInit => Remembered
    BY DEF HistoryInit, StateOf, Remembered, NoEntries
<1>2. ASSUME HistoryInv, Remembered, [HistoryNext]_historyVars PROVE Keeps
  <2>1. ASSUME NEW o \in Observations, Refresh(o) PROVE Keeps
    <3>1. /\ served'.deprecated = DeprecatedOf(o, served, clock)
          /\ served'.quarantine = QuarantineOf(o, served, clock)
        BY <2>1 DEF Refresh, ReconcileState
    <3>2. Refreshed \/ NoEntries
      <4>1. clock # refreshedAt /\ cache' = {[state |-> served', refreshedAt |-> clock]}
        BY <1>2, <2>1 DEF Refresh, HistoryInv
      <4>2. cache' # {} /\ cache' # {[state |-> served, refreshedAt |-> refreshedAt]}
        <5>1. [state |-> served', refreshedAt |-> clock] \in cache'
            BY <4>1
        <5>2. \A e \in {[state |-> served, refreshedAt |-> refreshedAt]} : e.refreshedAt # clock
            BY <4>1
        <5> QED BY <5>1, <5>2
      <4> QED BY <1>2, <4>2 DEF Refreshed, Remembered
    <3>3. \A id \in DOMAIN served.deprecated \cap DOMAIN served'.deprecated :
              served'.deprecated[id] = Aged(served.deprecated[id], clock)
        BY <3>1 DEF DeprecatedOf
    <3>4. \A id \in DOMAIN served.quarantine \cap DOMAIN served'.quarantine :
              served'.quarantine[id].detectedAt = served.quarantine[id].detectedAt
        BY <3>1 DEF QuarantineOf
    <3> QED BY <3>2, <3>3, <3>4 DEF Aged, NoEntries, NothingIn
  <2>2. CASE RestartFromCache
    <3>1. PICK e \in cache : served' = e.state
        BY <2>2 DEF RestartFromCache, Accepted
    <3>2. served' = served \/ NoEntries
        BY <1>2, <3>1 DEF Remembered
    <3> QED BY <3>2 DEF NoEntries, NothingIn
  <2>3. CASE RestartFromEmbedded
    BY <2>3 DEF RestartFromEmbedded, EmbeddedState, StateOf, NothingIn
  <2>4. ASSUME NEW manifest \in artifacts.models, Ships(manifest) PROVE Keeps
    BY <1>2, <2>4 DEF Ships, Remembered, NoEntries, NothingIn
  <2>5. CASE UNCHANGED served
    BY <2>5
  <2> QED
    BY <1>2, <2>1, <2>2, <2>3, <2>4, <2>5
    DEF HistoryNext, HostSteps, ClockMoves, hostVars, historyVars
<1> QED BY <1>1, <1>2, StepRemembered, HistoryInvariance, PTL DEF HistorySpec, ClocksKept

\* A deprecation ends by the id being live again, never because models.dev forgot it
\* (reconcile).
THEOREM DeprecationsEndByReturn == HistorySpec => DeprecationEndsByReturn
<1> DEFINE Returned ==
        \A id \in DOMAIN served.deprecated \ DOMAIN served'.deprecated :
            \/ id \in DOMAIN served'.catalog
            \/ /\ id \in DOMAIN served'.quarantine
               /\ served'.quarantine[id].source = "live"
<1>1. ASSUME [HistoryNext]_historyVars, Refreshed PROVE Returned
  <2>1. PICK o \in Observations : Refresh(o)
    BY <1>1, OnlyRefreshWrites
  <2>2. /\ served'.deprecated = DeprecatedOf(o, served, clock)
        /\ served'.quarantine = QuarantineOf(o, served, clock)
        /\ served'.catalog = CatalogOf(o)
    BY <2>1 DEF Refresh, ReconcileState
  <2> QED BY <2>2 DEF DeprecatedOf, QuarantineOf, CatalogOf, QuarantinedIds
<1> QED BY <1>1, PTL DEF HistorySpec, DeprecationEndsByReturn
================================================================================
