------------------------------ MODULE HostWiring -------------------------------
(***************************************************************************)
(* The plugin's mount (apply, src/service.ts): which configuration is the  *)
(* source, and the route and directory topology that must follow it while  *)
(* a settings service comes, commits and goes, and another bundle's        *)
(* directory entry for the same route comes and goes.                      *)
(*                                                                         *)
(* A configuration is known by its credential reference.  External,        *)
(* modelled from their use here: the settings service (register validates  *)
(* the stored section and registers nothing when it is unserviceable; an   *)
(* unserviceable commit is refused; a commit's watcher runs later), the    *)
(* host's inject (its callback is dispatched some time after the service   *)
(* is there, and what it throws is contained; the scope register returns yields the  *)
(* section's last resolved value, also when its service is gone) and the   *)
(* directory registry (a second entry for a provider is refused).          *)
(***************************************************************************)
CONSTANTS
    Refs,           \* the serviceable configurations
    Entry,          \* the composition entry's
    Unserviceable,  \* a stored section the validation refuses
    NoFacts         \* nothing registered yet

ASSUME HostAssumption ==
    /\ Entry \in Refs
    /\ Unserviceable \notin Refs /\ NoFacts \notin Refs

VARIABLES
    fiber,          \* the plugin's fiber
    settings,       \* is a settings service mounted?
    section,        \* what the stored section resolves to
    scoped,         \* is our namespace registered with that service?
    injected,       \* has our inject callback run for the last one there was?
    scope,          \* what the scope attached last yields (its get)
    source,         \* what the source thunk reads
    committed,      \* a commit whose watcher has not run yet
    facts,          \* registeredFacts
    own,            \* our entry in the provider directory
    foreign         \* another bundle's entry for the route

hostVars ==
    <<fiber, settings, section, scoped, injected, scope, source, committed, facts, own, foreign>>

Stored == Refs \cup {Unserviceable}

\* current(): the source thunk.
Current == IF source = "scope" THEN scope ELSE Entry

Mounted == fiber = "mounted"

HostInit ==
    /\ fiber = "unmounted" /\ settings \in BOOLEAN /\ section \in Stored
    /\ scoped = FALSE /\ injected = FALSE /\ committed = FALSE
    /\ scope = Entry /\ source = "entry"
    /\ facts = NoFacts /\ own = FALSE /\ foreign \in BOOLEAN

\* ensureDirectory: another bundle's entry for the route stands in for ours.
EnsureDirectory == own' = (own \/ ~foreign)

\* ensureRegistration: the route follows the source, registered or replaced at once.
EnsureRegistration == facts' = Current'

\* attachScope: the section becomes the source, and the topology follows it.
AttachScope ==
    /\ source' = "scope" /\ scope' = section /\ scoped' = TRUE
    /\ EnsureDirectory /\ EnsureRegistration

\* apply: a stored section is validated before there is any topology, and rejects the
\* mount when it is unserviceable.
Apply ==
    /\ fiber = "unmounted"
    /\ settings => section \in Refs
    /\ fiber' = "mounted" /\ injected' = FALSE /\ committed' = FALSE
    /\ UNCHANGED <<settings, section, foreign>>
    /\ IF settings
       THEN AttachScope
       ELSE /\ source' = "entry" /\ UNCHANGED <<scope, scoped>>
            /\ EnsureDirectory /\ EnsureRegistration

\* Wrong variant: what is injected is attached unvalidated.
InjectUnvalidated ==
    /\ Mounted /\ settings /\ ~injected
    /\ injected' = TRUE
    /\ UNCHANGED <<fiber, settings, section, committed, foreign>>
    /\ IF ~scoped THEN AttachScope ELSE UNCHANGED <<scope, source, scoped, facts, own>>

\* The injected callback: a service that appeared after the mount is attached, unless
\* its stored section is unserviceable.
InjectRuns ==
    /\ Mounted /\ settings /\ ~injected
    /\ injected' = TRUE
    /\ UNCHANGED <<fiber, settings, section, committed, foreign>>
    /\ IF ~scoped /\ section \in Refs
       THEN AttachScope
       ELSE UNCHANGED <<scope, source, scoped, facts, own>>

\* A settings service is mounted.
SettingsMounts ==
    /\ ~settings
    /\ settings' = TRUE /\ injected' = FALSE
    /\ UNCHANGED <<fiber, section, scoped, scope, source, committed, facts, own, foreign>>

\* A change of our section commits: only a serviceable one does, and our scope yields it.
SettingsCommits ==
    /\ settings /\ scoped
    /\ section' \in Refs \ {section} /\ scope' = section'
    /\ committed' = TRUE
    /\ UNCHANGED <<fiber, settings, scoped, injected, source, facts, own, foreign>>

\* The stored document is edited while our namespace is not registered; a scope that was
\* attached before does not see it.
DocumentIsEdited ==
    /\ ~scoped
    /\ section' \in Stored \ {section}
    /\ UNCHANGED <<fiber, settings, scoped, injected, scope, source, committed, facts, own,
                   foreign>>

\* The watcher of a commit.
WatchFires ==
    /\ committed /\ committed' = FALSE
    /\ UNCHANGED <<fiber, settings, section, scoped, injected, scope, source, foreign>>
    /\ IF Mounted
       THEN EnsureDirectory /\ EnsureRegistration
       ELSE UNCHANGED <<own, facts>>

\* The settings service detaches, and its pending watchers with it.
Detaches ==
    /\ settings /\ settings' = FALSE
    /\ scoped' = FALSE /\ committed' = FALSE
    /\ UNCHANGED <<fiber, section, injected, scope, foreign>>

\* Wrong variant: the fallback leaves the topology to the next commit.
SettingsUnmountsQuietly ==
    /\ Detaches
    /\ source' = IF Mounted /\ injected THEN "entry" ELSE source
    /\ UNCHANGED <<facts, own>>

\* The disposer our injected callback left, if it was dispatched by then: fall back to
\* the entry, unless the plugin itself is being torn down.
SettingsUnmounts ==
    /\ Detaches
    /\ IF Mounted /\ injected
       THEN source' = "entry" /\ EnsureDirectory /\ EnsureRegistration
       ELSE UNCHANGED <<source, facts, own>>

\* Another bundle's entry for the route comes (never beside ours) and goes.
ForeignChanges ==
    /\ ~own /\ foreign' = ~foreign
    /\ UNCHANGED <<fiber, settings, section, scoped, injected, scope, source, committed, facts,
                   own>>

\* Teardown begins.
Unload ==
    /\ Mounted /\ fiber' = "unloading"
    /\ UNCHANGED <<settings, section, scoped, injected, scope, source, committed, facts, own,
                   foreign>>

\* It ends with every registration withdrawn; nobody resets the source thunk.
Unloaded ==
    /\ fiber = "unloading" /\ fiber' = "unmounted"
    /\ facts' = NoFacts /\ own' = FALSE /\ scoped' = FALSE
    /\ committed' = FALSE /\ injected' = FALSE
    /\ UNCHANGED <<settings, section, scope, source, foreign>>

HostNext ==
    \/ Apply \/ InjectRuns \/ WatchFires \/ Unload \/ Unloaded
    \/ SettingsMounts \/ SettingsCommits \/ DocumentIsEdited \/ SettingsUnmounts
    \/ ForeignChanges

HostSpec == HostInit /\ [][HostNext]_hostVars

------------------------------------------------------------------------------

\* The type of the wiring's state.
HostTypeOK ==
    /\ fiber \in {"unmounted", "mounted", "unloading"}
    /\ settings \in BOOLEAN /\ section \in Stored /\ scope \in Stored
    /\ scoped \in BOOLEAN /\ injected \in BOOLEAN /\ committed \in BOOLEAN
    /\ source \in {"entry", "scope"} /\ facts \in Refs \cup {NoFacts}
    /\ own \in BOOLEAN /\ foreign \in BOOLEAN

\* A mounted plugin's route is registered for the configuration its requests will read,
\* unless a commit's watcher is still to run, or was lost with a service that went before
\* our callback was dispatched; the going of any other leaves the entry as the source; and
\* no request ever reads an unserviceable section (attachScope, and the detach fallback).
TopologyFollowsSource ==
    Mounted => /\ committed \/ facts = Current \/ (source = "scope" /\ ~scoped)
               /\ injected /\ ~settings => source = "entry"
               /\ Current \in Refs

Plugin == INSTANCE PluginSource WITH mounted <- fiber # "unmounted", apiKeyEnv <- Current

\* Whoever reads the source through the thunk (adapter, lifecycle, control seam), for as
\* long as it takes: from its mount on the plugin yields a serviceable configuration,
\* whatever settings services come and go and whatever their documents hold, also while
\* the plugin is torn down; the end of the teardown leaves the configuration as it was,
\* and so does everything after it until the next mount (src/service.ts, `current`).
SuppliesSource == Plugin!Spec
================================================================================
