--------------------------- MODULE HostWiring_proofs ---------------------------
(***************************************************************************)
(* For any set of configurations: the route follows the source, and the    *)
(* plugin supplies its readers with what PluginSource promises them.       *)
(***************************************************************************)
EXTENDS HostWiring, TLAPS

\* A registered namespace has a service and is what a mounted plugin reads, its scope
\* yields the stored section, and commits are its own.  What a scope yields is serviceable
\* for as long as it is read, also when its service is gone.
ScopeIsRegistered ==
    /\ scoped => settings /\ scope = section
    /\ Mounted /\ scoped => source = "scope"
    /\ committed => scoped
    /\ fiber = "unmounted" => ~scoped
    /\ scope \in Refs

HostInv == HostTypeOK /\ ScopeIsRegistered /\ TopologyFollowsSource

LEMMA HostInitInv == HostInit => HostInv
BY HostAssumption
DEF HostInit, HostInv, HostTypeOK, ScopeIsRegistered, TopologyFollowsSource, Mounted, Stored,
    Current

\* No step of the wiring breaks the invariant.
LEMMA HostStepInv == HostInv /\ [HostNext]_hostVars => HostInv'
<1> SUFFICES ASSUME HostInv, [HostNext]_hostVars PROVE HostInv'
    OBVIOUS
<1> USE HostAssumption DEF HostInv, HostTypeOK, ScopeIsRegistered, TopologyFollowsSource,
                           Mounted, Stored, Current
<1>1. CASE Apply
    BY <1>1 DEF Apply, AttachScope, EnsureDirectory, EnsureRegistration
<1>2. CASE InjectRuns
    BY <1>2 DEF InjectRuns, AttachScope, EnsureDirectory, EnsureRegistration
<1>3. CASE WatchFires
    BY <1>3 DEF WatchFires, EnsureDirectory, EnsureRegistration
<1>4. CASE Unload
    BY <1>4 DEF Unload
<1>5. CASE Unloaded
    BY <1>5 DEF Unloaded
<1>6. CASE SettingsMounts
    BY <1>6 DEF SettingsMounts
<1>7. CASE SettingsCommits
    BY <1>7 DEF SettingsCommits
<1>8. CASE DocumentIsEdited
    BY <1>8 DEF DocumentIsEdited
<1>9. CASE SettingsUnmounts
    BY <1>9 DEF SettingsUnmounts, Detaches, EnsureDirectory, EnsureRegistration
<1>10. CASE ForeignChanges
    BY <1>10 DEF ForeignChanges
<1>11. CASE UNCHANGED hostVars
    BY <1>11 DEF hostVars
<1> QED
    BY <1>1, <1>2, <1>3, <1>4, <1>5, <1>6, <1>7, <1>8, <1>9, <1>10, <1>11 DEF HostNext

\* A mounted plugin's route is registered for the configuration its requests read, and that
\* configuration is serviceable, through every coming, commit and going of a settings
\* service (attachScope and the detach fallback of src/service.ts).
THEOREM RouteFollowsSource == HostSpec => []TopologyFollowsSource
<1>1. HostInv => TopologyFollowsSource
    BY DEF HostInv
<1> QED BY HostInitInv, HostStepInv, <1>1, PTL DEF HostSpec

------------------------------------------------------------------------------
(* The refinement: what a step of the wiring does to its mount and its     *)
(* source is a step of PluginSource.                                       *)

LEMMA HostInitSupplies == HostInit => Plugin!Init
BY HostAssumption DEF HostInit, Plugin!Init, Mounted, Current

LEMMA HostStepSupplies ==
    HostInv /\ HostInv' /\ [HostNext]_hostVars => [Plugin!Next]_(Plugin!sourceVars)
<1> SUFFICES ASSUME HostInv, HostInv', [HostNext]_hostVars
             PROVE  [Plugin!Next]_(Plugin!sourceVars)
    OBVIOUS
<1>1. Current \in Refs /\ Current' \in Refs
    BY HostAssumption DEF HostInv, HostTypeOK, ScopeIsRegistered, Current
<1>2. CASE Apply
    <2>1. fiber = "unmounted" /\ fiber' # "unmounted"
        BY <1>2 DEF Apply
    <2> QED BY <1>1, <2>1 DEF Plugin!Mounts, Plugin!Next
<1>3. CASE Unloaded
    <2>1. fiber # "unmounted" /\ fiber' = "unmounted" /\ UNCHANGED Current
        BY <1>3 DEF Unloaded, Current
    <2> QED BY <2>1 DEF Plugin!Unmounts, Plugin!Next
<1>4. CASE ~Apply /\ ~Unloaded
    <2>1. (fiber' # "unmounted") = (fiber # "unmounted")
        BY <1>4 DEF HostNext, hostVars, Mounted, InjectRuns, WatchFires, Unload,
                    SettingsMounts, SettingsCommits, DocumentIsEdited, SettingsUnmounts,
                    Detaches, ForeignChanges
\* Without a plugin no namespace is registered, and nothing touches scope or source.
    <2>2. CASE fiber = "unmounted"
        <3>1. UNCHANGED <<scope, source>>
            BY <1>4, <2>2 DEF HostInv, ScopeIsRegistered, HostNext, hostVars, Mounted,
                    InjectRuns, WatchFires, Unload, SettingsMounts, SettingsCommits,
                    DocumentIsEdited, SettingsUnmounts, Detaches, ForeignChanges
        <3> QED BY <2>1, <3>1 DEF Plugin!sourceVars, Current
    <2>3. CASE fiber # "unmounted"
        BY <1>1, <2>1, <2>3 DEF Plugin!Changes, Plugin!Next, Plugin!sourceVars
    <2> QED BY <2>2, <2>3
<1> QED BY <1>2, <1>3, <1>4

\* Whatever settings services, commits, edited documents and teardowns do, readers of the
\* source thunk get a serviceable configuration; the end of a teardown leaves it as it
\* was, and so does all that follows until the next mount (src/service.ts, `current`).
THEOREM SourceSupplied == HostSpec => SuppliesSource
<1>1. HostSpec => []HostInv
    BY HostInitInv, HostStepInv, PTL DEF HostSpec
<1> QED BY <1>1, HostInitSupplies, HostStepSupplies, PTL DEF HostSpec, SuppliesSource, Plugin!Spec
================================================================================
