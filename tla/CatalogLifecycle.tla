--------------------------- MODULE CatalogLifecycle ---------------------------
(***************************************************************************)
(* CatalogLifecycle (src/lifecycle.ts) with the attempt it runs            *)
(* (SyncAttempt) and the writer it publishes through (CacheWriter): the    *)
(* stale-while-revalidate owner of the served catalog.  Its two timers, the*)
(* catalog reads of the adapter, settings commits, disposal, a process     *)
(* crash, a power loss and a wall clock that moves in both directions      *)
(* interleave with every await of a running attempt.                       *)
(*                                                                         *)
(* Attempt n is the n-th attempt ever started; it observes the sources at  *)
(* stamp[n] and would publish generation n.  Generation 0 is the catalog   *)
(* embedded in the bundle, observed at the epoch.                          *)
(***************************************************************************)
EXTENDS SyncAttempt, CacheWriter, Integers

CONSTANTS
    MaxAttempts,       \* bound: attempts started over the whole history
    MaxTime,           \* bound: the wall clock reads 0 .. MaxTime
    Configs,           \* the freshnessMs values the config may take on, 0 being a
                       \* config that resolveConfig refuses
    FutureTolerance    \* FUTURE_TIMESTAMP_TOLERANCE_MS of the cache reader

ASSUME BoundsAssumption ==
    /\ MaxAttempts \in Nat /\ Attempts = 1 .. MaxAttempts
    /\ MaxTime \in Nat /\ FutureTolerance \in Nat
    /\ Configs \subseteq Nat              \* the schema's interval(): min(1)

Time == 0 .. MaxTime
Epoch == 0
Unserviceable == 0
Serviceable == Configs \ {Unserviceable}

Generations == Attempts \cup {0}

Phases == {"unborn", "reconciling", "persisting", "settled", "dead"}

VARIABLES
    alive,         \* is a process with a constructed lifecycle running?
    clock,         \* deps.clock.now()
    config,        \* freshnessMs of deps.currentConfig(), or Unserviceable
    started,       \* this.started
    disposal,      \* this.disposePromise: "none", "waiting" or "done"
    awaited,       \* the attempt runDispose awaits, 0 if none
    immediate,     \* is the 0-delay refresh timer armed?
    periodic,      \* is the periodic timer armed?
    inFlight,      \* this.inFlight, 0 if undefined
    controller,    \* this.abort: whose controller it is, 0 if undefined
    born,          \* attempts started so far
    perform,       \* attempt -> where performAttempt stands
    base,          \* attempt -> the generation it reconciles against
    stamp,         \* attempt -> the instant it observed the sources
    snapshot,      \* this.snapshot
    stats,         \* this.stats
    lastAttempt    \* the tracker's last attempt fact (src/control-wiring.ts)

hostVars == <<alive, clock, config>>
timerVars == <<started, immediate, periodic>>
disposeVars == <<disposal, awaited>>
flightVars == <<inFlight, controller, born, perform, base, stamp>>
servedVars == <<snapshot, stats, lastAttempt>>
lifecycleVars == <<hostVars, timerVars, disposeVars, flightVars, servedVars>>
vars == <<aborted, syncVars, writerVars, lifecycleVars>>

Counters == {"attemptsStarted", "attemptsSucceeded", "attemptsFailed",
             "cacheWrites", "cacheWriteFailures", "swaps"}

\* stats with the counters in C one higher.
Counted(C) == [c \in Counters |-> IF c \in C THEN stats[c] + 1 ELSE stats[c]]

Embedded == [gen |-> 0, refreshedAt |-> Epoch, origin |-> "embedded"]

Disposed == disposal # "none"

\* isFresh: a negative elapsed time counts as fresh.
Fresh == clock - snapshot.refreshedAt < config

\* isFreshNow: an unserviceable config is never fresh.
FreshNow == config # Unserviceable /\ Fresh

Active(n) == perform[n] \in {"reconciling", "persisting"}

LifecycleInit ==
    /\ SignalInit /\ SyncInit /\ WriterInit
    /\ alive = FALSE /\ clock \in Time /\ config \in Serviceable
    /\ started = FALSE /\ immediate = FALSE /\ periodic = FALSE
    /\ disposal = "none" /\ awaited = 0
    /\ inFlight = 0 /\ controller = 0 /\ born = 0
    /\ perform = [n \in Attempts |-> "unborn"]
    /\ base = [n \in Attempts |-> 0]
    /\ stamp = [n \in Attempts |-> Epoch]
    /\ snapshot = Embedded
    /\ stats = [c \in Counters |-> 0]
    /\ lastAttempt = "none"

------------------------------------------------------------------------------
(* The process around the lifecycle.                                       *)

\* readCache accepts the file on disk: it exists, is whole, and its instants
\* are not further in the future than the tolerance.
Readable ==
    /\ disk.gen # 0
    /\ disk.data # "torn"
    /\ stamp[disk.gen] - clock <= FutureTolerance

\* What loadInitial may yield: the cache when it is readable, the embedded
\* catalog when it is missing or refused.
Loadable ==
    (IF Readable
     THEN {[gen |-> disk.gen, refreshedAt |-> stamp[disk.gen], origin |-> "cache"]}
     ELSE {})
    \cup (IF Readable /\ "refuse" \notin Faults THEN {} ELSE {Embedded})

\* A lifecycle is constructed with a validated config: in a new process, or in
\* the same one once the previous lifecycle's disposal has been awaited.
Boot ==
    /\ ~alive \/ disposal = "done"
    /\ alive' = TRUE
    /\ config' \in Serviceable
    /\ snapshot' \in Loadable
    /\ stats' = [c \in Counters |-> 0]
    /\ lastAttempt' = "none"
    /\ started' = FALSE /\ immediate' = FALSE /\ periodic' = FALSE
    /\ disposal' = "none" /\ awaited' = 0
    /\ inFlight' = 0 /\ controller' = 0
    /\ UNCHANGED <<aborted, syncVars, writerVars, clock, born, perform, base, stamp>>

\* Everything that runs in the process is gone; the disk is not.
ProcessDies ==
    /\ alive
    /\ alive' = FALSE
    /\ AttemptsDie
    /\ perform' = [n \in Attempts |-> IF Active(n) THEN "dead" ELSE perform[n]]
    /\ UNCHANGED <<clock, config, timerVars, disposeVars, servedVars,
                   inFlight, controller, born, base, stamp>>

Crash ==
    /\ "crash" \in Faults
    /\ ProcessDies
    /\ WritersDie(Attempts)
    /\ UNCHANGED <<aborted, landed, temp, disk, lingering>>

PowerFails == ProcessDies /\ PowerLoss

\* The wall clock moves, forward or backward.
ClockMoves ==
    /\ clock' \in Time \ {clock}
    /\ UNCHANGED <<aborted, syncVars, writerVars, alive, config, timerVars,
                   disposeVars, flightVars, servedVars>>

\* A settings commit replaces what currentConfig returns.
CommitConfig ==
    /\ alive
    /\ config' \in Configs \ {config}
    /\ UNCHANGED <<aborted, syncVars, writerVars, alive, clock, timerVars,
                   disposeVars, flightVars, servedVars>>

------------------------------------------------------------------------------
(* The methods.                                                            *)

\* kickRefresh: arm the 0-delay timer unless it is pending or we are disposed.
KickRefresh == immediate' = (immediate \/ ~Disposed)

ArmPeriodic == periodic' = IF Disposed \/ ~started' THEN periodic ELSE TRUE

\* catalog(): the adapter reads; a stale read schedules one refresh.
ReadCatalog ==
    /\ alive
    /\ ~Disposed /\ config # Unserviceable /\ ~Fresh
    /\ KickRefresh
    /\ UNCHANGED <<aborted, syncVars, writerVars, hostVars, started, periodic,
                   disposeVars, flightVars, servedVars>>

Start ==
    /\ alive
    /\ ~Disposed /\ ~started
    /\ started' = TRUE
    /\ IF FreshNow THEN UNCHANGED immediate ELSE KickRefresh
    /\ ArmPeriodic
    /\ UNCHANGED <<aborted, syncVars, writerVars, hostVars, disposeVars,
                   flightVars, servedVars>>

NotifyConfigChanged ==
    /\ alive
    /\ ~Disposed /\ started
    /\ IF FreshNow THEN UNCHANGED immediate ELSE KickRefresh
    /\ UNCHANGED started
    /\ ArmPeriodic
    /\ UNCHANGED <<aborted, syncVars, writerVars, hostVars, disposeVars,
                   flightVars, servedVars>>

\* Wrong variant: a call while an attempt runs does not join it.
MustAttemptUnjoined == ~Disposed /\ config # Unserviceable /\ ~Fresh

\* Wrong variant: no look at the freshness of the snapshot.
MustAttemptAnyway == ~Disposed /\ inFlight = 0 /\ config # Unserviceable

\* refresh() starts an attempt unless it answers "disposed", joins the one in
\* flight, fails on the config or finds the snapshot fresh.
MustAttempt == ~Disposed /\ inFlight = 0 /\ config # Unserviceable /\ ~Fresh

\* The synchronous part of refresh and performAttempt, up to the first await.
StartAttempt(n) ==
    /\ n \in Attempts               \* bound: MaxAttempts
    /\ born' = n
    /\ stats' = Counted({"attemptsStarted"})
    /\ controller' = n
    /\ inFlight' = n
    /\ perform' = [perform EXCEPT ![n] = "reconciling"]
    /\ base' = [base EXCEPT ![n] = snapshot.gen]
    /\ stamp' = [stamp EXCEPT ![n] = clock]
    /\ BeginAttempt(n)
    /\ UNCHANGED <<writerVars, snapshot, lastAttempt>>

Refresh ==
    IF MustAttempt THEN StartAttempt(born + 1)
    ELSE UNCHANGED <<aborted, syncVars, writerVars, flightVars, servedVars>>

ImmediateFires ==
    /\ alive
    /\ immediate
    /\ immediate' = FALSE
    /\ Refresh
    /\ UNCHANGED <<hostVars, started, periodic, disposeVars>>

\* Wrong variant: the callback does not arm the next period.
PeriodicFiresOnce ==
    /\ alive
    /\ periodic
    /\ Refresh
    /\ periodic' = FALSE
    /\ UNCHANGED <<started, hostVars, immediate, disposeVars>>

\* The periodic callback: refresh, then re-arm.
PeriodicFires ==
    /\ alive
    /\ periodic
    /\ Refresh
    /\ UNCHANGED started
    /\ periodic' = (started /\ ~Disposed)
    /\ UNCHANGED <<hostVars, immediate, disposeVars>>

\* dispose(): every call shares one promise, so only the first one acts.
Dispose ==
    /\ alive
    /\ ~Disposed
    /\ disposal' = "waiting"
    /\ immediate' = FALSE /\ periodic' = FALSE
    /\ awaited' = inFlight
    /\ IF controller = 0 THEN UNCHANGED <<aborted, syncVars>> ELSE OwnerAborts(controller)
    /\ UNCHANGED <<writerVars, hostVars, started, flightVars, servedVars>>

\* Wrong variant: runDispose does not await the attempt.
DisposeReturnsEarly ==
    /\ alive
    /\ disposal = "waiting"
    /\ disposal' = "done"
    /\ UNCHANGED <<aborted, syncVars, writerVars, hostVars, timerVars, awaited,
                   flightVars, servedVars>>

\* runDispose resumes once the attempt it captured has settled.
DisposeReturns ==
    /\ alive
    /\ disposal = "waiting"
    /\ awaited # 0 => perform[awaited] = "settled"
    /\ disposal' = "done"
    /\ UNCHANGED <<aborted, syncVars, writerVars, hostVars, timerVars, awaited,
                   flightVars, servedVars>>

------------------------------------------------------------------------------
(* The rest of performAttempt, after each of its two awaits.               *)

Settle(n, counters, fact) ==
    /\ perform' = [perform EXCEPT ![n] = "settled"]
    /\ stats' = Counted(counters)
    /\ lastAttempt' = fact
    /\ UNCHANGED <<inFlight, controller, born, base, stamp>>

\* attemptReconcile failed, or performAttempt threw between its result and the write
\* (INTERNAL).
AttemptFails(n) ==
    /\ perform[n] = "reconciling"
    /\ outcome[n] # "none"
    /\ Settle(n, {"attemptsFailed"}, "failed")
    /\ UNCHANGED <<snapshot, aborted, writerVars>>

\* It succeeded: the new snapshot goes to the writer with the owner's signal.
PersistBegins(n) ==
    /\ perform[n] = "reconciling"
    /\ outcome[n] = "ok"
    /\ perform' = [perform EXCEPT ![n] = "persisting"]
    /\ BeginWrite(n)
    /\ UNCHANGED <<aborted, inFlight, controller, born, base, stamp, servedVars>>

\* Wrong variant: a commit that disposal overtook is not adopted.
AdoptUnlessDisposed(n) ==
    /\ perform[n] = "persisting"
    /\ write[n] = "committed"
    /\ IF Disposed
       THEN UNCHANGED snapshot /\ Settle(n, {"attemptsFailed"}, "failed")
       ELSE /\ snapshot' = [gen |-> n, refreshedAt |-> stamp[n], origin |-> "refreshed"]
            /\ Settle(n, {"cacheWrites", "swaps", "attemptsSucceeded"}, "ok")
    /\ UNCHANGED <<aborted, writerVars>>

\* The writer committed: adopt the generation, even when disposed meanwhile.
Adopt(n) ==
    /\ perform[n] = "persisting"
    /\ write[n] = "committed"
    /\ snapshot' = [gen |-> n, refreshedAt |-> stamp[n], origin |-> "refreshed"]
    /\ Settle(n, {"cacheWrites", "swaps", "attemptsSucceeded"}, "ok")
    /\ UNCHANGED <<aborted, writerVars>>

\* Wrong variant: an aborted write is no failure.
PersistFailsUncounted(n) ==
    /\ perform[n] = "persisting"
    /\ write[n] = "notCommitted"
    /\ Settle(n, IF Disposed \/ controller \in aborted THEN {}
                 ELSE {"cacheWriteFailures", "attemptsFailed"}, "failed")
    /\ UNCHANGED <<snapshot, aborted, writerVars>>

\* The writer did not commit: an abort, or a genuine write failure.
PersistFails(n) ==
    /\ perform[n] = "persisting"
    /\ write[n] = "notCommitted"
    /\ Settle(n, IF Disposed \/ controller \in aborted THEN {"attemptsFailed"}
                 ELSE {"cacheWriteFailures", "attemptsFailed"}, "failed")
    /\ UNCHANGED <<snapshot, aborted, writerVars>>

\* Wrong variant: a then callback, run for a success only.
ClearInFlightOnSuccess(n) ==
    /\ perform[n] = "settled"
    /\ inFlight = n /\ lastAttempt = "ok"
    /\ inFlight' = 0 /\ controller' = 0
    /\ UNCHANGED <<aborted, writerVars, born, perform, base, stamp, servedVars>>

\* The finally callback of the settled attempt, if it is still the current one.
ClearInFlight(n) ==
    /\ perform[n] = "settled"
    /\ inFlight = n
    /\ inFlight' = 0 /\ controller' = 0
    /\ UNCHANGED <<aborted, writerVars, born, perform, base, stamp, servedVars>>

PerformContinues(n) ==
    /\ alive
    /\ \/ AttemptFails(n)
       \/ PersistBegins(n)
       \/ Adopt(n)
       \/ PersistFails(n)
       \/ ClearInFlight(n)
    /\ UNCHANGED <<syncVars, hostVars, timerVars, disposeVars>>

\* A seam of an attempt settles.
SeamStep(n) ==
    /\ alive
    /\ \E s \in Seams, answer \in Answers : SeamSettles(n, s, answer)
    /\ UNCHANGED <<writerVars, lifecycleVars>>

\* A step of an attempt's network half; disposal alone aborts its owner.
NetworkStep(n) ==
    /\ alive
    /\ DeadlineFires(n) \/ AttemptContinues(n)
    /\ UNCHANGED <<writerVars, lifecycleVars>>

\* A step of an attempt's disk half.
DiskStep(n) ==
    /\ alive
    /\ \/ FsOpLands(n)
       \/ FsOpFails(n)
       \/ WriterContinues(n)
       \/ CleanUp(n)
    /\ UNCHANGED <<syncVars, lifecycleVars>>

DirectoryStep == DirectoryFlushed /\ UNCHANGED <<syncVars, lifecycleVars>>

Next ==
    \/ Boot \/ Crash \/ PowerFails \/ ClockMoves \/ CommitConfig
    \/ ReadCatalog \/ Start \/ NotifyConfigChanged
    \/ ImmediateFires \/ PeriodicFires
    \/ Dispose \/ DisposeReturns
    \/ \E n \in Attempts :
        PerformContinues(n) \/ SeamStep(n) \/ NetworkStep(n) \/ DiskStep(n)
    \/ DirectoryStep

\* The event loop runs its microtasks, armed timers fire, file operations end.
\* Nothing is assumed of the network, of settings, of disposal, of the process.
Fairness ==
    /\ WF_vars(ImmediateFires) /\ WF_vars(PeriodicFires) /\ WF_vars(DisposeReturns)
    /\ \A n \in Attempts :
        /\ WF_vars(PerformContinues(n))
        /\ WF_vars(NetworkStep(n))
        /\ WF_vars(DiskStep(n))

Spec == LifecycleInit /\ [][Next]_vars /\ Fairness

------------------------------------------------------------------------------
(* Properties.                                                             *)

\* The type of the composed state.
TypeOK ==
    /\ SyncTypeOK /\ WriterTypeOK
    /\ alive \in BOOLEAN /\ clock \in Time /\ config \in Configs
    /\ started \in BOOLEAN /\ immediate \in BOOLEAN /\ periodic \in BOOLEAN
    /\ disposal \in {"none", "waiting", "done"} /\ awaited \in Generations
    /\ inFlight \in Generations /\ controller \in Generations /\ born \in Generations
    /\ perform \in [Attempts -> Phases]
    /\ base \in [Attempts -> Generations]
    /\ stamp \in [Attempts -> Time]
    /\ snapshot \in [gen : Generations, refreshedAt : Time,
                     origin : {"embedded", "cache", "refreshed"}]
    /\ stats \in [Counters -> Nat]
    /\ lastAttempt \in {"none", "ok", "failed"}

\* At most one attempt runs, it is the one refresh() would join, and this.abort
\* is its controller, so that disposal aborts the attempt that is running
\* (refresh reads inFlight and sets abort before performAttempt's awaits).
SingleFlight ==
    alive => \A n \in Attempts : Active(n) => inFlight = n /\ controller = n

\* "Accounting after settlement: started = succeeded + failed (+ 0 active)";
\* while one runs the difference is that attempt, a success is exactly one
\* cache write and one swap, and a write failure is one of the failures.
Accounting ==
    alive =>
        /\ stats["attemptsStarted"] = stats["attemptsSucceeded"] + stats["attemptsFailed"]
               + (IF \E n \in Attempts : Active(n) THEN 1 ELSE 0)
        /\ stats["cacheWrites"] = stats["attemptsSucceeded"]
        /\ stats["swaps"] = stats["attemptsSucceeded"]
        /\ stats["cacheWriteFailures"] <= stats["attemptsFailed"]

\* An attempt reconciles against the generation it will replace: nothing is
\* swapped in under a running attempt, so no refresh loses another one's grace
\* clocks and tombstones (previousState is read before the awaits).
ReconciledAgainstCurrent ==
    alive => \A n \in Attempts : Active(n) => base[n] = snapshot.gen

\* "disk and memory must stay on the same generation": the running process
\* serves the cache file's generation, except the embedded bootstrap, and except
\* between a rename and the swap that must follow it.
DiskAndMemoryAgree ==
    alive =>
        \/ snapshot.gen \in {0, disk.gen}
        \/ /\ Active(disk.gen) /\ base[disk.gen] = snapshot.gen
           /\ write[disk.gen] \in {"rename", "committed"}

\* The periodic loop never dies: until disposal a started lifecycle has its
\* periodic timer armed, whatever its attempts and config commits did.
PeriodicLoopAlive == alive /\ started /\ ~Disposed => periodic

\* refreshedAt only grows while a process runs, although the wall clock may step
\* backward between, and during, attempts: only a snapshot older than freshnessMs
\* is refreshed, and nothing else is swapped in while the attempt runs.
ObservationsMoveForward ==
    [][alive /\ alive' /\ ~(disposal = "done" /\ disposal' = "none")
            /\ snapshot' # snapshot
        => snapshot'.refreshedAt > snapshot.refreshedAt]_vars

\* Disposal stops publication: once dispose() was called, no rename is issued any
\* more, in whatever phase the running attempt was caught.
NoRenameAfterDispose ==
    [][Disposed => \A n \in Attempts : write'[n] = "rename" => write[n] = "rename"]_vars

\* When dispose() has resolved everything is over: until a new lifecycle is
\* constructed no timer is armed, no counter moves, nothing is swapped and no file
\* operation touches the cache or a temp file.
QuiescentAfterDispose ==
    [][disposal = "done" /\ alive /\ alive' /\ disposal' = "done" =>
        UNCHANGED <<snapshot, stats, lastAttempt, timerVars, disk, temp, born>>]_vars

\* Attempt n has renamed its envelope into place and not swapped it in yet.
Ahead(n) ==
    /\ perform[n] = "persisting"
    /\ write[n] = "committed" \/ (write[n] = "rename" /\ landed[n])

Contract == INSTANCE CommitThenServe WITH
    running <- alive,
    published <- disk.gen,
    fallbacks <- {v.gen : v \in lingering},
    served <- snapshot.gen,
    unserved <- \E n \in Attempts : Ahead(n)

\* The lifecycle, its attempts and its writer keep the contract: whatever fails or
\* dies, a generation is published before it is served, its swap follows before
\* anything else is published or the lifecycle is rebuilt, and no older generation
\* replaces a newer one (performAttempt: persist, then the swap).
CommitsThenServes == Contract!Spec

\* dispose() resolves, whatever the seams, the deadline and the disk do.
DisposeResolves == disposal = "waiting" ~> disposal = "done" \/ ~alive

\* Every attempt settles, so that single flight never blocks refreshes for good.
AttemptSettles ==
    \A n \in Attempts :
        Active(n) ~> (perform[n] = "settled" /\ inFlight # n) \/ ~alive

\* Once started, a stale catalog does not stay stale unnoticed: an attempt starts
\* (or the catalog becomes fresh, the config unserviceable, the lifecycle disposed,
\* or the bound on attempts is reached).
Stale == alive /\ started /\ ~Disposed /\ config # Unserviceable /\ ~Fresh
StaleIsRefreshed == Stale ~> inFlight # 0 \/ ~Stale \/ born = MaxAttempts
===============================================================================
