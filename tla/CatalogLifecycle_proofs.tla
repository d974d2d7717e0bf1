------------------------ MODULE CatalogLifecycle_proofs ------------------------
(***************************************************************************)
(* For every bound, set of configs, set of answers and set of faults: the  *)
(* types of CatalogLifecycle, single flight, the accounting of attempts,   *)
(* the life of the periodic loop, and that no generation is swapped in     *)
(* under a running attempt.  The halves of an attempt keep the invariants  *)
(* they have on their own, which CatalogHalves_proofs provides; what is new*)
(* is the lifecycle's part, and, from it, that the lifecycle implements    *)
(* CommitThenServe.                                                        *)
(***************************************************************************)
EXTENDS CatalogLifecycle, CatalogHalves_proofs

USE DEF Phases

LifecycleTypeOK ==
    /\ alive \in BOOLEAN /\ clock \in Time /\ config \in Configs
    /\ started \in BOOLEAN /\ immediate \in BOOLEAN /\ periodic \in BOOLEAN
    /\ disposal \in {"none", "waiting", "done"} /\ awaited \in Generations
    /\ inFlight \in Generations /\ controller \in Generations /\ born \in Generations
    /\ perform \in [Attempts -> Phases]
    /\ base \in [Attempts -> Generations]
    /\ stamp \in [Attempts -> Time]
    /\ snapshot \in [gen : Generations, refreshedAt : Time,
                     origin : {"embedded", "cache", "refreshed"}]
    /\ stats \in [Counters -> Nat]
    /\ lastAttempt \in {"none", "ok", "failed"}

\* Who may be running: in a live process the attempt in flight; once disposal is
\* under way the one it awaits, its owner aborted; nobody when it has resolved.
\* It was started by a snapshot old enough to be stale, which is still served.
Flight ==
    \A n \in Attempts : Active(n) =>
        /\ alive /\ inFlight = n /\ controller = n
        /\ base[n] = snapshot.gen /\ stamp[n] > snapshot.refreshedAt
        /\ disposal # "done"
        /\ disposal = "waiting" => awaited = n /\ n \in aborted

\* The timers of a started lifecycle, and of a disposed one.
Timers == PeriodicLoopAlive /\ (Disposed => ~immediate /\ ~periodic)

\* Only a persisting attempt writes, and the disk is at most that one ahead.
Publishing ==
    /\ \A n \in Attempts : Writing(n) => perform[n] = "persisting"
    /\ \A n \in Attempts : Ahead(n) => disk.gen = n
    /\ alive /\ snapshot.gen \notin {0, disk.gen} =>
           disk.gen \in Attempts /\ Ahead(disk.gen)

\* The invariant of the two halves, and the one of the whole.
HalvesInv == SyncInv /\ WriterInv

LifecycleInv ==
    /\ HalvesInv
    /\ LifecycleTypeOK
    /\ Flight
    /\ Timers
    /\ Publishing
    /\ Accounting

------------------------------------------------------------------------------
(* The two halves.                                                         *)

LEMMA AttemptsDieKeeps ==
  ASSUME SyncInv, AttemptsDie, UNCHANGED aborted
  PROVE  SyncInv'
  <1>1. SyncTypeOK'
    BY DEF SyncInv, SyncTypeOK, AttemptsDie, RaceStates, Causes,
        Outcomes
  <1>2. ASSUME NEW a \in Attempts
        PROVE  Awaiting(a)' /\ Honest(a)'
    BY <1>2 DEF SyncInv, SyncTypeOK, AttemptsDie, Awaiting, Honest, Running, Seams
  <1> QED BY <1>1, <1>2 DEF SyncInv

LEMMA SyncIdle ==
  ASSUME SyncInv, UNCHANGED <<aborted, syncVars>>
  PROVE  SyncInv'
  BY SyncStutterKeeps DEF syncAll

LEMMA WriterIdle ==
  ASSUME WriterInv, UNCHANGED <<aborted, writerVars>>
  PROVE  WriterInv'
  <1>1. aborted \subseteq Attempts
    BY DEF WriterInv, WriterTypeOK
  <1> QED BY <1>1, OthersKeep

LEMMA RefreshHalves ==
  ASSUME HalvesInv, LifecycleTypeOK, Refresh
  PROVE  HalvesInv'
  <1>1. CASE MustAttempt
    <2>1. born + 1 \in Attempts /\ BeginAttempt(born + 1) /\ UNCHANGED writerVars
      BY <1>1 DEF Refresh, StartAttempt
    <2>2. UNCHANGED aborted
      BY <2>1 DEF BeginAttempt
    <2> QED BY <2>1, <2>2, BeginKeeps, WriterIdle DEF HalvesInv
  <1>2. CASE ~MustAttempt
    BY <1>2, SyncIdle, WriterIdle DEF Refresh, HalvesInv
  <1> QED BY <1>1, <1>2

LEMMA DisposeHalves ==
  ASSUME HalvesInv, LifecycleTypeOK, Dispose
  PROVE  HalvesInv'
  <1>1. UNCHANGED writerVars
    BY DEF Dispose
  <1>2. CASE controller = 0
    BY <1>1, <1>2, SyncIdle, WriterIdle DEF Dispose, HalvesInv
  <1>3. CASE controller # 0
    <2>1. controller \in Attempts /\ OwnerAborts(controller)
      BY <1>3 DEF Dispose, LifecycleTypeOK, Generations
    <2>2. aborted' \subseteq Attempts
      BY <2>1 DEF OwnerAborts, AbortSignal, HalvesInv, WriterInv, WriterTypeOK
    <2> QED BY <1>1, <2>1, <2>2, OwnerKeeps, OthersKeep DEF HalvesInv
  <1> QED BY <1>2, <1>3

LEMMA PerformHalves ==
  ASSUME HalvesInv, NEW n \in Attempts, PerformContinues(n)
  PROVE  HalvesInv'
  <1>1. UNCHANGED <<aborted, syncVars>>
    BY DEF PerformContinues, AttemptFails, PersistBegins, Adopt, PersistFails,
           ClearInFlight
  <1>2. CASE PersistBegins(n)
    BY <1>1, <1>2, BeginWriteKeeps, SyncIdle DEF PersistBegins, HalvesInv
  <1>3. CASE ~PersistBegins(n)
    <2>1. UNCHANGED writerVars
      BY <1>3 DEF PerformContinues, AttemptFails, Adopt, PersistFails, ClearInFlight
    <2> QED BY <1>1, <2>1, SyncIdle, WriterIdle DEF HalvesInv
  <1> QED BY <1>2, <1>3

LEMMA DeathHalves ==
  ASSUME HalvesInv, Crash \/ PowerFails
  PROVE  HalvesInv'
  <1>1. AttemptsDie /\ UNCHANGED aborted
    BY DEF Crash, PowerFails, ProcessDies, PowerLoss
  <1>2. WriterInv'
    BY KillKeeps, PowerLossKeeps DEF HalvesInv, Crash, PowerFails
  <1> QED BY <1>1, <1>2, AttemptsDieKeeps DEF HalvesInv

LEMMA SeamHalves ==
  ASSUME HalvesInv, NEW n \in Attempts, SeamStep(n) \/ NetworkStep(n)
  PROVE  HalvesInv'
  <1>1. UNCHANGED <<aborted, writerVars>>
    BY DEF SeamStep, SeamSettles, NetworkStep, DeadlineFires, AttemptContinues
  <1>2. SyncInv'
    BY SettleKeeps, DeadlineKeeps, AttemptContinuesKeeps DEF HalvesInv, SeamStep,
                                                             NetworkStep
  <1> QED BY <1>1, <1>2, WriterIdle DEF HalvesInv

LEMMA DiskHalves ==
  ASSUME HalvesInv, (\E n \in Attempts : DiskStep(n)) \/ DirectoryStep
  PROVE  HalvesInv'
  <1>1. UNCHANGED <<aborted, syncVars>>
    BY DEF DiskStep, DirectoryStep, FsOpLands, FsOpFails, WriterContinues, CleanUp,
           DirectoryFlushed
  <1>2. WriterInv'
    BY LandKeeps, FailKeeps, WriterContinuesKeeps, CleanUpKeeps, FlushKeeps
       DEF HalvesInv, DiskStep, DirectoryStep
  <1> QED BY <1>1, <1>2, SyncIdle DEF HalvesInv

------------------------------------------------------------------------------
(* The lifecycle's own part.  First what a step leaves alone.              *)

\* All of the invariant but the halves.
LifecycleRest == LifecycleTypeOK /\ Flight /\ Timers /\ Publishing /\ Accounting

LEMMA FlightFrame ==
  ASSUME Flight, aborted \subseteq aborted',
         UNCHANGED <<alive, disposeVars, flightVars, snapshot>>
  PROVE  Flight'
  BY DEF Flight, Active, disposeVars, flightVars

LEMMA AccountingFrame ==
  ASSUME Accounting, UNCHANGED <<alive, perform, stats>>
  PROVE  Accounting'
  BY DEF Accounting, Active

LEMMA PublishingFrame ==
  ASSUME Publishing, UNCHANGED <<alive, perform, snapshot, write, landed, disk>>
  PROVE  Publishing'
  BY DEF Publishing, Ahead, Writing

\* A step of the clock, the config or the two timers only.
LEMMA TimerStep ==
  ASSUME LifecycleInv, LifecycleTypeOK', Timers',
         UNCHANGED <<aborted, writerVars, alive, disposeVars, flightVars, servedVars>>
  PROVE  LifecycleRest'
  <1>1. Flight'
    BY FlightFrame DEF LifecycleInv, servedVars
  <1>2. Accounting'
    BY AccountingFrame DEF LifecycleInv, flightVars, servedVars
  <1>3. Publishing'
    BY PublishingFrame DEF LifecycleInv, flightVars, servedVars, writerVars
  <1> QED BY <1>1, <1>2, <1>3 DEF LifecycleRest

LEMMA QuietKeeps ==
  ASSUME LifecycleInv,
         ClockMoves \/ CommitConfig \/ ReadCatalog \/ Start \/ NotifyConfigChanged
  PROVE  LifecycleRest'
  <1> USE DEF LifecycleInv, LifecycleTypeOK, disposeVars, flightVars, servedVars
  <1>1. CASE ClockMoves
    <2>1. LifecycleTypeOK' /\ Timers'
      BY <1>1 DEF ClockMoves, timerVars, Timers, PeriodicLoopAlive, Disposed
    <2> QED BY <1>1, <2>1, TimerStep DEF ClockMoves
  <1>2. CASE CommitConfig
    <2>1. LifecycleTypeOK' /\ Timers'
      BY <1>2 DEF CommitConfig, timerVars, Timers, PeriodicLoopAlive, Disposed
    <2> QED BY <1>2, <2>1, TimerStep DEF CommitConfig
  <1>3. CASE ReadCatalog
    <2>1. LifecycleTypeOK' /\ Timers'
      BY <1>3 DEF ReadCatalog, KickRefresh, hostVars, Timers, PeriodicLoopAlive, Disposed
    <2> QED BY <1>3, <2>1, TimerStep DEF ReadCatalog, hostVars
  <1>4. CASE Start
    <2>1. LifecycleTypeOK' /\ Timers'
      BY <1>4 DEF Start, KickRefresh, ArmPeriodic, hostVars, Timers, PeriodicLoopAlive,
                  Disposed
    <2> QED BY <1>4, <2>1, TimerStep DEF Start, hostVars
  <1>5. CASE NotifyConfigChanged
    <2>1. LifecycleTypeOK' /\ Timers'
      BY <1>5 DEF NotifyConfigChanged, KickRefresh, ArmPeriodic, hostVars, Timers,
                  PeriodicLoopAlive, Disposed
    <2> QED BY <1>5, <2>1, TimerStep DEF NotifyConfigChanged, hostVars
  <1> QED BY <1>1, <1>2, <1>3, <1>4, <1>5

\* A lifecycle is constructed while no attempt runs and nothing is written.
LEMMA BootKeeps ==
  ASSUME LifecycleInv, Boot
  PROVE  LifecycleRest'
  <1>1. \A n \in Attempts : ~Active(n) /\ ~Writing(n)
    BY DEF LifecycleInv, Flight, Publishing, Boot, Active
  <1>2. UNCHANGED <<aborted, writerVars, perform, base, stamp, born, clock>>
    BY DEF Boot
  <1>3. \A n \in Attempts : ~Active(n)' /\ ~Writing(n)'
    BY <1>1, <1>2 DEF Active, Writing, writerVars
  <1>4. snapshot' \in [gen : {0, disk.gen}, refreshedAt : Time,
                       origin : {"embedded", "cache", "refreshed"}]
    <2>1. Embedded \in [gen : {0}, refreshedAt : Time, origin : {"embedded"}]
      BY BoundsAssumption DEF Embedded, Epoch, Time
    <2>2. Readable => disk.gen \in Attempts /\ stamp[disk.gen] \in Time
      BY DEF Readable, LifecycleInv, LifecycleTypeOK, HalvesInv, WriterInv, WriterTypeOK,
             Versions
    <2>3. snapshot' \in Loadable
      BY DEF Boot
    <2> QED BY <2>1, <2>2, <2>3 DEF Loadable
  <1>5. LifecycleTypeOK'
    <2>1. disk.gen \in Generations /\ 0 \in Generations
      BY DEF LifecycleInv, HalvesInv, WriterInv, WriterTypeOK, Versions, Generations
    <2>2. stats' \in [Counters -> Nat]
      BY DEF Boot
    <2> QED BY <1>2, <1>4, <2>1, <2>2 DEF LifecycleInv, LifecycleTypeOK, Boot, Serviceable
  <1>6. Flight'
    BY <1>3 DEF Flight
  <1>7. Timers'
    BY DEF Boot, Timers, PeriodicLoopAlive, Disposed
  <1>8. Publishing'
    <2>1. snapshot'.gen \in {0, disk'.gen}
      BY <1>2, <1>4 DEF writerVars
    <2>2. \A n \in Attempts : ~Ahead(n)'
      BY <1>3 DEF Ahead, Active
    <2> QED BY <1>3, <2>1, <2>2 DEF Publishing
  <1>9. Accounting'
    BY <1>3 DEF Accounting, Boot, Counters
  <1> QED BY <1>5, <1>6, <1>7, <1>8, <1>9 DEF LifecycleRest

\* With the process every attempt and every write is gone.
LEMMA ProcessDeathKeeps ==
  ASSUME LifecycleInv, Crash \/ PowerFails
  PROVE  LifecycleRest'
  <1>1. ProcessDies /\ WritersDie(Attempts) /\ alive' = FALSE
    BY DEF Crash, PowerFails, PowerLoss, ProcessDies
  <1>2. LifecycleTypeOK'
    BY <1>1 DEF LifecycleInv, LifecycleTypeOK, ProcessDies, timerVars, disposeVars,
                servedVars
  <1>3. \A n \in Attempts : ~Active(n)' /\ ~Writing(n)'
    <2>1. \A n \in Attempts : ~Active(n)'
      BY <1>1 DEF ProcessDies, Active
    <2>2. \A n \in Attempts : ~Writing(n)'
      BY <1>1 DEF WritersDie, Writing, FsOps
    <2> QED BY <2>1, <2>2
  <1>4. Flight' /\ Publishing' /\ Accounting'
    BY <1>1, <1>3 DEF Flight, Publishing, Ahead, Accounting, Active
  <1>5. Timers'
    BY <1>1 DEF LifecycleInv, Timers, PeriodicLoopAlive, Disposed, ProcessDies, timerVars,
                disposeVars
  <1> QED BY <1>2, <1>4, <1>5 DEF LifecycleRest

LEMMA DisposeKeeps ==
  ASSUME LifecycleInv, Dispose
  PROVE  LifecycleRest'
  <1>1. UNCHANGED <<writerVars, hostVars, started, flightVars, servedVars>>
    BY DEF Dispose
  <1>2. LifecycleTypeOK' /\ Timers'
    BY <1>1 DEF LifecycleInv, LifecycleTypeOK, Timers, PeriodicLoopAlive, Disposed,
                Dispose,
                hostVars, flightVars, servedVars
  <1>3. Flight'
    <2>1. \A n \in Attempts : Active(n) => n \in aborted' /\ n # 0
      BY GenerationsAssumption DEF LifecycleInv, Flight, Dispose, OwnerAborts, AbortSignal
    <2> QED BY <1>1, <2>1 DEF LifecycleInv, Flight, Active, Dispose, hostVars, flightVars,
                              servedVars
  <1>4. Publishing' /\ Accounting'
    BY <1>1, PublishingFrame, AccountingFrame
       DEF LifecycleInv, hostVars, flightVars, servedVars, writerVars
  <1> QED BY <1>2, <1>3, <1>4 DEF LifecycleRest

\* Disposal resolves only when the attempt it awaited - the only one that may
\* have been running - has settled.
LEMMA DisposeReturnsKeeps ==
  ASSUME LifecycleInv, DisposeReturns
  PROVE  LifecycleRest'
  <1>1. UNCHANGED <<aborted, writerVars, hostVars, timerVars, flightVars, servedVars>>
    BY DEF DisposeReturns
  <1>2. LifecycleTypeOK' /\ Timers'
    BY <1>1 DEF LifecycleInv, LifecycleTypeOK, Timers, PeriodicLoopAlive, Disposed,
                DisposeReturns, hostVars, timerVars, flightVars, servedVars
  <1>3. \A n \in Attempts : ~Active(n)
    BY GenerationsAssumption DEF LifecycleInv, Flight, Active, DisposeReturns
  <1>4. Flight'
    BY <1>1, <1>3 DEF Flight, Active, flightVars
  <1>5. Publishing' /\ Accounting'
    BY <1>1, PublishingFrame, AccountingFrame
       DEF LifecycleInv, hostVars, flightVars, servedVars, writerVars
  <1> QED BY <1>2, <1>4, <1>5 DEF LifecycleRest

\* A new attempt: nobody else runs, and the snapshot it replaces is older.
LEMMA StartAttemptKeeps ==
  ASSUME LifecycleInv, alive, MustAttempt, StartAttempt(born + 1),
         UNCHANGED <<alive, disposeVars>>
  PROVE  /\ perform' \in [Attempts -> Phases]
         /\ base' \in [Attempts -> Generations] /\ stamp' \in [Attempts -> Time]
         /\ born' \in Generations /\ inFlight' \in Generations /\ controller' \in Generations
         /\ stats' \in [Counters -> Nat]
         /\ UNCHANGED <<snapshot, lastAttempt>>
         /\ Flight' /\ Publishing' /\ Accounting'
  <1> DEFINE n == born + 1
  <1>1. n \in Attempts /\ n # 0 /\ n \in Generations
    BY GenerationsAssumption DEF StartAttempt, Generations
  <1>2. \A m \in Attempts : ~Active(m) /\ ~Writing(m)
    BY GenerationsAssumption DEF LifecycleInv, Flight, Publishing, MustAttempt, Active
  <1>3. /\ born' = n /\ inFlight' = n /\ controller' = n
        /\ perform' = [perform EXCEPT ![n] = "reconciling"]
        /\ base' = [base EXCEPT ![n] = snapshot.gen]
        /\ stamp' = [stamp EXCEPT ![n] = clock]
        /\ stats' = Counted({"attemptsStarted"})
        /\ UNCHANGED <<aborted, writerVars, snapshot, lastAttempt>>
    BY DEF StartAttempt, BeginAttempt
  <1> HIDE DEF n
  <1>4. clock > snapshot.refreshedAt /\ snapshot.gen \in Generations
    <2>1. clock \in Int /\ snapshot.refreshedAt \in Int /\ snapshot.gen \in Generations
      BY BoundsAssumption DEF LifecycleInv, LifecycleTypeOK, Time
    <2>2. config \in Nat /\ config # 0
      BY BoundsAssumption DEF LifecycleInv, LifecycleTypeOK, MustAttempt, Unserviceable
    <2> QED BY <2>1, <2>2 DEF MustAttempt, Fresh
  <1>5. perform' \in [Attempts -> Phases]
    BY <1>3 DEF LifecycleInv, LifecycleTypeOK
  <1>6. base' \in [Attempts -> Generations] /\ stamp' \in [Attempts -> Time]
    BY <1>3, <1>4 DEF LifecycleInv, LifecycleTypeOK
  <1>7. stats' \in [Counters -> Nat]
    BY <1>3 DEF LifecycleInv, LifecycleTypeOK, Counted
  <1>8. /\ perform'[n] = "reconciling" /\ base'[n] = snapshot.gen /\ stamp'[n] = clock
        /\ \A m \in Attempts \ {n} : ~Active(m)'
    BY <1>1, <1>2, <1>3 DEF LifecycleInv, LifecycleTypeOK, Active
  <1>9. Flight'
    BY <1>1, <1>3, <1>4, <1>8 DEF Flight, MustAttempt, Disposed, disposeVars
  <1>10. Publishing'
    BY <1>1, <1>2, <1>3, <1>8 DEF LifecycleInv, Publishing, Ahead, Active, Writing,
                                  writerVars
  <1>11. Accounting'
    <2>1. /\ stats["attemptsStarted"] = stats["attemptsSucceeded"] + stats["attemptsFailed"]
          /\ \A c \in Counters : stats[c] \in Nat
      <3>1. \A c \in Counters : stats[c] \in Nat
        BY DEF LifecycleInv, LifecycleTypeOK
      <3>2. ~\E m \in Attempts : Active(m)
        BY <1>2
      <3>3. Accounting
        BY DEF LifecycleInv
      <3> QED BY <3>1, <3>2, <3>3 DEF Accounting, Counters
    <2>2. /\ stats'["attemptsStarted"] = stats["attemptsStarted"] + 1
          /\ \A c \in Counters \ {"attemptsStarted"} : stats'[c] = stats[c]
      BY <1>3, <2>1 DEF Counted, Counters
    <2>3. \E m \in Attempts : Active(m)'
      BY <1>1, <1>8 DEF Active
    <2> QED BY <2>1, <2>2, <2>3 DEF LifecycleInv, Accounting, Counters
  <1> QED BY <1>1, <1>3, <1>5, <1>6, <1>7, <1>9, <1>10, <1>11

LEMMA RefreshKeeps ==
  ASSUME LifecycleInv, alive, Refresh, UNCHANGED <<hostVars, started, disposeVars>>,
         immediate' \in BOOLEAN, periodic' \in BOOLEAN, Timers'
  PROVE  LifecycleRest'
  <1>1. CASE MustAttempt
    <2>1. StartAttempt(born + 1)
      BY <1>1 DEF Refresh
    <2> QED BY <1>1, <2>1, StartAttemptKeeps
            DEF LifecycleInv, LifecycleTypeOK, LifecycleRest, hostVars, disposeVars
  <1>2. CASE ~MustAttempt
    <2>1. UNCHANGED <<aborted, writerVars, flightVars, servedVars>>
      BY <1>2 DEF Refresh
    <2>2. LifecycleTypeOK'
      BY <2>1 DEF LifecycleInv, LifecycleTypeOK, hostVars, disposeVars, flightVars,
                  servedVars
    <2> QED BY <2>1, <2>2, TimerStep DEF hostVars
  <1> QED BY <1>1, <1>2

LEMMA FiresKeeps ==
  ASSUME LifecycleInv, ImmediateFires \/ PeriodicFires
  PROVE  LifecycleRest'
  <1>1. alive /\ Refresh /\ UNCHANGED <<hostVars, started, disposeVars>>
    BY DEF ImmediateFires, PeriodicFires
  <1>2. immediate' \in BOOLEAN /\ periodic' \in BOOLEAN
    BY DEF LifecycleInv, LifecycleTypeOK, ImmediateFires, PeriodicFires, Disposed
  <1>3. Timers'
    BY DEF LifecycleInv, LifecycleTypeOK, Timers, PeriodicLoopAlive, Disposed,
           ImmediateFires,
           PeriodicFires, hostVars, disposeVars
  <1> QED BY <1>1, <1>2, <1>3, RefreshKeeps

\* The counters an ending may raise: either a success with its write and its swap,
\* or a failure, a write failure being one.
Balanced(C) ==
    /\ "attemptsStarted" \notin C
    /\ "attemptsSucceeded" \in C <=> "attemptsFailed" \notin C
    /\ "cacheWrites" \in C <=> "attemptsSucceeded" \in C
    /\ "swaps" \in C <=> "attemptsSucceeded" \in C
    /\ "cacheWriteFailures" \in C => "attemptsFailed" \in C

\* The one attempt that runs settles: its outcome is counted once.
LEMMA SettlingEnds ==
  ASSUME LifecycleInv, NEW n \in Attempts, Active(n), NEW C \in SUBSET Counters,
         NEW fact \in {"ok", "failed"}, Settle(n, C, fact), UNCHANGED alive
  PROVE  /\ perform' \in [Attempts -> Phases]
         /\ stats' \in [Counters -> Nat]
         /\ lastAttempt' \in {"none", "ok", "failed"}
         /\ \A m \in Attempts : ~Active(m)'
         /\ Balanced(C) => Accounting'
  <1>1. /\ perform' = [perform EXCEPT ![n] = "settled"]
        /\ stats' = Counted(C) /\ lastAttempt' = fact
    BY DEF Settle
  <1>2. perform' \in [Attempts -> Phases]
    BY <1>1 DEF LifecycleInv, LifecycleTypeOK
  <1>3. stats \in [Counters -> Nat] /\ stats' \in [Counters -> Nat]
    BY <1>1 DEF LifecycleInv, LifecycleTypeOK, Counted
  <1>4. \A m \in Attempts : ~Active(m)'
    <2>1. \A m \in Attempts \ {n} : ~Active(m)
      BY DEF LifecycleInv, Flight
    <2> QED BY <1>1, <2>1 DEF LifecycleInv, LifecycleTypeOK, Active
  <1>5. ASSUME Balanced(C)
        PROVE  Accounting'
    <2>1. /\ stats["attemptsStarted"]
               = stats["attemptsSucceeded"] + stats["attemptsFailed"] + 1
          /\ stats["cacheWrites"] = stats["attemptsSucceeded"]
          /\ stats["swaps"] = stats["attemptsSucceeded"]
          /\ stats["cacheWriteFailures"] <= stats["attemptsFailed"]
      <3>1. alive /\ Accounting /\ \E m \in Attempts : Active(m)
        BY DEF LifecycleInv, Flight
      <3> QED BY <3>1 DEF Accounting
    <2>2. ~\E m \in Attempts : Active(m)'
      BY <1>4
    <2>3. \A c \in Counters : stats'[c] = IF c \in C THEN stats[c] + 1 ELSE stats[c]
      BY <1>1 DEF Counted
    <2>4. \A c \in Counters : stats[c] \in Nat /\ stats'[c] \in Nat
      BY <1>3
    <2>5. /\ stats'["attemptsStarted"] = stats'["attemptsSucceeded"] + stats'["attemptsFailed"]
          /\ stats'["cacheWrites"] = stats'["attemptsSucceeded"]
          /\ stats'["swaps"] = stats'["attemptsSucceeded"]
          /\ stats'["cacheWriteFailures"] <= stats'["attemptsFailed"]
      BY <1>5, <2>1, <2>3, <2>4 DEF Counters, Balanced
    <2> QED BY <2>2, <2>4, <2>5 DEF Accounting, Counters
  <1> QED BY <1>1, <1>2, <1>3, <1>4, <1>5

LEMMA AttemptFailsKeeps ==
  ASSUME LifecycleInv, NEW n \in Attempts, AttemptFails(n),
         UNCHANGED <<hostVars, timerVars, disposeVars>>
  PROVE  LifecycleRest'
  <1>1. /\ Active(n) /\ perform[n] = "reconciling" /\ Settle(n, {"attemptsFailed"}, "failed")
        /\ UNCHANGED <<snapshot, aborted, writerVars, inFlight, controller, born, base, stamp>>
    BY DEF AttemptFails, Active, Settle
  <1>2. {"attemptsFailed"} \in SUBSET Counters /\ Balanced({"attemptsFailed"})
    BY DEF Counters, Balanced
  <1>3. /\ perform' \in [Attempts -> Phases]
        /\ stats' \in [Counters -> Nat] /\ lastAttempt' \in {"none", "ok", "failed"}
        /\ \A m \in Attempts : ~Active(m)'
        /\ Accounting'
    BY <1>1, <1>2, SettlingEnds DEF hostVars
  <1>4. LifecycleTypeOK' /\ Timers' /\ Flight'
    BY <1>1, <1>3 DEF LifecycleInv, LifecycleTypeOK, Timers, PeriodicLoopAlive,
                      Disposed, Flight,
                      hostVars, timerVars, disposeVars
  <1>5. Publishing'
    <2>1. \A m \in Attempts : ~Ahead(m) /\ ~Writing(m)
      BY <1>1 DEF LifecycleInv, Flight, Publishing, Ahead, Active
    <2> QED BY <1>1, <1>3, <2>1 DEF LifecycleInv, Publishing, Ahead, Active, Writing,
                                    hostVars,
                                    writerVars
  <1> QED BY <1>3, <1>4, <1>5 DEF LifecycleRest

LEMMA PersistFailsKeeps ==
  ASSUME LifecycleInv, NEW n \in Attempts, PersistFails(n),
         UNCHANGED <<hostVars, timerVars, disposeVars>>
  PROVE  LifecycleRest'
  <1>1. PICK C \in {{"attemptsFailed"}, {"cacheWriteFailures", "attemptsFailed"}} :
            Settle(n, C, "failed")
    BY DEF PersistFails
  <1>2. /\ Active(n) /\ perform[n] = "persisting" /\ write[n] = "notCommitted"
        /\ UNCHANGED <<snapshot, aborted, writerVars, inFlight, controller, born, base, stamp>>
    BY DEF PersistFails, Active, Settle
  <1>3. C \in SUBSET Counters /\ Balanced(C)
    BY DEF Counters, Balanced
  <1>4. /\ perform' \in [Attempts -> Phases]
        /\ stats' \in [Counters -> Nat] /\ lastAttempt' \in {"none", "ok", "failed"}
        /\ \A m \in Attempts : ~Active(m)'
        /\ Accounting'
    BY <1>1, <1>2, <1>3, SettlingEnds DEF hostVars
  <1>5. LifecycleTypeOK' /\ Timers' /\ Flight'
    BY <1>2, <1>4 DEF LifecycleInv, LifecycleTypeOK, Timers, PeriodicLoopAlive,
                      Disposed, Flight,
                      hostVars, timerVars, disposeVars
  <1>6. Publishing'
    <2>1. \A m \in Attempts : ~Ahead(m) /\ ~Writing(m)
      BY <1>2 DEF LifecycleInv, Flight, Publishing, Ahead, Active, Writing, FsOps
    <2> QED BY <1>2, <1>4, <2>1 DEF LifecycleInv, Publishing, Ahead, Active, Writing,
                                    hostVars,
                                    writerVars
  <1> QED BY <1>4, <1>5, <1>6 DEF LifecycleRest

\* The swap: memory catches up with the disk.
LEMMA AdoptKeeps ==
  ASSUME LifecycleInv, NEW n \in Attempts, Adopt(n),
         UNCHANGED <<hostVars, timerVars, disposeVars>>
  PROVE  LifecycleRest'
  <1> DEFINE C == {"cacheWrites", "swaps", "attemptsSucceeded"}
  <1>1. /\ Active(n) /\ perform[n] = "persisting" /\ write[n] = "committed"
        /\ Settle(n, C, "ok")
        /\ snapshot' = [gen |-> n, refreshedAt |-> stamp[n], origin |-> "refreshed"]
        /\ UNCHANGED <<aborted, writerVars, inFlight, controller, born, base, stamp>>
    BY DEF Adopt, Active, Settle
  <1>2. C \in SUBSET Counters /\ Balanced(C)
    BY DEF Counters, Balanced
  <1> HIDE DEF C
  <1>3. /\ perform' \in [Attempts -> Phases]
        /\ stats' \in [Counters -> Nat] /\ lastAttempt' \in {"none", "ok", "failed"}
        /\ \A m \in Attempts : ~Active(m)'
        /\ Accounting'
    BY <1>1, <1>2, SettlingEnds DEF hostVars
  <1>4. snapshot' \in [gen : Generations, refreshedAt : Time,
                       origin : {"embedded", "cache", "refreshed"}]
    BY <1>1 DEF LifecycleInv, LifecycleTypeOK, Generations
  <1>5. LifecycleTypeOK' /\ Timers' /\ Flight'
    BY <1>1, <1>3, <1>4 DEF LifecycleInv, LifecycleTypeOK, Timers, PeriodicLoopAlive,
                            Disposed,
                            Flight, hostVars, timerVars, disposeVars
  <1>6. Publishing'
    <2>1. disk.gen = n /\ \A m \in Attempts : ~Writing(m)
      BY <1>1 DEF LifecycleInv, Flight, Publishing, Ahead, Active, Writing, FsOps
    <2> QED BY <1>1, <1>3, <2>1 DEF Publishing, Ahead, Active, Writing, writerVars
  <1> QED BY <1>3, <1>5, <1>6 DEF LifecycleRest

LEMMA PersistBeginsKeeps ==
  ASSUME LifecycleInv, NEW n \in Attempts, PersistBegins(n),
         UNCHANGED <<hostVars, timerVars, disposeVars>>
  PROVE  LifecycleRest'
  <1>1. /\ perform[n] = "reconciling" /\ perform' = [perform EXCEPT ![n] = "persisting"]
        /\ BeginWrite(n)
        /\ UNCHANGED <<aborted, inFlight, controller, born, base, stamp, servedVars>>
    BY DEF PersistBegins
  <1>2. /\ perform' \in [Attempts -> Phases]
        /\ perform'[n] = "persisting"
        /\ \A m \in Attempts \ {n} : perform'[m] = perform[m]
        /\ \A m \in Attempts : Active(m)' <=> Active(m)
    BY <1>1 DEF LifecycleInv, LifecycleTypeOK, Active
  <1>3. LifecycleTypeOK' /\ Timers' /\ Flight'
    BY <1>1, <1>2 DEF LifecycleInv, LifecycleTypeOK, Timers, PeriodicLoopAlive,
                      Disposed, Flight,
                      hostVars, timerVars, disposeVars, servedVars
  <1>4. Accounting'
    <2>1. (\E m \in Attempts : Active(m)') <=> (\E m \in Attempts : Active(m))
      BY <1>2
    <2> QED BY <1>1, <2>1 DEF LifecycleInv, Accounting, hostVars, servedVars
  <1>5. Publishing'
    <2>1. /\ write'[n] \in {"mkdir", "notCommitted"} /\ disk' = disk
          /\ \A m \in Attempts \ {n} : write'[m] = write[m] /\ landed'[m] = landed[m]
      BY <1>1 DEF BeginWrite, Issue, LifecycleInv, HalvesInv, WriterInv, WriterTypeOK
    <2>2. \A m \in Attempts : ~Ahead(m)
      BY <1>1 DEF LifecycleInv, Flight, Ahead, Active
    <2>3. \A m \in Attempts : ~Ahead(m)'
      BY <1>2, <2>1, <2>2 DEF Ahead
    <2>4. \A m \in Attempts : Writing(m)' => perform'[m] = "persisting"
      BY <1>2, <2>1 DEF LifecycleInv, Publishing, Writing
    <2> QED BY <1>1, <2>1, <2>2, <2>3, <2>4 DEF LifecycleInv, Publishing, hostVars,
                                                servedVars
  <1> QED BY <1>3, <1>4, <1>5 DEF LifecycleRest

LEMMA ClearInFlightKeeps ==
  ASSUME LifecycleInv, NEW n \in Attempts, ClearInFlight(n),
         UNCHANGED <<hostVars, timerVars, disposeVars>>
  PROVE  LifecycleRest'
  <1>1. /\ perform[n] = "settled" /\ inFlight = n /\ inFlight' = 0 /\ controller' = 0
        /\ UNCHANGED <<aborted, writerVars, born, perform, base, stamp, servedVars>>
    BY DEF ClearInFlight
  <1>2. \A m \in Attempts : ~Active(m)
    BY <1>1 DEF LifecycleInv, Flight, Active
  <1>3. LifecycleTypeOK' /\ Timers' /\ Flight'
    BY <1>1, <1>2 DEF LifecycleInv, LifecycleTypeOK, Timers, PeriodicLoopAlive,
                      Disposed, Flight,
                      Active, Generations, hostVars, timerVars, disposeVars, servedVars
  <1>4. Publishing' /\ Accounting'
    BY <1>1, PublishingFrame, AccountingFrame
       DEF LifecycleInv, hostVars, servedVars, writerVars
  <1> QED BY <1>3, <1>4 DEF LifecycleRest

\* A step of the disk half: a landing rename puts the disk ahead, the report of
\* it leaves it there, and no other step makes a difference.
LEMMA DiskPublishing ==
  ASSUME LifecycleInv, NEW n \in Attempts, DiskStep(n)
  PROVE  Publishing'
  <1>1. /\ alive /\ Writing(n) /\ perform[n] = "persisting"
        /\ \A m \in Attempts \ {n} : ~Active(m) /\ ~Writing(m) /\ ~Ahead(m)
    <2>1. alive /\ Writing(n)
      BY DEF DiskStep, FsOpLands, FsOpFails, WriterContinues, CleanUp, Writing
    <2>2. perform[n] = "persisting" /\ Active(n)
      BY <2>1 DEF LifecycleInv, Publishing, Active
    <2> QED BY <2>1, <2>2 DEF LifecycleInv, Flight, Publishing, Ahead, Active
  <1>2. WriterTypeOK /\ UNCHANGED <<alive, perform, snapshot>>
    BY DEF LifecycleInv, HalvesInv, WriterInv, DiskStep, lifecycleVars, hostVars,
           flightVars,
           servedVars
  <1>3. \A m \in Attempts \ {n} : write'[m] = write[m] /\ landed'[m] = landed[m]
    BY <1>2 DEF WriterTypeOK, DiskStep, FsOpLands, FsOpFails, WriterContinues, CleanUp,
                Issue
  <1>4. \A m \in Attempts \ {n} : ~Writing(m)' /\ ~Ahead(m)'
    BY <1>1, <1>2, <1>3 DEF Writing, Ahead
  <1>5. CASE FsOpLands(n) /\ write[n] = "rename"
    <2>1. disk'.gen = n /\ write'[n] = "rename" /\ landed'[n] = TRUE
      BY <1>2, <1>5 DEF FsOpLands, Published, WriterTypeOK
    <2>2. Ahead(n)'
      BY <1>1, <1>2, <2>1 DEF Ahead
    <2> QED BY <1>1, <1>2, <1>4, <2>1, <2>2 DEF Publishing
  <1>6. CASE ~(FsOpLands(n) /\ write[n] = "rename")
    <2>1. disk' = disk
      BY <1>6 DEF DiskStep, FsOpLands, FsOpFails, WriterContinues, CleanUp
    <2>2. Ahead(n)' <=> Ahead(n)
      <3>1. CASE FsOpLands(n)
        BY <1>2, <1>6, <3>1 DEF FsOpLands, Ahead, FsOps
      <3>2. CASE FsOpFails(n)
        BY <1>2, <3>2 DEF FsOpFails, Issue, Ahead, FsOps, WriterTypeOK
      <3>3. CASE WriterContinues(n)
        BY <1>2, <3>3 DEF WriterContinues, Issue, NextOp, Ahead, FsOps, WriterTypeOK
      <3>4. CASE CleanUp(n)
        BY <1>2, <3>4 DEF CleanUp, Issue, Ahead, FsOps, WriterTypeOK
      <3> QED BY <3>1, <3>2, <3>3, <3>4 DEF DiskStep
    <2> QED BY <1>1, <1>2, <1>4, <2>1, <2>2 DEF LifecycleInv, Publishing
  <1> QED BY <1>5, <1>6

\* Steps outside the lifecycle's own variables.
LEMMA HalfStepKeeps ==
  ASSUME LifecycleInv,
         \/ \E n \in Attempts : SeamStep(n) \/ NetworkStep(n) \/ DiskStep(n)
         \/ DirectoryStep
         \/ UNCHANGED vars
  PROVE  LifecycleRest'
  <1>1. UNCHANGED <<aborted, lifecycleVars>>
    BY DEF SeamStep, SeamSettles, NetworkStep, DeadlineFires, AttemptContinues, DiskStep,
           FsOpLands, FsOpFails, WriterContinues, CleanUp, DirectoryStep, DirectoryFlushed, vars
  <1>2. LifecycleTypeOK' /\ Timers' /\ Flight' /\ Accounting'
    BY <1>1, FlightFrame, AccountingFrame
       DEF LifecycleInv, LifecycleTypeOK, Timers, PeriodicLoopAlive, Disposed,
           lifecycleVars,
           hostVars, timerVars, disposeVars, flightVars, servedVars
  <1>3. Publishing'
    <2>1. CASE \E n \in Attempts : DiskStep(n)
      BY <2>1, DiskPublishing
    <2>2. CASE ~\E n \in Attempts : DiskStep(n)
      <3>1. UNCHANGED <<write, landed, disk>>
        BY <2>2 DEF SeamStep, NetworkStep, DirectoryStep, DirectoryFlushed, vars,
                    writerVars
      <3> QED BY <1>1, <3>1, PublishingFrame
              DEF LifecycleInv, lifecycleVars, hostVars, flightVars, servedVars
    <2> QED BY <2>1, <2>2
  <1> QED BY <1>2, <1>3 DEF LifecycleRest

------------------------------------------------------------------------------
(* The theorems.                                                           *)

LEMMA LifecycleInitHolds == LifecycleInit => LifecycleInv
  <1> SUFFICES ASSUME LifecycleInit
               PROVE  LifecycleInv
    OBVIOUS
  <1>1. HalvesInv
    BY SyncInitHolds, WriterInitHolds DEF LifecycleInit, HalvesInv
  <1>2. LifecycleTypeOK
    <2>1. Epoch \in Time /\ 0 \in Generations
      BY BoundsAssumption DEF Epoch, Time, Generations
    <2>2. snapshot \in [gen : Generations, refreshedAt : Time,
                        origin : {"embedded", "cache", "refreshed"}]
      BY <2>1 DEF LifecycleInit, Embedded
    <2>3. stats \in [Counters -> Nat] /\ config \in Configs
      BY DEF LifecycleInit, Serviceable
    <2> QED BY <2>1, <2>2, <2>3 DEF LifecycleInit, LifecycleTypeOK
  <1>3. Flight /\ Timers /\ Accounting
    BY DEF LifecycleInit, Flight, Active, Timers, PeriodicLoopAlive, Disposed, Accounting
  <1>4. Publishing
    BY DEF LifecycleInit, WriterInit, Publishing, Ahead, Writing, FsOps
  <1> QED BY <1>1, <1>2, <1>3, <1>4 DEF LifecycleInv

LEMMA TimerHalves ==
  ASSUME HalvesInv, LifecycleTypeOK,
         \/ Boot \/ ClockMoves \/ CommitConfig \/ ReadCatalog \/ Start
         \/ NotifyConfigChanged \/ DisposeReturns \/ UNCHANGED vars
  PROVE  HalvesInv'
  <1>1. UNCHANGED <<aborted, syncVars, writerVars>>
    BY DEF Boot, ClockMoves, CommitConfig, ReadCatalog, Start, NotifyConfigChanged,
           DisposeReturns, vars
  <1> QED BY <1>1, SyncIdle, WriterIdle DEF HalvesInv

LEMMA NextKeeps == LifecycleInv /\ [Next]_vars => LifecycleInv'
  <1> SUFFICES ASSUME LifecycleInv, [Next]_vars
               PROVE  HalvesInv' /\ LifecycleRest'
    BY DEF LifecycleInv, LifecycleRest
  <1>0. HalvesInv /\ LifecycleTypeOK
    BY DEF LifecycleInv
  <1>1. CASE Boot
    BY <1>0, <1>1, TimerHalves, BootKeeps
  <1>2. CASE Crash \/ PowerFails
    BY <1>0, <1>2, DeathHalves, ProcessDeathKeeps
  <1>3. CASE ClockMoves \/ CommitConfig \/ ReadCatalog \/ Start \/ NotifyConfigChanged
    BY <1>0, <1>3, TimerHalves, QuietKeeps
  <1>4. CASE ImmediateFires \/ PeriodicFires
    <2>1. Refresh
      BY <1>4 DEF ImmediateFires, PeriodicFires
    <2> QED BY <1>0, <1>4, <2>1, RefreshHalves, FiresKeeps
  <1>5. CASE Dispose
    BY <1>0, <1>5, DisposeHalves, DisposeKeeps
  <1>6. CASE DisposeReturns
    BY <1>0, <1>6, TimerHalves, DisposeReturnsKeeps
  <1>7. CASE \E n \in Attempts : PerformContinues(n)
    <2>1. PICK n \in Attempts : PerformContinues(n)
      BY <1>7
    <2>2. HalvesInv'
      BY <1>0, <2>1, PerformHalves
    <2>3. UNCHANGED <<hostVars, timerVars, disposeVars>>
      BY <2>1 DEF PerformContinues
    <2>4. LifecycleRest'
      BY <2>1, <2>3, AttemptFailsKeeps, PersistBeginsKeeps, AdoptKeeps, PersistFailsKeeps,
         ClearInFlightKeeps DEF PerformContinues
    <2> QED BY <2>2, <2>4
  <1>8. CASE \E n \in Attempts : SeamStep(n) \/ NetworkStep(n)
    BY <1>0, <1>8, SeamHalves, HalfStepKeeps
  <1>9. CASE (\E n \in Attempts : DiskStep(n)) \/ DirectoryStep
    BY <1>0, <1>9, DiskHalves, HalfStepKeeps
  <1>10. CASE UNCHANGED vars
    BY <1>0, <1>10, TimerHalves, HalfStepKeeps
  <1> QED
    BY <1>1, <1>2, <1>3, <1>4, <1>5, <1>6, <1>7, <1>8, <1>9, <1>10 DEF Next

\* The invariant behind everything below, for every bound and every interleaving.
THEOREM LifecycleInvariance == Spec => []LifecycleInv
  BY LifecycleInitHolds, NextKeeps, PTL DEF Spec

\* The types of the composed state (CatalogLifecycle, its attempt and its writer).
THEOREM TypesHold == Spec => []TypeOK
  <1>1. LifecycleInv => TypeOK
    BY DEF LifecycleInv, HalvesInv, SyncInv, WriterInv, LifecycleTypeOK, TypeOK
  <1> QED BY LifecycleInvariance, <1>1, PTL

\* At most one attempt runs, and it is the one a refresh would join and a disposal
\* would abort (refresh and performAttempt of src/lifecycle.ts).
THEOREM SingleFlightHolds == Spec => []SingleFlight
  <1>1. LifecycleInv => SingleFlight
    BY DEF LifecycleInv, Flight, SingleFlight
  <1> QED BY LifecycleInvariance, <1>1, PTL

\* Nothing is swapped in under a running attempt (previousState is read before the
\* awaits of performAttempt).
THEOREM ReconciledHolds == Spec => []ReconciledAgainstCurrent
  <1>1. LifecycleInv => ReconciledAgainstCurrent
    BY DEF LifecycleInv, Flight, ReconciledAgainstCurrent
  <1> QED BY LifecycleInvariance, <1>1, PTL

\* The counters account for every attempt exactly once (performAttempt).
THEOREM AccountingHolds == Spec => []Accounting
  <1>1. LifecycleInv => Accounting
    BY DEF LifecycleInv
  <1> QED BY LifecycleInvariance, <1>1, PTL

\* The periodic timer of a started lifecycle is armed until disposal (armPeriodic).
THEOREM PeriodicHolds == Spec => []PeriodicLoopAlive
  <1>1. LifecycleInv => PeriodicLoopAlive
    BY DEF LifecycleInv, Timers
  <1> QED BY LifecycleInvariance, <1>1, PTL

\* Disk and memory are on the same generation except between a rename and its swap
\* (persist before adopt in performAttempt).
THEOREM AgreementHolds == Spec => []DiskAndMemoryAgree
  <1>1. LifecycleInv => DiskAndMemoryAgree
    BY DEF LifecycleInv, Publishing, Ahead, Flight, Active, DiskAndMemoryAgree
  <1> QED BY LifecycleInvariance, <1>1, PTL

\* The step of a write that issues its rename belongs to an attempt whose owner has
\* not given up, so it is none of a disposed lifecycle.
LEMMA RenameNeedsOwner ==
  ASSUME LifecycleInv, Next, Disposed, NEW n \in Attempts,
         write'[n] = "rename", write[n] # "rename"
  PROVE  FALSE
  <1>1. WriterTypeOK
    BY DEF LifecycleInv, HalvesInv, WriterInv
  <1>2. ~UNCHANGED write
    OBVIOUS
  <1>3. CASE \E m \in Attempts : DiskStep(m)
    <2>1. PICK m \in Attempts : DiskStep(m)
      BY <1>3
    <2>2. WriterContinues(m) /\ m \notin aborted
      BY <1>1, <1>2, <2>1 DEF DiskStep, FsOpLands, FsOpFails, WriterContinues, CleanUp,
                              Issue,
                              WriterTypeOK
    <2>3. Active(m) /\ alive
      BY <2>1, <2>2 DEF LifecycleInv, Publishing, WriterContinues, Writing, Active,
                        DiskStep
    <2> QED BY <2>2, <2>3 DEF LifecycleInv, LifecycleTypeOK, Flight, Disposed
  <1>4. CASE \E m \in Attempts : PerformContinues(m)
    <2>1. PICK m \in Attempts : PerformContinues(m)
      BY <1>4
    <2>2. BeginWrite(m)
      BY <1>2, <2>1 DEF PerformContinues, AttemptFails, PersistBegins, Adopt,
                        PersistFails,
                        ClearInFlight, writerVars
    <2> QED BY <1>1, <2>2 DEF BeginWrite, Issue, WriterTypeOK
  <1>5. CASE Crash \/ PowerFails
    BY <1>5 DEF Crash, PowerFails, PowerLoss, WritersDie
  <1>6. CASE ImmediateFires \/ PeriodicFires
    <2>1. UNCHANGED writerVars
      BY <1>6 DEF ImmediateFires, PeriodicFires, Refresh, StartAttempt
    <2> QED BY <1>2, <2>1 DEF writerVars
  <1> QED
    BY <1>2, <1>3, <1>4, <1>5, <1>6
       DEF Next, Boot, ClockMoves, CommitConfig, ReadCatalog, Start, NotifyConfigChanged,
           Dispose, DisposeReturns, SeamStep, NetworkStep, DirectoryStep, DirectoryFlushed,
           writerVars

\* No rename is issued once dispose() was called (dispose aborts the controller the
\* writer looks at before every operation).
THEOREM NoRenameHolds == Spec => NoRenameAfterDispose
  <1>1. LifecycleInv /\ [Next]_vars =>
            [Disposed => \A n \in Attempts : write'[n] = "rename" => write[n] = "rename"]_vars
    BY RenameNeedsOwner
  <1> QED BY LifecycleInvariance, <1>1, PTL DEF Spec, NoRenameAfterDispose

\* The snapshot of a running lifecycle is only replaced by one observed later.
LEMMA SwapsForward ==
  ASSUME LifecycleInv, Next, alive, alive', ~(disposal = "done" /\ disposal' = "none"),
         snapshot' # snapshot
  PROVE  snapshot'.refreshedAt > snapshot.refreshedAt
  <1>1. ~UNCHANGED servedVars /\ ~UNCHANGED lifecycleVars
    BY DEF servedVars, lifecycleVars
  <1>2. PICK n \in Attempts : Adopt(n)
    <2>1. ~Boot
      BY DEF Boot
    <2>2. ~Crash /\ ~PowerFails
      BY DEF Crash, PowerFails, ProcessDies
    <2>3. ~ImmediateFires /\ ~PeriodicFires
      BY <1>1 DEF ImmediateFires, PeriodicFires, Refresh, StartAttempt
    <2>4. \A n \in Attempts : PerformContinues(n) => Adopt(n)
      BY <1>1 DEF PerformContinues, AttemptFails, PersistBegins, PersistFails,
                  ClearInFlight
    <2> QED
      BY <1>1, <2>1, <2>2, <2>3, <2>4
         DEF Next, ClockMoves, CommitConfig, ReadCatalog, Start, NotifyConfigChanged,
             Dispose,
             DisposeReturns, SeamStep, NetworkStep, DiskStep, DirectoryStep
  <1> QED BY <1>2 DEF LifecycleInv, Flight, Active, Adopt

\* refreshedAt only grows while a lifecycle runs, wherever the wall clock goes
\* (isFresh guards every attempt, and single flight every swap).
THEOREM ObservationsHold == Spec => ObservationsMoveForward
  <1>1. LifecycleInv /\ [Next]_vars =>
            [alive /\ alive' /\ ~(disposal = "done" /\ disposal' = "none")
                  /\ snapshot' # snapshot
              => snapshot'.refreshedAt > snapshot.refreshedAt]_vars
    BY SwapsForward
  <1> QED BY LifecycleInvariance, <1>1, PTL DEF Spec, ObservationsMoveForward

\* A disposed lifecycle has nothing left that could act.
LEMMA DoneIsQuiet ==
  ASSUME LifecycleInv, Next, disposal = "done", alive, alive', disposal' = "done"
  PROVE  UNCHANGED <<snapshot, stats, lastAttempt, timerVars, disk, temp, born>>
  <1>1. /\ Disposed /\ ~immediate /\ ~periodic
        /\ \A n \in Attempts : ~Active(n) /\ ~Writing(n)
    BY DEF LifecycleInv, Timers, Disposed, Flight, Publishing, Active
  <1>2. ~Boot /\ ~Crash /\ ~PowerFails
    BY DEF Boot, Crash, PowerFails, ProcessDies
  <1>3. ~ReadCatalog /\ ~Start /\ ~NotifyConfigChanged /\ ~ImmediateFires /\ ~PeriodicFires
        /\ ~Dispose /\ ~DisposeReturns
    BY <1>1 DEF ReadCatalog, Start, NotifyConfigChanged, ImmediateFires, PeriodicFires,
                Dispose,
                DisposeReturns
  <1>4. ASSUME NEW n \in Attempts, PerformContinues(n)
        PROVE  UNCHANGED <<snapshot, stats, lastAttempt, timerVars, disk, temp, born>>
    <2>1. ClearInFlight(n)
      BY <1>1, <1>4 DEF PerformContinues, AttemptFails, PersistBegins, Adopt,
                        PersistFails, Active
    <2> QED BY <1>4, <2>1 DEF PerformContinues, ClearInFlight, writerVars, servedVars
  <1>5. \A n \in Attempts : ~DiskStep(n)
    BY <1>1 DEF DiskStep, FsOpLands, FsOpFails, WriterContinues, CleanUp, Writing
  <1>6. CASE ClockMoves \/ CommitConfig
    BY <1>6 DEF ClockMoves, CommitConfig, writerVars, flightVars, servedVars
  <1>7. CASE \E n \in Attempts : SeamStep(n) \/ NetworkStep(n)
    BY <1>7 DEF SeamStep, NetworkStep, writerVars, lifecycleVars, flightVars, servedVars
  <1>8. CASE DirectoryStep
    BY <1>8 DEF DirectoryStep, DirectoryFlushed, lifecycleVars, flightVars, servedVars
  <1> QED BY <1>2, <1>3, <1>4, <1>5, <1>6, <1>7, <1>8 DEF Next

\* When dispose() has resolved no timer, counter, snapshot or file changes any more
\* (runDispose clears both timers and awaits the attempt in flight).
THEOREM QuiescenceHolds == Spec => QuiescentAfterDispose
  <1>1. LifecycleInv /\ [Next]_vars =>
            [disposal = "done" /\ alive /\ alive' /\ disposal' = "done" =>
                UNCHANGED <<snapshot, stats, lastAttempt, timerVars, disk, temp, born>>]_vars
    BY DoneIsQuiet
  <1> QED BY LifecycleInvariance, <1>1, PTL DEF Spec, QuiescentAfterDispose

------------------------------------------------------------------------------
(* The refinement.  The invariant says where disk and memory stand; what is *)
(* added here is the numbering of the attempts, from which a commit is newer *)
(* than all that may be on disk.                                           *)

\* Attempts are numbered in the order of their births and only the last one is
\* active, so that a later publication has a higher number.
Numbered ==
    /\ \A n \in Attempts : perform[n] # "unborn" => n <= born
    /\ \A n \in Attempts : Active(n) => n = born
    /\ \A n \in Attempts : write[n] # "unborn" => perform[n] # "unborn"

Unserved == \E n \in Attempts : Ahead(n)

\* The steps that neither start, continue nor end an attempt.
Bystander ==
    \/ ClockMoves \/ CommitConfig \/ ReadCatalog \/ Start \/ NotifyConfigChanged
    \/ Dispose \/ DisposeReturns
    \/ \E n \in Attempts : SeamStep(n) \/ NetworkStep(n)
    \/ UNCHANGED vars

LEMMA BystanderFrame ==
  ASSUME Bystander
  PROVE  UNCHANGED <<alive, snapshot, perform, born, writerVars>>
  BY DEF Bystander, ClockMoves, CommitConfig, ReadCatalog, Start, NotifyConfigChanged,
         Dispose, DisposeReturns, SeamStep, NetworkStep, vars, lifecycleVars, hostVars,
         flightVars, servedVars

\* Who continues was born; who is about to be born runs alone.
LEMMA NumberedKeeps == LifecycleInv /\ Numbered /\ [Next]_vars => Numbered'
  <1> SUFFICES ASSUME LifecycleInv, Numbered, [Next]_vars
               PROVE  Numbered'
    OBVIOUS
  <1>0. /\ perform \in [Attempts -> Phases] /\ born \in Nat
        /\ write \in [Attempts -> FsOps \cup Endings \cup {"unborn", "cleanup"}]
    BY BoundsAssumption DEF LifecycleInv, LifecycleTypeOK, Generations, HalvesInv,
                            WriterInv, WriterTypeOK
  <1>1. CASE Bystander \/ Boot \/ DirectoryStep
    <2>1. UNCHANGED <<perform, born, write>>
      BY <1>1, BystanderFrame DEF Boot, DirectoryStep, DirectoryFlushed, lifecycleVars,
                                  flightVars, writerVars
    <2> QED BY <2>1 DEF Numbered, Active
  <1>2. CASE Crash \/ PowerFails
    <2>1. born' = born
      BY <1>2 DEF Crash, PowerFails, ProcessDies
    <2>2. ASSUME NEW n \in Attempts
          PROVE  /\ perform'[n] \in {perform[n], "dead"}
                 /\ (perform'[n] = "unborn") = (perform[n] = "unborn")
                 /\ ~Active(n)'
      BY <1>0, <1>2 DEF Crash, PowerFails, ProcessDies, Active
    <2>3. ASSUME NEW n \in Attempts
          PROVE  (write'[n] = "unborn") = (write[n] = "unborn")
      BY <1>0, <1>2 DEF Crash, PowerFails, PowerLoss, WritersDie, Writing, FsOps
    <2> QED BY <2>1, <2>2, <2>3 DEF Numbered
  <1>3. CASE ImmediateFires \/ PeriodicFires
    <2>1. Refresh
      BY <1>3 DEF ImmediateFires, PeriodicFires
    <2>2. CASE ~MustAttempt
      <3>1. UNCHANGED <<perform, born, write>>
        BY <2>1, <2>2 DEF Refresh, writerVars, flightVars
      <3> QED BY <3>1 DEF Numbered, Active
    <2>3. CASE MustAttempt
      <3>1. /\ born' = born + 1 /\ born + 1 \in Attempts /\ write' = write
            /\ perform' = [perform EXCEPT ![born + 1] = "reconciling"]
        BY <2>1, <2>3 DEF Refresh, StartAttempt, writerVars
      <3>2. \A n \in Attempts : ~Active(n)
        BY <2>3, GenerationsAssumption DEF MustAttempt, LifecycleInv, Flight
      <3> QED BY <1>0, <3>1, <3>2, GenerationsAssumption DEF Numbered, Active
    <2> QED BY <2>2, <2>3
  <1>4. CASE \E n \in Attempts : PerformContinues(n)
    <2>1. PICK n \in Attempts : PerformContinues(n)
      BY <1>4
    <2>2. /\ born' = born
          /\ perform[n] # "unborn"
          /\ \A m \in Attempts : perform'[m] = perform[m] \/ m = n
          /\ \A m \in Attempts : write'[m] = write[m] \/ m = n
          /\ Active(n)' => Active(n)
          /\ perform'[n] # "unborn"
      BY <1>0, <2>1
         DEF PerformContinues, AttemptFails, PersistBegins, Adopt, PersistFails,
             ClearInFlight, Settle, BeginWrite, Issue, Active, writerVars
    <2> QED BY <2>2 DEF Numbered, Active
  <1>5. CASE \E n \in Attempts : DiskStep(n)
    <2>1. PICK n \in Attempts : DiskStep(n)
      BY <1>5
    <2>2. UNCHANGED <<perform, born>> /\ write[n] # "unborn"
      BY <2>1 DEF DiskStep, FsOpLands, FsOpFails, WriterContinues, CleanUp, FsOps,
                  lifecycleVars, flightVars
    <2>3. \A m \in Attempts : write'[m] = write[m] \/ m = n
      BY <1>0, <2>1 DEF DiskStep, FsOpLands, FsOpFails, WriterContinues, CleanUp, Issue
    <2> QED BY <2>2, <2>3 DEF Numbered, Active
  <1> QED BY <1>1, <1>2, <1>3, <1>4, <1>5 DEF Next, Bystander

------------------------------------------------------------------------------
(* The steps, one kind at a time.                                          *)

\* Nobody but the attempt that is ahead may be active.
LEMMA AloneAhead ==
  ASSUME LifecycleInv, NEW n \in Attempts, Active(n)
  PROVE  \A m \in Attempts \ {n} : ~Active(m) /\ ~Ahead(m)
  BY DEF LifecycleInv, Flight, Ahead, Active

LEMMA BystanderStutters ==
  ASSUME Bystander
  PROVE  UNCHANGED Contract!facts
  <1>1. UNCHANGED <<alive, snapshot, perform, write, landed, disk, lingering>>
    BY BystanderFrame DEF writerVars
  <1> QED BY <1>1 DEF Contract!facts, Ahead

LEMMA BootStarts ==
  ASSUME LifecycleInv, Boot
  PROVE  Contract!Start
  <1>1. ~Unserved
    BY DEF Boot, LifecycleInv, Flight, Ahead, Active, Unserved
  <1>2. alive' = TRUE /\ snapshot'.gen \in {0, disk.gen}
    BY DEF Boot, Loadable, Embedded
  <1>3. UNCHANGED <<perform, write, landed, disk, lingering>>
    BY DEF Boot, writerVars
  <1> QED BY <1>1, <1>2, <1>3 DEF Contract!Start, Ahead, Unserved

LEMMA DeathStops ==
  ASSUME LifecycleInv, Crash \/ PowerFails
  PROVE  Contract!Stop \/ Contract!Blackout
  <1>1. alive' = FALSE /\ snapshot' = snapshot
    BY DEF Crash, PowerFails, ProcessDies, servedVars
  <1>2. ~Unserved'
    BY DEF Crash, PowerFails, ProcessDies, Ahead, Unserved, Active, LifecycleInv,
           LifecycleTypeOK
  <1>3. CASE Crash
    <2>1. UNCHANGED <<disk, lingering>>
      BY <1>3 DEF Crash
    <2> QED BY <1>1, <1>2, <2>1 DEF Contract!Stop, Unserved
  <1>4. CASE PowerFails
    <2>1. PICK v \in lingering \cup {disk} : disk' = Recovered(v) /\ lingering' = {}
      BY <1>4 DEF PowerFails, PowerLoss
    <2>2. v \in Versions
      BY DEF LifecycleInv, HalvesInv, WriterInv, WriterTypeOK
    <2>3. disk'.gen = v.gen
      BY <2>1, <2>2 DEF Recovered, Versions
    <2>4. disk'.gen \in {w.gen : w \in lingering} \cup {disk.gen}
      BY <2>1, <2>3
    <2> QED BY <1>1, <1>2, <2>1, <2>4 DEF Contract!Blackout, Unserved
  <1> QED BY <1>3, <1>4

LEMMA FiresStutter ==
  ASSUME LifecycleInv, ImmediateFires \/ PeriodicFires
  PROVE  UNCHANGED Contract!facts
  <1>1. Refresh /\ alive' = alive
    BY DEF ImmediateFires, PeriodicFires, hostVars
  <1>2. UNCHANGED <<snapshot, write, landed, disk, lingering>>
    BY <1>1 DEF Refresh, StartAttempt, writerVars, servedVars
  <1>3. ASSUME NEW m \in Attempts
        PROVE  Ahead(m)' = Ahead(m)
    <2>1. CASE ~MustAttempt
      BY <1>1, <1>2, <2>1 DEF Refresh, flightVars, Ahead
    <2>2. CASE MustAttempt
      <3>1. perform' = [perform EXCEPT ![born + 1] = "reconciling"] /\ ~Active(m)
        BY <1>1, <2>2, GenerationsAssumption DEF Refresh, StartAttempt, MustAttempt,
                                                 LifecycleInv, Flight
      <3>2. perform'[m] # "persisting" /\ perform[m] # "persisting"
        BY <3>1 DEF LifecycleInv, LifecycleTypeOK, Active
      <3> QED BY <3>2 DEF Ahead
    <2> QED BY <2>1, <2>2
  <1> QED BY <1>1, <1>2, <1>3 DEF Contract!facts

\* An attempt that continues after an await: its swap is what it owes.
LEMMA PerformServes ==
  ASSUME LifecycleInv, NEW n \in Attempts, PerformContinues(n)
  PROVE  Contract!Serve \/ UNCHANGED Contract!facts
  <1>0. /\ perform \in [Attempts -> Phases] /\ WriterTypeOK
        /\ alive /\ alive' = alive
        /\ \A m \in Attempts : Ahead(m) => disk.gen = m
    BY DEF PerformContinues, hostVars, LifecycleInv, LifecycleTypeOK, HalvesInv, WriterInv,
           Publishing
  <1>1. UNCHANGED <<disk, lingering>>
    BY DEF PerformContinues, AttemptFails, PersistBegins, Adopt, PersistFails,
           ClearInFlight, BeginWrite, writerVars
  <1>2. CASE Adopt(n)
    <2>1. /\ Ahead(n) /\ Active(n) /\ snapshot'.gen = n
          /\ perform' = [perform EXCEPT ![n] = "settled"]
      BY <1>2 DEF Adopt, Ahead, Active, Settle
    <2>2. ~Unserved'
      BY <1>0, <2>1, AloneAhead DEF Unserved, Ahead, Active
    <2> QED BY <1>0, <1>1, <2>1, <2>2 DEF Contract!Serve, Unserved
  <1>3. CASE ~Adopt(n)
    <2>1. snapshot' = snapshot
      BY <1>3 DEF PerformContinues, AttemptFails, PersistBegins, PersistFails,
                  ClearInFlight, servedVars
    <2>2. ASSUME NEW m \in Attempts
          PROVE  Ahead(m)' = Ahead(m)
      <3>1. CASE AttemptFails(n)
        BY <1>0, <3>1 DEF AttemptFails, Settle, writerVars, Ahead
      <3>2. CASE PersistBegins(n)
        BY <1>0, <3>2 DEF PersistBegins, BeginWrite, Issue, Ahead, WriterTypeOK
      <3>3. CASE PersistFails(n)
        BY <1>0, <3>3 DEF PersistFails, Settle, writerVars, Ahead
      <3>4. CASE ClearInFlight(n)
        BY <3>4 DEF ClearInFlight, writerVars, Ahead
      <3> QED BY <1>3, <3>1, <3>2, <3>3, <3>4 DEF PerformContinues
    <2> QED BY <1>0, <1>1, <2>1, <2>2 DEF Contract!facts
  <1> QED BY <1>2, <1>3

\* Everything the disk may hold was published by an earlier attempt.
LEMMA RenameIsNewer ==
  ASSUME LifecycleInv, Numbered, NEW n \in Attempts,
         write[n] = "rename", ~landed[n],
         NEW v \in lingering \cup {disk}
  PROVE  n > v.gen
  <1>0. v \in Versions
    BY DEF LifecycleInv, HalvesInv, WriterInv, WriterTypeOK
  <1>1. v.gen \in Attempts \cup {0}
    BY <1>0 DEF Versions
  <1>2. n \in Nat /\ n > 0 /\ born \in Nat
    BY BoundsAssumption DEF LifecycleInv, LifecycleTypeOK, Generations
  <1>3. n = born
    BY DEF LifecycleInv, Publishing, Writing, FsOps, Numbered, Active
  <1>4. CASE v.gen = 0
    BY <1>2, <1>4
  <1>5. CASE v.gen # 0
    <2>1. v.gen \in Attempts /\ v.gen \in Nat
      <3>1. v.gen \in Attempts
        BY <1>1, <1>5
      <3> QED BY <3>1, BoundsAssumption
    <2>2. \/ write[v.gen] \in {"committed", "dead"}
          \/ write[v.gen] = "rename" /\ landed[v.gen]
      BY <1>5 DEF LifecycleInv, HalvesInv, WriterInv, Entries, PublishedBy, NoFile
    <2>3. v.gen <= born /\ v.gen # n
      BY <2>1, <2>2 DEF Numbered
    <2> QED BY <1>2, <1>3, <2>1, <2>3
  <1> QED BY <1>4, <1>5

LEMMA DiskPublishes ==
  ASSUME LifecycleInv, Numbered, NEW n \in Attempts, DiskStep(n)
  PROVE  Contract!Publish \/ UNCHANGED Contract!facts
  <1>1. /\ alive /\ perform[n] = "persisting" /\ Active(n) /\ WriterTypeOK
        /\ UNCHANGED <<alive, perform, snapshot>>
    BY DEF DiskStep, FsOpLands, FsOpFails, WriterContinues, CleanUp, Writing, LifecycleInv,
           Publishing, Active, HalvesInv, WriterInv, lifecycleVars, hostVars, flightVars,
           servedVars
  <1>2. \A m \in Attempts \ {n} : ~Ahead(m) /\ ~Ahead(m)'
    BY <1>1, AloneAhead DEF Active, Ahead
  <1>3. CASE FsOpLands(n) /\ write[n] = "rename"
    <2>1. /\ disk'.gen = n /\ lingering' = lingering \cup {disk}
          /\ write'[n] = "rename" /\ landed'[n] = TRUE /\ ~landed[n]
      BY <1>1, <1>3 DEF FsOpLands, Published, WriterTypeOK
    <2>2. Unserved' /\ ~Unserved
      BY <1>1, <1>2, <1>3, <2>1 DEF Ahead, Unserved
    <2>3. \A h \in {v.gen : v \in lingering} \cup {disk.gen} : n > h
      BY <1>3, <2>1, RenameIsNewer
    <2>4. {v.gen : v \in lingering'} = {v.gen : v \in lingering} \cup {disk.gen}
      BY <2>1
    <2> QED BY <1>1, <2>1, <2>2, <2>3, <2>4 DEF Contract!Publish, Unserved, Generations
  <1>4. CASE ~(FsOpLands(n) /\ write[n] = "rename")
    <2>1. UNCHANGED <<disk, lingering>>
      BY <1>4 DEF DiskStep, FsOpLands, FsOpFails, WriterContinues, CleanUp
    <2>2. Ahead(n)' = Ahead(n)
      <3>1. CASE FsOpLands(n)
        BY <1>1, <1>4, <3>1 DEF FsOpLands, Ahead, FsOps
      <3>2. CASE FsOpFails(n)
        BY <1>1, <3>2 DEF FsOpFails, Issue, Ahead, FsOps, WriterTypeOK
      <3>3. CASE WriterContinues(n)
        BY <1>1, <3>3 DEF WriterContinues, Issue, NextOp, Ahead, FsOps, WriterTypeOK
      <3>4. CASE CleanUp(n)
        BY <1>1, <3>4 DEF CleanUp, Issue, Ahead, FsOps, WriterTypeOK
      <3> QED BY <3>1, <3>2, <3>3, <3>4 DEF DiskStep
    <2> QED BY <1>1, <1>2, <2>1, <2>2 DEF Contract!facts
  <1> QED BY <1>3, <1>4

LEMMA DirectoryFlushes ==
  ASSUME DirectoryStep
  PROVE  Contract!Flush
  BY DEF DirectoryStep, DirectoryFlushed, Contract!Flush, Ahead, lifecycleVars, hostVars,
         flightVars, servedVars

------------------------------------------------------------------------------
(* The theorems.                                                           *)

LEMMA NumberedInit == LifecycleInit => Numbered
  BY DEF LifecycleInit, WriterInit, Numbered, Active

LEMMA InitImplements == LifecycleInit => Contract!Init
  BY DEF LifecycleInit, WriterInit, NoFile, Embedded, Ahead, Contract!Init

LEMMA StepImplements ==
    LifecycleInv /\ Numbered /\ [Next]_vars => [Contract!Next]_(Contract!facts)
  <1> SUFFICES ASSUME LifecycleInv, Numbered, [Next]_vars
               PROVE  Contract!Next \/ UNCHANGED Contract!facts
    OBVIOUS
  <1>1. CASE Bystander
    BY <1>1, BystanderStutters
  <1>2. CASE Boot
    BY <1>2, BootStarts DEF Contract!Next
  <1>3. CASE Crash \/ PowerFails
    BY <1>3, DeathStops DEF Contract!Next
  <1>4. CASE ImmediateFires \/ PeriodicFires
    BY <1>4, FiresStutter
  <1>5. CASE \E n \in Attempts : PerformContinues(n)
    BY <1>5, PerformServes DEF Contract!Next
  <1>6. CASE \E n \in Attempts : DiskStep(n)
    BY <1>6, DiskPublishes DEF Contract!Next
  <1>7. CASE DirectoryStep
    BY <1>7, DirectoryFlushes DEF Contract!Next
  <1> QED BY <1>1, <1>2, <1>3, <1>4, <1>5, <1>6, <1>7 DEF Next, Bystander

\* The lifecycle with its attempts and its writer (src/lifecycle.ts, src/sync.ts,
\* src/cache.ts) implements CommitThenServe: published first, served next, and an
\* older generation replaces a newer one only when the power fails.
THEOREM ImplementsContract == Spec => CommitsThenServes
  <1>1. LifecycleInit => Contract!Init /\ Numbered
    BY InitImplements, NumberedInit
  <1>2. LifecycleInv /\ Numbered /\ [Next]_vars =>
            Numbered' /\ [Contract!Next]_(Contract!facts)
    BY NumberedKeeps, StepImplements
  <1> QED BY LifecycleInvariance, <1>1, <1>2, PTL
          DEF Spec, CommitsThenServes, Contract!Spec
===============================================================================
