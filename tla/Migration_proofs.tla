--------------------------- MODULE Migration_proofs ---------------------------
(***************************************************************************)
(* For every set of migrations, documents, timestamps and faults: the      *)
(* types of Migration, that the lock stays its holder's, that the document *)
(* an applied removal was computed from can be recovered, was reviewed and *)
(* was cut at its own offsets, and that a migration that ended leaves      *)
(* nothing behind.                                                         *)
(***************************************************************************)
EXTENDS Migration, TLAPS

IsApplied(m) == verdict[m] = "applied"

BeforeBackup == {"idle", "reviewed", "read", "lock", "lockClose", "lockUndo",
                 "precommit", "backupOpen"}

AfterPrecommit == {"backupOpen", "backupWrite", "backupUndo", "tempOpen",
                   "tempWrite", "verify", "rename", "tempUndo", "backupDiscard"}

\* What the reads established: the parsed document is the reviewed one from the
\* first read on, and the bytes to be replaced are the parsed ones from the second.
Reads(m) ==
    /\ phase[m] \in {"lock"} \cup Critical \/ IsApplied(m) =>
            approved[m] \in {{}, {parsed[m]}}
    /\ phase[m] \in AfterPrecommit \/ IsApplied(m) => base[m] = parsed[m]
    /\ IsApplied(m) => phase[m] \in {"release", "ended", "dead"}

\* Its backup holds the bytes to be replaced, and is whole once it is written.
Saved(m) ==
    /\ phase[m] = "backupWrite" => \E b \in BackupOf(m) : b.text = base[m]
    /\ phase[m] \in {"tempOpen", "tempWrite", "verify", "rename"} \/ IsApplied(m) =>
            \E b \in BackupOf(m) : b.whole /\ b.text = base[m]

\* What it has created and not removed again.
Residue(m) ==
    "rm" \notin Faults =>
        /\ phase[m] \notin {"tempWrite", "verify", "rename", "tempUndo", "dead"} =>
                temp[m] = "none"
        /\ phase[m] \notin Critical \cup {"dead"} => m \notin lock
        /\ \/ phase[m] \in BeforeBackup
           \/ phase[m] \in {"release", "ended"} /\ verdict[m] = "conflict"
           => BackupOf(m) = {}
        /\ phase[m] \notin {"backupWrite", "backupUndo", "dead"} =>
                \A b \in BackupOf(m) : b.whole

Own(m) == Reads(m) /\ Saved(m) /\ Residue(m)

MigrationInv ==
    /\ TypeOK
    /\ LockIsHeld
    /\ \A m \in Migrations : Own(m)
    /\ NeverGarbled

\* A step of somebody else, as m sees it.
Untouched(m) ==
    /\ phase'[m] = phase[m] /\ temp'[m] = temp[m] /\ verdict'[m] = verdict[m]
    /\ approved'[m] = approved[m] /\ parsed'[m] = parsed[m] /\ base'[m] = base[m]
    /\ BackupOf(m)' = BackupOf(m)
    /\ m \in lock' => m \in lock

OthersUntouched(m) == \A n \in Migrations \ {m} : Untouched(n)

\* What a step of m does to the lock.
LockStep(m) ==
    \/ lock' = lock /\ (phase'[m] \in Critical => phase[m] \in Critical)
    \/ lock = {} /\ lock' = {m}
    \/ phase[m] \in Critical /\ phase'[m] \notin Critical /\ lock' = {}

LEMMA UntouchedKeeps ==
  ASSUME NEW m \in Migrations, Own(m), Untouched(m)
  PROVE  Own(m)'
  <1>1. Reads(m)'
    BY DEF Own, Untouched, Reads, IsApplied
  <1>2. Saved(m)'
    BY DEF Own, Untouched, Saved, IsApplied
  <1>3. Residue(m)'
    BY DEF Own, Untouched, Residue
  <1> QED BY <1>1, <1>2, <1>3 DEF Own

LEMMA LockKeeps ==
  ASSUME NEW m \in Migrations, LockIsHeld, OthersUntouched(m), LockStep(m)
  PROVE  LockIsHeld'
  <1> SUFFICES ASSUME NEW n \in Migrations, phase'[n] \in Critical
               PROVE  lock' = {n}
    BY DEF LockIsHeld
  <1>1. CASE n = m
    BY <1>1 DEF LockIsHeld, LockStep
  <1>2. CASE n # m
    <2>1. phase[n] \in Critical /\ lock = {n}
      BY <1>2 DEF OthersUntouched, Untouched, LockIsHeld
    <2>2. lock # {} /\ phase[m] \notin Critical
      BY <1>2, <2>1 DEF LockIsHeld
    <2> QED BY <2>1, <2>2 DEF LockStep
  <1> QED BY <1>1, <1>2

\* A step of one migration: what is left to show of it.
LEMMA OneMigration ==
  ASSUME MigrationInv, NEW m \in Migrations, TypeOK', OthersUntouched(m),
         LockStep(m), Own(m)', NeverGarbled'
  PROVE  MigrationInv'
  <1>1. LockIsHeld'
    BY LockKeeps DEF MigrationInv
  <1>2. \A n \in Migrations : Own(n)'
    BY UntouchedKeeps DEF MigrationInv, OthersUntouched
  <1> QED BY <1>1, <1>2 DEF MigrationInv

------------------------------------------------------------------------------
LEMMA InitKeeps == Init => MigrationInv
  <1> SUFFICES ASSUME Init PROVE MigrationInv
    OBVIOUS
  <1>1. settings \in Texts /\ NeverGarbled
    BY MigrationAssumption DEF Init, Texts, NeverGarbled, Shapes
  <1>2. TypeOK
    BY <1>1 DEF Init, TypeOK, Phases, Verdicts
  <1>3. LockIsHeld
    BY DEF Init, LockIsHeld, Critical
  <1>4. ASSUME NEW m \in Migrations PROVE Own(m)
    BY DEF Init, Own, Reads, Saved, Residue, BackupOf, IsApplied, Critical,
           AfterPrecommit
  <1> QED BY <1>1, <1>2, <1>3, <1>4 DEF MigrationInv

\* A step of m to phase p with verdict v, and nothing of the files changed.
LEMMA Walk ==
  ASSUME MigrationInv, NEW m \in Migrations, NEW p \in Phases, NEW v \in Verdicts,
         Goto(m, p), verdict' = [verdict EXCEPT ![m] = v],
         UNCHANGED <<settings, lock, backups>>,
         p \in Critical => phase[m] \in Critical,
         temp' \in [Migrations -> {"none", "partial", "full"}],
         approved' \in [Migrations -> SUBSET Texts],
         parsed' \in [Migrations -> Texts], base' \in [Migrations -> Texts],
         \A n \in Migrations \ {m} : /\ temp'[n] = temp[n] /\ approved'[n] = approved[n]
                                     /\ parsed'[n] = parsed[n] /\ base'[n] = base[n]
  PROVE  /\ phase'[m] = p /\ verdict'[m] = v /\ BackupOf(m)' = BackupOf(m)
         /\ Own(m)' => MigrationInv'
  <1>1. TypeOK
    BY DEF MigrationInv
  <1>2. TypeOK'
    BY <1>1 DEF TypeOK, Goto
  <1>3. phase'[m] = p /\ verdict'[m] = v /\ BackupOf(m)' = BackupOf(m)
    BY <1>1 DEF TypeOK, Goto, BackupOf
  <1>4. OthersUntouched(m)
    BY <1>1 DEF TypeOK, Goto, BackupOf, OthersUntouched, Untouched
  <1>5. LockStep(m)
    BY <1>3 DEF LockStep
  <1>6. NeverGarbled'
    BY DEF MigrationInv, NeverGarbled
  <1> QED BY <1>2, <1>3, <1>4, <1>5, <1>6, OneMigration

\* The same for a step that leaves everything but the phase and the verdict.
LEMMA Stride ==
  ASSUME MigrationInv, NEW m \in Migrations, NEW p \in Phases, Goto(m, p),
         p \in Critical => phase[m] \in Critical,
         verdict' = verdict \/ \E v \in Verdicts : verdict' = [verdict EXCEPT ![m] = v],
         UNCHANGED <<settings, lock, backups, temp, localVars>>
  PROVE  /\ phase'[m] = p /\ BackupOf(m)' = BackupOf(m)
         /\ Own(m)' => MigrationInv'
  <1>1. TypeOK
    BY DEF MigrationInv
  <1>2. verdict = [verdict EXCEPT ![m] = verdict[m]] /\ verdict[m] \in Verdicts
    BY <1>1 DEF TypeOK
  <1>3. PICK v \in Verdicts : verdict' = [verdict EXCEPT ![m] = v]
    BY <1>2
  <1> QED BY <1>1, <1>3, Walk DEF TypeOK, localVars

LEMMA DryRunKeeps ==
  ASSUME MigrationInv, NEW m \in Migrations, DryRun(m)
  PROVE  MigrationInv'
  <1>1. TypeOK /\ Own(m)
    BY DEF MigrationInv
  <1>2. verdict' = [verdict EXCEPT ![m] = verdict[m]] /\ verdict[m] \in Verdicts
    BY <1>1 DEF DryRun, TypeOK
  <1>3. /\ approved' \in [Migrations -> SUBSET Texts]
        /\ \A n \in Migrations \ {m} : approved'[n] = approved[n]
    BY <1>1 DEF DryRun, TypeOK
  <1>4. Goto(m, "reviewed") /\ "reviewed" \in Phases \ Critical
    BY DEF DryRun, Phases, Critical
  <1>5. /\ phase'[m] = "reviewed" /\ verdict'[m] = verdict[m] /\ BackupOf(m)' = BackupOf(m)
        /\ Own(m)' => MigrationInv'
    BY <1>1, <1>2, <1>3, <1>4, Walk DEF DryRun, TypeOK
  <1>6. ~IsApplied(m)
    BY <1>1 DEF Own, Reads, DryRun, IsApplied
  <1>7. Own(m)'
    BY <1>1, <1>4, <1>5, <1>6
       DEF DryRun, Own, Reads, Saved, Residue, IsApplied, AfterPrecommit, BeforeBackup, Critical
  <1> QED BY <1>5, <1>7

LEMMA ApplyKeeps ==
  ASSUME MigrationInv, NEW m \in Migrations, Apply(m)
  PROVE  MigrationInv'
  <1>1. TypeOK /\ Own(m)
    BY DEF MigrationInv
  <1>2. Goto(m, "read") /\ "read" \in Phases \ Critical
    BY DEF Apply, Phases, Critical
  <1>3. phase'[m] = "read" /\ BackupOf(m)' = BackupOf(m) /\ (Own(m)' => MigrationInv')
    BY <1>2, Stride DEF Apply
  <1>4. ~IsApplied(m)
    BY <1>1 DEF Own, Reads, Apply, IsApplied
  <1>5. Own(m)'
    BY <1>1, <1>2, <1>3, <1>4
       DEF Apply, Own, Reads, Saved, Residue, IsApplied, AfterPrecommit, BeforeBackup,
           Critical, localVars
  <1> QED BY <1>3, <1>5

LEMMA FirstReadKeeps ==
  ASSUME MigrationInv, NEW m \in Migrations, FirstRead(m)
  PROVE  MigrationInv'
  <1>1. TypeOK /\ Own(m) /\ ~IsApplied(m)
    BY DEF MigrationInv, Own, Reads, FirstRead, IsApplied
  <1>2. PICK p \in {"ended", "lock"}, v \in Verdicts :
             /\ Goto(m, p) /\ verdict' = [verdict EXCEPT ![m] = v]
             /\ v # "applied" /\ (p = "lock" => approved[m] \in {{}, {settings}})
    <2>1. verdict = [verdict EXCEPT ![m] = verdict[m]] /\ verdict[m] \in Verdicts
      BY <1>1 DEF TypeOK
    <2> QED BY <1>1, <2>1 DEF FirstRead, Return, IsApplied, Verdicts
  <1>3. /\ parsed' \in [Migrations -> Texts] /\ parsed'[m] = settings
        /\ \A n \in Migrations \ {m} : parsed'[n] = parsed[n]
    BY <1>1 DEF FirstRead, TypeOK
  <1>4. p \in Phases \ Critical
    BY DEF Phases, Critical
  <1>5. /\ phase'[m] = p /\ verdict'[m] = v /\ BackupOf(m)' = BackupOf(m)
        /\ Own(m)' => MigrationInv'
    BY <1>1, <1>2, <1>3, <1>4, Walk DEF FirstRead, TypeOK
  <1>6. Own(m)'
    BY <1>1, <1>2, <1>3, <1>4, <1>5
       DEF FirstRead, Own, Reads, Saved, Residue, IsApplied, AfterPrecommit, BeforeBackup,
           Critical
  <1> QED BY <1>5, <1>6

\* The steps that end or go on with an attempt and change no file.
LEMMA PrepareKeeps ==
  ASSUME MigrationInv, NEW m \in Migrations,
         ReadFails(m) \/ LockRefused(m) \/ LockClosed(m) \/ PrecommitRefused(m)
  PROVE  MigrationInv'
  <1>1. TypeOK /\ Own(m) /\ ~IsApplied(m)
    BY DEF MigrationInv, Own, Reads, IsApplied, ReadFails, LockRefused, LockClosed,
           PrecommitRefused
  <1>2. UNCHANGED <<settings, lock, backups, temp, localVars>>
    BY DEF ReadFails, LockRefused, LockClosed, PrecommitRefused
  <1>3. \/ phase[m] \in {"read", "lock"} /\ \E v \in Verdicts \ {"applied"} : Return(m, v)
        \/ /\ phase[m] = "lockClose" /\ verdict' = verdict
           /\ Goto(m, "precommit") \/ Goto(m, "lockUndo")
        \/ phase[m] = "precommit" /\ \E v \in Verdicts \ {"applied"} : Leave(m, v)
    BY DEF ReadFails, LockRefused, LockClosed, PrecommitRefused, Verdicts
  <1>4. PICK p \in {"ended", "precommit", "lockUndo", "release"} :
             /\ Goto(m, p) /\ (p \in Critical => phase[m] \in Critical)
             /\ \/ verdict' = verdict
                \/ \E v \in Verdicts \ {"applied"} : verdict' = [verdict EXCEPT ![m] = v]
             /\ phase[m] \in {"read", "lock", "lockClose", "precommit"}
             /\ p # "ended" => phase[m] \in {"lockClose", "precommit"}
             /\ p = "ended" => phase[m] \in {"read", "lock"}
    BY <1>3 DEF Return, Leave, Critical
  <1>5. phase'[m] = p /\ BackupOf(m)' = BackupOf(m) /\ (Own(m)' => MigrationInv')
    BY <1>2, <1>4, Stride DEF Phases, Critical
  <1>6. ~IsApplied(m)'
    BY <1>1, <1>4 DEF TypeOK, IsApplied
  <1>7. Reads(m)' /\ Saved(m)'
    BY <1>1, <1>2, <1>4, <1>5, <1>6 DEF Own, Reads, Saved, AfterPrecommit, Critical, localVars
  <1>8. Residue(m)'
    BY <1>1, <1>2, <1>4, <1>5 DEF Own, Residue, BeforeBackup, Critical
  <1> QED BY <1>5, <1>7, <1>8 DEF Own

------------------------------------------------------------------------------
(* The lock, and the second read.                                          *)

LEMMA LockTakenKeeps ==
  ASSUME MigrationInv, NEW m \in Migrations, LockTaken(m)
  PROVE  MigrationInv'
  <1>1. TypeOK /\ Own(m) /\ ~IsApplied(m)
    BY DEF MigrationInv, Own, Reads, LockTaken, IsApplied
  <1>2. TypeOK' /\ phase'[m] = "lockClose"
    BY <1>1 DEF LockTaken, Goto, TypeOK, Phases, Critical, localVars
  <1>3. OthersUntouched(m) /\ BackupOf(m)' = BackupOf(m)
    BY <1>1 DEF LockTaken, Goto, TypeOK, OthersUntouched, Untouched, BackupOf, localVars
  <1>4. LockStep(m) /\ NeverGarbled'
    BY DEF MigrationInv, LockTaken, LockStep, NeverGarbled
  <1>5. Own(m)'
    BY <1>1, <1>2, <1>3
       DEF LockTaken, Own, Reads, Saved, Residue, IsApplied, AfterPrecommit, BeforeBackup,
           Critical, localVars
  <1> QED BY <1>2, <1>3, <1>4, <1>5, OneMigration

\* The lock is removed and the migration ends.
LEMMA UnlockKeeps ==
  ASSUME MigrationInv, NEW m \in Migrations, LockUndone(m) \/ Released(m)
  PROVE  MigrationInv'
  <1>1. TypeOK /\ Own(m) /\ phase[m] \in {"lockUndo", "release"}
    BY DEF MigrationInv, LockUndone, Released
  <1>2. RemoveLock /\ Goto(m, "ended") /\ UNCHANGED <<settings, backups, temp, localVars>>
    BY DEF LockUndone, Released, Return
  <1>3. PICK v \in Verdicts : /\ verdict' = [verdict EXCEPT ![m] = v]
                              /\ v = verdict[m] \/ (phase[m] = "lockUndo" /\ v = "locked")
    <2>1. verdict = [verdict EXCEPT ![m] = verdict[m]] /\ verdict[m] \in Verdicts
      BY <1>1 DEF TypeOK
    <2> QED BY <2>1 DEF LockUndone, Released, Return, Verdicts
  <1>4. lock' = {} \/ ("rm" \in Faults /\ lock' = lock)
    BY <1>2 DEF RemoveLock
  <1>5. TypeOK' /\ phase'[m] = "ended" /\ verdict'[m] = v
    BY <1>1, <1>2, <1>3, <1>4 DEF Goto, TypeOK, Phases, localVars
  <1>6. OthersUntouched(m) /\ BackupOf(m)' = BackupOf(m)
    BY <1>1, <1>2, <1>3, <1>4
       DEF Goto, TypeOK, OthersUntouched, Untouched, BackupOf, localVars
  <1>7. LockStep(m) /\ NeverGarbled'
    BY <1>1, <1>2, <1>4, <1>5 DEF MigrationInv, LockStep, NeverGarbled, Critical
  <1>8. Reads(m)' /\ Saved(m)'
    BY <1>1, <1>2, <1>3, <1>5, <1>6
       DEF Own, Reads, Saved, IsApplied, AfterPrecommit, Critical, localVars
  <1>9. Residue(m)'
    BY <1>1, <1>2, <1>3, <1>4, <1>5, <1>6 DEF Own, Residue, BeforeBackup, Critical
  <1> QED BY <1>5, <1>6, <1>7, <1>8, <1>9, OneMigration DEF Own

LEMMA PrecommitKeeps ==
  ASSUME MigrationInv, NEW m \in Migrations, Precommit(m)
  PROVE  MigrationInv'
  <1>1. TypeOK /\ Own(m) /\ ~IsApplied(m)
    BY DEF MigrationInv, Own, Reads, Precommit, IsApplied
  <1>2. verdict' = [verdict EXCEPT ![m] = verdict[m]] /\ verdict[m] \in Verdicts
    BY <1>1 DEF Precommit, TypeOK
  <1>3. /\ base' \in [Migrations -> Texts] /\ base'[m] = parsed[m]
        /\ \A n \in Migrations \ {m} : base'[n] = base[n]
    BY <1>1 DEF Precommit, TypeOK
  <1>4. Goto(m, "backupOpen") /\ "backupOpen" \in Phases /\ phase[m] \in Critical
    BY DEF Precommit, Phases, Critical
  <1>5. /\ phase'[m] = "backupOpen" /\ verdict'[m] = verdict[m]
        /\ BackupOf(m)' = BackupOf(m) /\ (Own(m)' => MigrationInv')
    BY <1>1, <1>2, <1>3, <1>4, Walk DEF Precommit, TypeOK
  <1>6. Own(m)'
    BY <1>1, <1>3, <1>4, <1>5
       DEF Precommit, Own, Reads, Saved, Residue, IsApplied, AfterPrecommit, BeforeBackup,
           Critical
  <1> QED BY <1>5, <1>6

------------------------------------------------------------------------------
(* The backup.                                                             *)

\* A step of the lock's holder m to the phase p that changes backups of its own.
LEMMA BackupStep ==
  ASSUME MigrationInv, NEW m \in Migrations, NEW p \in Phases, Goto(m, p),
         phase[m] \in Critical,
         verdict' = verdict \/ \E v \in Verdicts : verdict' = [verdict EXCEPT ![m] = v],
         UNCHANGED <<settings, lock, temp, localVars>>,
         backups' \subseteq Backups,
         \A b \in Backups : b.by # m => (b \in backups' <=> b \in backups)
  PROVE  phase'[m] = p /\ (Own(m)' => MigrationInv')
  <1>1. TypeOK
    BY DEF MigrationInv
  <1>2. TypeOK' /\ phase'[m] = p
    BY <1>1 DEF TypeOK, Goto, localVars
  <1>3. ASSUME NEW n \in Migrations \ {m} PROVE BackupOf(n)' = BackupOf(n)
    BY <1>1 DEF TypeOK, BackupOf
  <1>4. OthersUntouched(m)
    BY <1>1, <1>3 DEF TypeOK, Goto, OthersUntouched, Untouched, localVars
  <1>5. LockStep(m) /\ NeverGarbled'
    BY DEF MigrationInv, LockStep, NeverGarbled
  <1> QED BY <1>2, <1>4, <1>5, OneMigration

LEMMA BackupOpenedKeeps ==
  ASSUME MigrationInv, NEW m \in Migrations, NEW s \in Stamps, BackupOpened(m, s)
  PROVE  MigrationInv'
  <1>1. TypeOK /\ Own(m) /\ ~IsApplied(m)
    BY DEF MigrationInv, Own, Reads, BackupOpened, IsApplied
  <1>2. /\ NewBackup(m, s) \in Backups /\ NewBackup(m, s).by = m
        /\ NewBackup(m, s).text = base[m]
    BY <1>1 DEF NewBackup, Backups, TypeOK
  <1>3. phase'[m] = "backupWrite" /\ (Own(m)' => MigrationInv')
    BY <1>1, <1>2, BackupStep DEF BackupOpened, TypeOK, Phases, Critical
  <1>4. NewBackup(m, s) \in BackupOf(m)'
    BY <1>2 DEF BackupOpened, BackupOf
  <1>5. Reads(m)'
    BY <1>1, <1>3 DEF BackupOpened, Own, Reads, IsApplied, AfterPrecommit, Critical, localVars
  <1>6. Saved(m)'
    BY <1>1, <1>2, <1>3, <1>4 DEF BackupOpened, Saved, IsApplied, localVars
  <1>7. Residue(m)'
    BY <1>1, <1>3 DEF BackupOpened, Own, Residue, BeforeBackup, Critical
  <1> QED BY <1>3, <1>5, <1>6, <1>7 DEF Own

LEMMA BackupRefusedKeeps ==
  ASSUME MigrationInv, NEW m \in Migrations, NEW s \in Stamps, BackupRefused(m, s)
  PROVE  MigrationInv'
  <1>1. TypeOK /\ Own(m)
    BY DEF MigrationInv
  <1>2. Goto(m, "release") /\ verdict' = [verdict EXCEPT ![m] = "aborted"]
    BY DEF BackupRefused, Leave
  <1>3. phase'[m] = "release" /\ BackupOf(m)' = BackupOf(m) /\ (Own(m)' => MigrationInv')
    BY <1>2, Stride DEF BackupRefused, Phases, Critical, Verdicts
  <1>4. verdict'[m] = "aborted"
    BY <1>1, <1>2 DEF TypeOK
  <1>5. Own(m)'
    BY <1>1, <1>3, <1>4
       DEF BackupRefused, Own, Reads, Saved, Residue, IsApplied, AfterPrecommit, BeforeBackup,
           Critical, localVars
  <1> QED BY <1>3, <1>5

LEMMA BackupWrittenKeeps ==
  ASSUME MigrationInv, NEW m \in Migrations, BackupWritten(m)
  PROVE  MigrationInv'
  <1>1. TypeOK /\ Own(m) /\ ~IsApplied(m)
    BY DEF MigrationInv, Own, Reads, BackupWritten, IsApplied
  <1> DEFINE Whole(b) == IF b.by = m THEN [b EXCEPT !.whole = TRUE] ELSE b
  <1>2. CASE Goto(m, "tempOpen") /\ backups' = {Whole(b) : b \in backups}
    <2>1. \A b \in Backups : /\ Whole(b) \in Backups /\ Whole(b).by = b.by
                             /\ Whole(b).text = b.text /\ (b.by = m => Whole(b).whole)
      BY DEF Backups
    <2>2. backups' \subseteq Backups
      BY <1>1, <1>2, <2>1 DEF TypeOK
    <2>3. \A b \in Backups : b.by # m => (b \in backups' <=> b \in backups)
      BY <1>1, <1>2, <2>1 DEF TypeOK
    <2>4. phase'[m] = "tempOpen" /\ (Own(m)' => MigrationInv')
      BY <1>2, <2>2, <2>3, BackupStep DEF BackupWritten, Phases, Critical
    <2>5. \A c \in BackupOf(m)' : c.whole
      BY <1>1, <1>2, <2>1 DEF TypeOK, BackupOf
    <2>6. PICK b \in BackupOf(m) : b.text = base[m]
      BY <1>1 DEF Own, Saved, BackupWritten
    <2>7. Whole(b) \in BackupOf(m)' /\ Whole(b).whole /\ Whole(b).text = base[m]
      BY <1>1, <1>2, <2>1, <2>6 DEF TypeOK, BackupOf
    <2>8. Reads(m)' /\ Saved(m)'
      BY <1>1, <2>4, <2>7
         DEF BackupWritten, Own, Reads, Saved, IsApplied, AfterPrecommit, Critical, localVars
    <2>9. Residue(m)'
      BY <1>1, <2>4, <2>5 DEF BackupWritten, Own, Residue, BeforeBackup, Critical
    <2> QED BY <2>4, <2>8, <2>9 DEF Own
  <1>3. CASE Goto(m, "backupUndo") /\ UNCHANGED backups
    <2>1. phase'[m] = "backupUndo" /\ BackupOf(m)' = BackupOf(m) /\ (Own(m)' => MigrationInv')
      BY <1>3, Stride DEF BackupWritten, Phases, Critical
    <2>2. Own(m)'
      BY <1>1, <2>1
         DEF BackupWritten, Own, Reads, Saved, Residue, IsApplied, AfterPrecommit,
             BeforeBackup, Critical, localVars
    <2> QED BY <2>1, <2>2
  <1> QED BY <1>2, <1>3 DEF BackupWritten

\* rm of the backup, after a failed write or for a conflict.
LEMMA BackupRemovedKeeps ==
  ASSUME MigrationInv, NEW m \in Migrations, BackupUndone(m) \/ BackupDiscarded(m)
  PROVE  MigrationInv'
  <1>1. TypeOK /\ Own(m) /\ ~IsApplied(m) /\ phase[m] \in {"backupUndo", "backupDiscard"}
    BY DEF MigrationInv, Own, Reads, BackupUndone, BackupDiscarded, IsApplied
  <1>2. /\ RemoveBackup(m) /\ Goto(m, "release")
        /\ UNCHANGED <<settings, lock, temp, localVars>>
        /\ verdict' = verdict \/ verdict' = [verdict EXCEPT ![m] = "aborted"]
    BY DEF BackupUndone, BackupDiscarded, Leave
  <1>3. ~IsApplied(m)'
    BY <1>1, <1>2 DEF TypeOK, IsApplied
  <1>4. /\ backups' \subseteq Backups
        /\ \A b \in Backups : b.by # m => (b \in backups' <=> b \in backups)
    BY <1>1, <1>2 DEF RemoveBackup, BackupOf, TypeOK
  <1>5. phase'[m] = "release" /\ (Own(m)' => MigrationInv')
    BY <1>1, <1>2, <1>4, BackupStep DEF Phases, Critical, Verdicts
  <1>6. "rm" \notin Faults => BackupOf(m)' = {}
    BY <1>2 DEF RemoveBackup, BackupOf
  <1>7. Reads(m)' /\ Saved(m)'
    BY <1>1, <1>2, <1>3, <1>5
       DEF Own, Reads, Saved, AfterPrecommit, Critical, localVars
  <1>8. Residue(m)'
    BY <1>1, <1>2, <1>5, <1>6 DEF Own, Residue, BeforeBackup, Critical
  <1> QED BY <1>5, <1>7, <1>8 DEF Own

------------------------------------------------------------------------------
(* The temp file and the rename.                                           *)

\* A step of the lock's holder that changes no file but its temp file.
LEMMA TempStep ==
  ASSUME MigrationInv, NEW m \in Migrations, NEW p \in Phases, Goto(m, p),
         phase[m] \in Critical,
         verdict' = verdict \/ \E v \in Verdicts : verdict' = [verdict EXCEPT ![m] = v],
         temp' = temp
           \/ \E t \in {"none", "partial", "full"} : temp' = [temp EXCEPT ![m] = t],
         UNCHANGED <<settings, lock, backups, localVars>>
  PROVE  /\ phase'[m] = p /\ BackupOf(m)' = BackupOf(m)
         /\ Own(m)' => MigrationInv'
  <1>1. TypeOK
    BY DEF MigrationInv
  <1>2. /\ temp' \in [Migrations -> {"none", "partial", "full"}]
        /\ \A n \in Migrations \ {m} : temp'[n] = temp[n]
    BY <1>1 DEF TypeOK
  <1>3. verdict = [verdict EXCEPT ![m] = verdict[m]] /\ verdict[m] \in Verdicts
    BY <1>1 DEF TypeOK
  <1>4. PICK v \in Verdicts : verdict' = [verdict EXCEPT ![m] = v]
    BY <1>3
  <1> QED BY <1>1, <1>2, <1>4, Walk DEF TypeOK, localVars

LEMMA TempKeeps ==
  ASSUME MigrationInv, NEW m \in Migrations,
         TempOpened(m) \/ TempWritten(m) \/ Verified(m) \/ RenameFails(m)
  PROVE  MigrationInv'
  <1>1. TypeOK /\ Own(m) /\ ~IsApplied(m)
    BY DEF MigrationInv, Own, Reads, IsApplied, TempOpened, TempWritten, Verified,
           RenameFails
  <1>2. /\ phase[m] \in {"tempOpen", "tempWrite", "verify", "rename"}
        /\ UNCHANGED <<settings, lock, backups, localVars>>
    BY DEF TempOpened, TempWritten, Verified, RenameFails
  <1>3. PICK p \in {"tempWrite", "release", "verify", "tempUndo", "rename"} :
             /\ Goto(m, p)
             /\ p = "release" => /\ phase[m] = "tempOpen" /\ temp' = temp
                                 /\ verdict' = [verdict EXCEPT ![m] = "aborted"]
             /\ temp' = temp
                  \/ \E t \in {"none", "partial", "full"} : temp' = [temp EXCEPT ![m] = t]
             /\ verdict' = verdict \/ \E v \in Verdicts \ {"applied"} :
                                        verdict' = [verdict EXCEPT ![m] = v]
    BY DEF TempOpened, TempWritten, Verified, RenameFails, Leave, Throw, Verdicts
  <1>4. phase'[m] = p /\ BackupOf(m)' = BackupOf(m) /\ (Own(m)' => MigrationInv')
    BY <1>2, <1>3, TempStep DEF Phases, Critical
  <1>5. ~IsApplied(m)' /\ (p = "release" => verdict'[m] = "aborted")
    BY <1>1, <1>3 DEF TypeOK, IsApplied
  <1>6. Reads(m)' /\ Saved(m)'
    BY <1>1, <1>2, <1>3, <1>4, <1>5
       DEF Own, Reads, Saved, AfterPrecommit, Critical, localVars
  <1>7. Residue(m)'
    BY <1>1, <1>2, <1>3, <1>4, <1>5 DEF Own, Residue, BeforeBackup, Critical
  <1> QED BY <1>4, <1>6, <1>7 DEF Own

LEMMA TempUndoneKeeps ==
  ASSUME MigrationInv, NEW m \in Migrations, TempUndone(m)
  PROVE  MigrationInv'
  <1>1. TypeOK /\ Own(m) /\ ~IsApplied(m)
    BY DEF MigrationInv, Own, Reads, TempUndone, IsApplied
  <1>2. PICK p \in {"backupDiscard", "release"} :
             Goto(m, p) /\ (p = "release" => verdict[m] # "conflict")
    BY DEF TempUndone
  <1>3. phase'[m] = p /\ BackupOf(m)' = BackupOf(m) /\ (Own(m)' => MigrationInv')
    BY <1>2, TempStep DEF TempUndone, Phases, Critical
  <1>4. "rm" \notin Faults => temp'[m] = "none"
    BY <1>1 DEF TempUndone, TypeOK
  <1>5. Reads(m)' /\ Saved(m)'
    BY <1>1, <1>2, <1>3
       DEF TempUndone, Own, Reads, Saved, IsApplied, AfterPrecommit, Critical, localVars
  <1>6. Residue(m)'
    BY <1>1, <1>2, <1>3, <1>4 DEF TempUndone, Own, Residue, BeforeBackup, Critical
  <1> QED BY <1>3, <1>5, <1>6 DEF Own

\* The commit: the parsed document is the replaced one, so its offsets fit.
LEMMA RenamedKeeps ==
  ASSUME MigrationInv, NEW m \in Migrations, Renamed(m)
  PROVE  MigrationInv'
  <1>1. TypeOK /\ Own(m)
    BY DEF MigrationInv
  <1>2. base[m] = parsed[m] /\ base[m] \in Texts
    BY <1>1 DEF Own, Reads, Renamed, AfterPrecommit, TypeOK
  <1>3. settings' \in Texts /\ NeverGarbled'
    BY <1>2 DEF Renamed, Spliced, Texts, Shapes, NeverGarbled
  <1>4. phase'[m] = "release" /\ verdict'[m] = "applied" /\ temp'[m] = "none"
    BY <1>1 DEF Renamed, Leave, Goto, TypeOK
  <1>5. TypeOK'
    BY <1>1, <1>3 DEF Renamed, Leave, Goto, TypeOK, Phases, Critical, Verdicts, localVars
  <1>6. OthersUntouched(m) /\ BackupOf(m)' = BackupOf(m)
    BY <1>1 DEF Renamed, Leave, Goto, TypeOK, OthersUntouched, Untouched, BackupOf, localVars
  <1>7. LockStep(m)
    BY DEF Renamed, LockStep, Critical
  <1>8. Reads(m)' /\ Saved(m)'
    BY <1>1, <1>2, <1>4, <1>6
       DEF Renamed, Own, Reads, Saved, IsApplied, AfterPrecommit, Critical, localVars
  <1>9. Residue(m)'
    BY <1>1, <1>4, <1>6 DEF Renamed, Own, Residue, BeforeBackup, Critical
  <1> QED BY <1>3, <1>5, <1>6, <1>7, <1>8, <1>9, OneMigration DEF Own

------------------------------------------------------------------------------
(* The others, and the theorems.                                           *)

LEMMA DiesKeeps ==
  ASSUME MigrationInv, NEW m \in Migrations, MigrationDies(m)
  PROVE  MigrationInv'
  <1>1. TypeOK /\ Own(m)
    BY DEF MigrationInv
  <1>2. phase'[m] = "dead" /\ BackupOf(m)' = BackupOf(m) /\ (Own(m)' => MigrationInv')
    BY Stride DEF MigrationDies, Phases, Critical
  <1>3. Own(m)'
    BY <1>1, <1>2
       DEF MigrationDies, Underway, Own, Reads, Saved, Residue, IsApplied, AfterPrecommit,
           BeforeBackup, Critical, localVars
  <1> QED BY <1>2, <1>3

LEMMA EditKeeps ==
  ASSUME MigrationInv, Edit
  PROVE  MigrationInv'
  <1>1. settings' \in Texts /\ NeverGarbled'
    BY MigrationAssumption DEF Edit, Texts, Shapes, NeverGarbled
  <1>2. TypeOK' /\ LockIsHeld'
    BY <1>1 DEF MigrationInv, Edit, TypeOK, LockIsHeld, localVars
  <1>3. \A m \in Migrations : Untouched(m)
    BY DEF Edit, Untouched, BackupOf, localVars
  <1> QED BY <1>1, <1>2, <1>3, UntouchedKeeps DEF MigrationInv

LEMMA StepKeeps == MigrationInv /\ [Next]_vars => MigrationInv'
  <1> SUFFICES ASSUME MigrationInv, [Next]_vars PROVE MigrationInv'
    OBVIOUS
  <1>1. CASE UNCHANGED vars
    <2>1. TypeOK' /\ LockIsHeld' /\ NeverGarbled'
      BY <1>1 DEF MigrationInv, vars, localVars, TypeOK, LockIsHeld, NeverGarbled
    <2>2. \A m \in Migrations : Untouched(m)
      BY <1>1 DEF vars, localVars, Untouched, BackupOf
    <2> QED BY <2>1, <2>2, UntouchedKeeps DEF MigrationInv
  <1>2. ASSUME NEW m \in Migrations, Prepares(m) PROVE MigrationInv'
    BY <1>2, PrepareKeeps, FirstReadKeeps, LockTakenKeeps, UnlockKeeps, PrecommitKeeps
       DEF Prepares
  <1>3. ASSUME NEW m \in Migrations, BacksUp(m) PROVE MigrationInv'
    BY <1>3, BackupOpenedKeeps, BackupRefusedKeeps, BackupWrittenKeeps, BackupRemovedKeeps
       DEF BacksUp
  <1>4. ASSUME NEW m \in Migrations, Publishes(m) PROVE MigrationInv'
    BY <1>4, TempKeeps, RenamedKeeps, TempUndoneKeeps, BackupRemovedKeeps, UnlockKeeps
       DEF Publishes
  <1>5. ASSUME NEW m \in Migrations, DryRun(m) \/ Apply(m) \/ MigrationDies(m)
        PROVE  MigrationInv'
    BY <1>5, DryRunKeeps, ApplyKeeps, DiesKeeps
  <1> QED BY <1>1, <1>2, <1>3, <1>4, <1>5, EditKeeps DEF Next, Continues

LEMMA MigrationInvariant == Spec => []MigrationInv
  BY InitKeeps, StepKeeps, PTL DEF Spec

\* Every variable of a migration keeps its type (src/migration.ts, src/migration-fs.ts).
THEOREM MigrationTypes == Spec => []TypeOK
  BY MigrationInvariant, PTL DEF MigrationInv

\* At most one migration is between the creation of the lock file and its removal,
\* however many run and whatever fails (acquireLock, releaseLock).
THEOREM MigrationsExclude == Spec => []LockIsHeld
  BY MigrationInvariant, PTL DEF MigrationInv

\* The splice never uses the offsets of another text (targetSplice).
THEOREM SplicesFit == Spec => []NeverGarbled
  BY MigrationInvariant, PTL DEF MigrationInv

\* An applied migration has a whole backup of the document it read last and computed
\* its removal from (writeBackup).
THEOREM AppliedHasBackup == Spec => []AppliedIsRecoverable
  <1>1. MigrationInv => AppliedIsRecoverable
    BY DEF MigrationInv, Own, Saved, IsApplied, BackupOf, AppliedIsRecoverable
  <1> QED BY <1>1, MigrationInvariant, PTL

\* The document an applied migration read last, and computed its removal from, is the
\* one its revision names (applyMigration).
THEOREM AppliedWasReviewed == Spec => []ReviewedIsReplaced
  <1>1. MigrationInv => ReviewedIsReplaced
    BY DEF MigrationInv, Own, Reads, IsApplied, ReviewedIsReplaced
  <1> QED BY <1>1, MigrationInvariant, PTL

\* A migration that ended left no temp file, no lock, no partial backup and, after a
\* conflict, no backup, where rm works (the catch and finally blocks).
THEOREM EndedLeavesNothing == Spec => []EndingsAreClean
  <1>1. MigrationInv => EndingsAreClean
    BY DEF MigrationInv, Own, Residue, EndingsAreClean, Critical
  <1> QED BY <1>1, MigrationInvariant, PTL
===============================================================================
