------------------------------- MODULE Migration -------------------------------
(***************************************************************************)
(* dryRunMigration and applyMigration (src/migration.ts) on the file       *)
(* operations of src/migration-fs.ts: several processes remove the legacy  *)
(* provider block from one settings file, while an editor (or the Host's   *)
(* own settings service) saves it as it likes.                             *)
(*                                                                         *)
(* Every await of a migration is one file operation; an action here is     *)
(* that operation taking effect and the code up to the next one, which     *)
(* touches nothing shared.  A document is what the properties tell apart:  *)
(* the shape parseSettings finds and an identity of the rest of its text;  *)
(* the revision (SHA-256 of the bytes) is the document itself.             *)
(***************************************************************************)
EXTENDS Naturals

CONSTANTS
    Migrations,     \* the calls of applyMigration, each a process of its own
    Rests,          \* the texts around the legacy block
    Documents,      \* the documents somebody saves
    Stamps,         \* the backup timestamps the clock may yield
    Faults          \* what may go wrong: a read of the settings ("read"), another
                    \* file operation ("op"), a removal ("rm"), a process ("crash")


VARIABLES
    settings,       \* the settings file
    lock,           \* the migration whose lock file exists, as a set
    backups,        \* the backup files
    temp,           \* migration -> its temp file
    phase,          \* migration -> the file operation it awaits
    approved,       \* migration -> the document of --revision, as a set
    parsed,         \* migration -> the document parseSettings analysed
    base,           \* migration -> the document of the precommit read
    verdict         \* migration -> what it returns

vars == <<settings, lock, backups, temp, phase, approved, parsed, base, verdict>>
localVars == <<approved, parsed, base>>

\* "refused": malformed, of a wrong node type, or an unsupported shape;
\* "garbled": spliced at offsets that belong to another text.
Shapes == {"legacy", "clean", "refused"}
Texts == [shape : Shapes \cup {"garbled"}, rest : Rests]

ASSUME MigrationAssumption ==
    /\ Documents \subseteq [shape : Shapes, rest : Rests]
    /\ Faults \subseteq {"read", "op", "rm", "crash"}

Backups == [stamp : Stamps, by : Migrations, whole : BOOLEAN, text : Texts]

\* The phases in which a migration holds the lock.
Critical == {"lockClose", "lockUndo", "precommit", "backupOpen", "backupWrite",
             "backupUndo", "tempOpen", "tempWrite", "verify", "rename", "tempUndo",
             "backupDiscard", "release"}

Phases == {"idle", "reviewed", "read", "lock", "ended", "dead"} \cup Critical

Verdicts == {"none", "no-change", "conflict", "aborted", "locked", "applied"}

Underway(m) == phase[m] \in {"read", "lock"} \cup Critical

BackupOf(m) == {b \in backups : b.by = m}

Init ==
    /\ settings \in Documents
    /\ lock = {} /\ backups = {}
    /\ temp = [m \in Migrations |-> "none"]
    /\ phase = [m \in Migrations |-> "idle"]
    /\ approved = [m \in Migrations |-> {}]
    /\ parsed = [m \in Migrations |-> settings]
    /\ base = [m \in Migrations |-> settings]
    /\ verdict = [m \in Migrations |-> "none"]

Goto(m, p) == phase' = [phase EXCEPT ![m] = p]

\* return before the lock was taken, or after it was released.
Return(m, v) == Goto(m, "ended") /\ verdict' = [verdict EXCEPT ![m] = v]

\* return inside the try block: its finally releases the lock first.
Leave(m, v) == Goto(m, "release") /\ verdict' = [verdict EXCEPT ![m] = v]

\* throw inside writeTextAtomic: its catch block removes the temp file first.
Throw(m, v) == Goto(m, "tempUndo") /\ verdict' = [verdict EXCEPT ![m] = v]

\* targetSplice and spliceOut: the block is cut from `text` at the offsets of the
\* document that was parsed.
Spliced(text, of) ==
    [shape |-> IF text = of THEN "clean" ELSE "garbled", rest |-> text.rest]

------------------------------------------------------------------------------
(* The operations up to the lock.                                          *)

\* dryRunMigration would remove something: its revision is what the user passes on.
DryRun(m) ==
    /\ phase[m] = "idle"
    /\ settings.shape = "legacy"
    /\ approved' = [approved EXCEPT ![m] = {settings}]
    /\ Goto(m, "reviewed")
    /\ UNCHANGED <<settings, lock, backups, temp, parsed, base, verdict>>

\* applyMigration is called, with the reviewed revision or without one.
Apply(m) ==
    /\ phase[m] \in {"idle", "reviewed"}
    /\ Goto(m, "read")
    /\ UNCHANGED <<settings, lock, backups, temp, localVars, verdict>>

ReadFails(m) ==
    /\ "read" \in Faults
    /\ phase[m] = "read"
    /\ Return(m, "aborted")
    /\ UNCHANGED <<settings, lock, backups, temp, localVars>>

\* Wrong variant: the reviewed revision is not compared.
FirstReadUnreviewed(m) ==
    /\ phase[m] = "read"
    /\ parsed' = [parsed EXCEPT ![m] = settings]
    /\ IF settings.shape \in {"refused", "garbled"} THEN Return(m, "aborted")
       ELSE IF settings.shape = "clean" THEN Return(m, "no-change")
       ELSE Goto(m, "lock") /\ UNCHANGED verdict
    /\ UNCHANGED <<settings, lock, backups, temp, approved, base>>

\* The first read: parse, then compare the reviewed revision.
FirstRead(m) ==
    /\ phase[m] = "read"
    /\ parsed' = [parsed EXCEPT ![m] = settings]
    /\ IF settings.shape \in {"refused", "garbled"} THEN Return(m, "aborted")
       ELSE IF settings.shape = "clean" THEN Return(m, "no-change")
       ELSE IF approved[m] \notin {{}, {settings}} THEN Return(m, "conflict")
       ELSE Goto(m, "lock") /\ UNCHANGED verdict
    /\ UNCHANGED <<settings, lock, backups, temp, approved, base>>

\* acquireLock: open "wx" creates the lock file.
LockTaken(m) ==
    /\ phase[m] = "lock"
    /\ lock = {}
    /\ lock' = {m}
    /\ Goto(m, "lockClose")
    /\ UNCHANGED <<settings, backups, temp, localVars, verdict>>

\* Wrong variant: the catch block removes a lock file it did not create.
LockRefusedRemoved(m) ==
    /\ phase[m] = "lock"
    /\ lock # {} \/ "op" \in Faults
    /\ lock' = {}
    /\ Return(m, "locked")
    /\ UNCHANGED <<settings, backups, temp, localVars>>

\* ... it exists already, or cannot be created: both are reported as "locked".
LockRefused(m) ==
    /\ phase[m] = "lock"
    /\ lock # {} \/ "op" \in Faults
    /\ Return(m, "locked")
    /\ UNCHANGED <<settings, lock, backups, temp, localVars>>

\* close of the lock file's handle; failing, it sends the lock back.
LockClosed(m) ==
    /\ phase[m] = "lockClose"
    /\ \/ Goto(m, "precommit")
       \/ "op" \in Faults /\ Goto(m, "lockUndo")
    /\ UNCHANGED <<settings, lock, backups, temp, localVars, verdict>>

\* rm of the lock file: nothing in it says whose it is; a failing rm is swallowed.
RemoveLock == lock' = {} \/ ("rm" \in Faults /\ UNCHANGED lock)

LockUndone(m) ==
    /\ phase[m] = "lockUndo"
    /\ RemoveLock
    /\ Return(m, "locked")
    /\ UNCHANGED <<settings, backups, temp, localVars>>

------------------------------------------------------------------------------
(* Under the lock.                                                         *)

\* Wrong variant: the document is not compared with the one that was parsed.
PrecommitUnchecked(m) ==
    /\ phase[m] = "precommit"
    /\ base' = [base EXCEPT ![m] = settings]
    /\ Goto(m, "backupOpen")
    /\ UNCHANGED <<settings, lock, backups, temp, approved, parsed, verdict>>

\* The precommit read: the document must be the one that was parsed.
Precommit(m) ==
    /\ phase[m] = "precommit"
    /\ settings = parsed[m]
    /\ base' = [base EXCEPT ![m] = settings]
    /\ Goto(m, "backupOpen")
    /\ UNCHANGED <<settings, lock, backups, temp, approved, parsed, verdict>>

\* Wrong variant: a return outside the try block, past the release of the lock.
PrecommitRefusedUnreleased(m) ==
    /\ phase[m] = "precommit"
    /\ \/ settings # parsed[m] /\ Return(m, "conflict")
       \/ "read" \in Faults /\ Return(m, "aborted")
    /\ UNCHANGED <<settings, lock, backups, temp, localVars>>

PrecommitRefused(m) ==
    /\ phase[m] = "precommit"
    /\ \/ settings # parsed[m] /\ Leave(m, "conflict")
       \/ "read" \in Faults /\ Leave(m, "aborted")
    /\ UNCHANGED <<settings, lock, backups, temp, localVars>>

NewBackup(m, s) == [stamp |-> s, by |-> m, whole |-> FALSE, text |-> base[m]]

\* Wrong variant: open "w" empties a backup of the same timestamp.
BackupOpenedAnyway(m, s) ==
    /\ phase[m] = "backupOpen"
    /\ backups' = {b \in backups : b.stamp # s} \cup {NewBackup(m, s)}
    /\ Goto(m, "backupWrite")
    /\ UNCHANGED <<settings, lock, temp, localVars, verdict>>

\* writeBackup at timestamp s: open "wx" creates the backup file.
BackupOpened(m, s) ==
    /\ phase[m] = "backupOpen"
    /\ \A b \in backups : b.stamp # s
    /\ backups' = backups \cup {NewBackup(m, s)}
    /\ Goto(m, "backupWrite")
    /\ UNCHANGED <<settings, lock, temp, localVars, verdict>>

\* ... a backup of this timestamp exists, or none can be created.
BackupRefused(m, s) ==
    /\ phase[m] = "backupOpen"
    /\ (\E b \in backups : b.stamp = s) \/ "op" \in Faults
    /\ Leave(m, "aborted")
    /\ UNCHANGED <<settings, lock, backups, temp, localVars>>

\* Its bytes are written, flushed and closed, or one of these fails.
BackupWritten(m) ==
    /\ phase[m] = "backupWrite"
    /\ \/ /\ backups' = {IF b.by = m THEN [b EXCEPT !.whole = TRUE] ELSE b : b \in backups}
          /\ Goto(m, "tempOpen")
       \/ "op" \in Faults /\ Goto(m, "backupUndo") /\ UNCHANGED backups
    /\ UNCHANGED <<settings, lock, temp, localVars, verdict>>

RemoveBackup(m) ==
    \/ backups' = backups \ BackupOf(m)
    \/ "rm" \in Faults /\ UNCHANGED backups

BackupUndone(m) ==
    /\ phase[m] = "backupUndo"
    /\ RemoveBackup(m)
    /\ Leave(m, "aborted")
    /\ UNCHANGED <<settings, lock, temp, localVars>>

\* writeTextAtomic: the temp file is created; the backup stays when it cannot be.
TempOpened(m) ==
    /\ phase[m] = "tempOpen"
    /\ \/ /\ temp' = [temp EXCEPT ![m] = "partial"]
          /\ Goto(m, "tempWrite") /\ UNCHANGED verdict
       \/ "op" \in Faults /\ Leave(m, "aborted") /\ UNCHANGED temp
    /\ UNCHANGED <<settings, lock, backups, localVars>>

\* It is written, flushed, given the original mode and closed.
TempWritten(m) ==
    /\ phase[m] = "tempWrite"
    /\ \/ /\ temp' = [temp EXCEPT ![m] = "full"]
          /\ Goto(m, "verify") /\ UNCHANGED verdict
       \/ "op" \in Faults /\ Throw(m, "aborted") /\ UNCHANGED temp
    /\ UNCHANGED <<settings, lock, backups, localVars>>

\* verifyBeforeRename: the last read; an unreadable file is a conflict as well.
Verified(m) ==
    /\ phase[m] = "verify"
    /\ \/ settings = base[m] /\ Goto(m, "rename") /\ UNCHANGED verdict
       \/ (settings # base[m] \/ "read" \in Faults) /\ Throw(m, "conflict")
    /\ UNCHANGED <<settings, lock, backups, temp, localVars>>

\* The rename takes effect: this is the commit.
Renamed(m) ==
    /\ phase[m] = "rename"
    /\ settings' = Spliced(base[m], parsed[m])
    /\ temp' = [temp EXCEPT ![m] = "none"]
    /\ Leave(m, "applied")
    /\ UNCHANGED <<lock, backups, localVars>>

RenameFails(m) ==
    /\ "op" \in Faults
    /\ phase[m] = "rename"
    /\ Throw(m, "aborted")
    /\ UNCHANGED <<settings, lock, backups, temp, localVars>>

\* Wrong variant: a conflict keeps the backup this attempt made.
TempUndoneOnly(m) ==
    /\ phase[m] = "tempUndo"
    /\ \/ temp' = [temp EXCEPT ![m] = "none"]
       \/ "rm" \in Faults /\ UNCHANGED temp
    /\ Goto(m, "release")
    /\ UNCHANGED <<settings, lock, backups, localVars, verdict>>

\* The catch block of writeTextAtomic; only a conflict discards the backup too.
TempUndone(m) ==
    /\ phase[m] = "tempUndo"
    /\ \/ temp' = [temp EXCEPT ![m] = "none"]
       \/ "rm" \in Faults /\ UNCHANGED temp
    /\ Goto(m, IF verdict[m] = "conflict" THEN "backupDiscard" ELSE "release")
    /\ UNCHANGED <<settings, lock, backups, localVars, verdict>>

BackupDiscarded(m) ==
    /\ phase[m] = "backupDiscard"
    /\ RemoveBackup(m)
    /\ Goto(m, "release")
    /\ UNCHANGED <<settings, lock, temp, localVars, verdict>>

\* The finally block.
Released(m) ==
    /\ phase[m] = "release"
    /\ RemoveLock
    /\ Goto(m, "ended")
    /\ UNCHANGED <<settings, backups, temp, localVars, verdict>>

------------------------------------------------------------------------------
(* The others, and the specification.                                      *)

\* A migrating process is killed: its files stay.
MigrationDies(m) ==
    /\ "crash" \in Faults
    /\ Underway(m)
    /\ Goto(m, "dead")
    /\ UNCHANGED <<settings, lock, backups, temp, localVars, verdict>>

\* Somebody else saves the settings file.
Edit ==
    /\ settings' \in Documents \ {settings}
    /\ UNCHANGED <<lock, backups, temp, phase, localVars, verdict>>

Prepares(m) ==
    ReadFails(m) \/ FirstRead(m) \/ LockTaken(m) \/ LockRefused(m) \/ LockClosed(m)
        \/ LockUndone(m) \/ Precommit(m) \/ PrecommitRefused(m)

BacksUp(m) ==
    \/ \E s \in Stamps : BackupOpened(m, s) \/ BackupRefused(m, s)
    \/ BackupWritten(m) \/ BackupUndone(m)

Publishes(m) ==
    TempOpened(m) \/ TempWritten(m) \/ Verified(m) \/ Renamed(m) \/ RenameFails(m)
        \/ TempUndone(m) \/ BackupDiscarded(m) \/ Released(m)

Continues(m) == Prepares(m) \/ BacksUp(m) \/ Publishes(m)

Next ==
    \/ \E m \in Migrations : DryRun(m) \/ Apply(m) \/ Continues(m) \/ MigrationDies(m)
    \/ Edit

\* The file operations of a migration settle; nobody is obliged to start one.
Fairness == \A m \in Migrations : WF_vars(Continues(m))

Spec == Init /\ [][Next]_vars /\ Fairness

------------------------------------------------------------------------------
(* Properties.                                                             *)

\* The type of the state.
TypeOK ==
    /\ settings \in Texts
    /\ lock \in SUBSET Migrations
    /\ backups \subseteq Backups
    /\ temp \in [Migrations -> {"none", "partial", "full"}]
    /\ phase \in [Migrations -> Phases]
    /\ approved \in [Migrations -> SUBSET Texts]
    /\ parsed \in [Migrations -> Texts]
    /\ base \in [Migrations -> Texts]
    /\ verdict \in [Migrations -> Verdicts]

\* The lock file stays in place, and its holder's, from the open that created it
\* to the release: no refused, failing or finishing migration removes it meanwhile
\* (acquireLock), so that at most one migration is between its two reads and its
\* rename.
LockIsHeld == \A m \in Migrations : phase[m] \in Critical => lock = {m}

\* The document the removal was computed from can be recovered: an applied migration
\* has a whole backup of what it read last before it wrote, and no later migration,
\* whatever its timestamp, has overwritten or removed it (writeBackup, "fails closed").
\* An edit saved after that read is in no backup: LateEditIsRefused.
AppliedIsRecoverable ==
    \A m \in Migrations :
        verdict[m] = "applied" =>
            \E b \in backups : b.by = m /\ b.whole /\ b.text = base[m]

\* A migration that ended leaves no temp file, no lock of its own and no partial
\* backup, and a conflict leaves no backup at all (applyMigration: "creates no
\* backup, temp or lock residue"), unless rm failed.
EndingsAreClean ==
    "rm" \notin Faults =>
        \A m \in Migrations : phase[m] = "ended" =>
            /\ temp[m] = "none" /\ m \notin lock
            /\ \A b \in BackupOf(m) : b.whole /\ verdict[m] # "conflict"

\* The file is only ever cut at offsets that belong to its own text, although the
\* parse is older than the bytes it is applied to (targetSplice over precommit.text).
NeverGarbled == settings.shape # "garbled"

\* What was removed is what the user reviewed: the document an applied migration read
\* last and computed its removal from is the very one its revision names, two reads
\* and a lock later.  What the rename replaces may be newer: LateEditIsRefused.
ReviewedIsReplaced ==
    \A m \in Migrations :
        verdict[m] = "applied" => approved[m] \in {{}, {base[m]}}

\* The lock is not held for ever by a process that lives: however a migration ends,
\* its lock file goes (a dead process leaves it, and a failing rm).
LockIsFreed ==
    \A m \in Migrations : m \in lock ~> m \notin lock \/ phase[m] = "dead"

\* Stated by README.md:137 and src/migration.ts:187-190: a concurrent edit yields
\* a conflict, a late one "is refused instead of being overwritten".
LateEditIsRefused ==
    [][\A m \in Migrations : verdict'[m] = "applied" /\ verdict[m] # "applied" =>
            settings = base[m]]_vars
===============================================================================
