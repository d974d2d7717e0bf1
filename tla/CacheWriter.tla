----------------------------- MODULE CacheWriter -----------------------------
(***************************************************************************)
(* writeCacheAtomic (src/cache.ts): write a private temp file, flush it,   *)
(* rename it over the cache file.  One writer per refresh attempt; several *)
(* writers may be active at once only when several processes share a home. *)
(*                                                                         *)
(* Every file operation is awaited, so it has three moments: it is issued, *)
(* it takes effect (FsOpLands) or fails (FsOpFails), and the function      *)
(* resumes (WriterContinues), looking at the abort signal before it issues *)
(* the next one.  Generation n is the envelope attempt n writes; 0 is the  *)
(* absence of a cache file.  A power loss keeps what was flushed: a file   *)
(* whose data was not fsynced may come back torn, and the directory entry  *)
(* of an unflushed rename may come back as the one before it.              *)
(***************************************************************************)
EXTENDS OwnerSignal, Naturals

CONSTANT Faults        \* what may go wrong: a file operation ("op"), the removal
                       \* of a temp file ("rm"), the power supply ("power"),
                       \* the process ("crash"), the reading of a cache file
                       \* at start ("refuse")

ASSUME FaultsAssumption == Faults \subseteq {"op", "rm", "power", "crash", "refuse"}
ASSUME GenerationsAssumption == Attempts \subseteq Nat \ {0}

VARIABLES
    write,       \* attempt -> the operation issued, or how the write ended
    landed,      \* attempt -> has the issued operation taken effect?
    temp,        \* attempt -> its temp file
    disk,        \* the cache file, as a running program reads it
    lingering    \* older directory entries a power loss may bring back

writerVars == <<write, landed, temp, disk, lingering>>

FsOps == {"mkdir", "open", "writeFile", "sync", "close", "rename"}

Endings == {"committed", "notCommitted", "dead"}

TempStates == {"none", "empty", "full", "flushed"}

\* A version of the cache file: its generation, and whether its bytes would
\* survive a power loss.
Versions == [gen : Attempts \cup {0}, data : {"whole", "unflushed", "torn"}]

NoFile == [gen |-> 0, data |-> "whole"]

Writing(n) == write[n] \in FsOps \cup {"cleanup"}

WriterInit ==
    /\ write = [n \in Attempts |-> "unborn"]
    /\ landed = [n \in Attempts |-> FALSE]
    /\ temp = [n \in Attempts |-> "none"]
    /\ disk = NoFile
    /\ lingering = {}

Issue(n, op) ==
    /\ write' = [write EXCEPT ![n] = op]
    /\ landed' = [landed EXCEPT ![n] = FALSE]

\* Wrong variant: rename without the fsync of the data.
NextOpUnflushed == [mkdir |-> "open", open |-> "writeFile", writeFile |-> "close",
                    sync |-> "close", close |-> "rename"]

NextOp == [mkdir |-> "open", open |-> "writeFile", writeFile |-> "sync",
           sync |-> "close", close |-> "rename"]

\* The version a rename of temp file n publishes.
Published(n) ==
    [gen |-> n, data |-> IF temp[n] = "flushed" THEN "whole" ELSE "unflushed"]

\* A version as the machine finds it when the power is back.
Recovered(v) == IF v.data = "whole" THEN v ELSE [v EXCEPT !.data = "torn"]

------------------------------------------------------------------------------
(* The actions.                                                            *)

\* The call: an aborted write is refused before the first operation.
BeginWrite(n) ==
    /\ write[n] = "unborn"
    /\ IF n \in aborted THEN Issue(n, "notCommitted") ELSE Issue(n, "mkdir")
    /\ UNCHANGED <<temp, disk, lingering>>

\* Wrong variant: a rename that copies, the temp file staying in place.
TempAfterCopy(n) ==
    IF write[n] = "open" THEN "empty"
    ELSE IF write[n] = "writeFile" THEN "full"
    ELSE IF write[n] = "sync" THEN "flushed" ELSE temp[n]

\* What an operation does to the temp file (open "wx", writeFile, sync).
TempAfter(n) ==
    IF write[n] = "open" THEN "empty"
    ELSE IF write[n] = "writeFile" THEN "full"
    ELSE IF write[n] = "sync" THEN "flushed"
    ELSE IF write[n] = "rename" THEN "none" ELSE temp[n]

\* The issued operation takes effect; the effect of rename is the commit.
FsOpLands(n) ==
    /\ write[n] \in FsOps
    /\ ~landed[n]
    /\ landed' = [landed EXCEPT ![n] = TRUE]
    /\ temp' = [temp EXCEPT ![n] = TempAfter(n)]
    /\ IF write[n] = "rename"
       THEN disk' = Published(n) /\ lingering' = lingering \cup {disk}
       ELSE UNCHANGED <<disk, lingering>>
    /\ UNCHANGED <<aborted, write>>

\* The issued operation fails without effect: the catch block takes over.
FsOpFails(n) ==
    /\ "op" \in Faults
    /\ write[n] \in FsOps
    /\ ~landed[n]
    /\ Issue(n, "cleanup")
    /\ UNCHANGED <<aborted, temp, disk, lingering>>

\* Wrong variant: the signal is looked at after the rename as well.
WriterContinuesLateCheck(n) ==
    /\ write[n] \in FsOps
    /\ landed[n]
    /\ IF n \in aborted THEN Issue(n, "cleanup")
       ELSE IF write[n] = "rename" THEN Issue(n, "committed")
       ELSE Issue(n, NextOp[write[n]])
    /\ UNCHANGED <<aborted, temp, disk, lingering>>

\* Wrong variant: the signal is looked at on entry only.
WriterContinuesUnchecked(n) ==
    /\ write[n] \in FsOps
    /\ landed[n]
    /\ Issue(n, IF write[n] = "rename" THEN "committed" ELSE NextOp[write[n]])
    /\ UNCHANGED <<aborted, temp, disk, lingering>>

\* The function resumes: after rename it reports the commit whatever the
\* signal says; before it, an aborted signal sends it to the catch block.
WriterContinues(n) ==
    /\ write[n] \in FsOps
    /\ landed[n]
    /\ IF write[n] = "rename" THEN Issue(n, "committed")
       ELSE IF n \in aborted THEN Issue(n, "cleanup")
       ELSE Issue(n, NextOp[write[n]])
    /\ UNCHANGED <<aborted, temp, disk, lingering>>

\* The catch block: close, remove the temp file (a failing rm is swallowed),
\* rethrow.  The caller counts the throw as "not committed".
CleanUp(n) ==
    /\ write[n] = "cleanup"
    /\ \/ temp' = [temp EXCEPT ![n] = "none"]
       \/ ("rm" \in Faults /\ UNCHANGED temp)
    /\ Issue(n, "notCommitted")
    /\ UNCHANGED <<aborted, disk, lingering>>

\* The detached directory fsync of some commit succeeds: the current entry is
\* the only one a power loss can find.  It may also never happen.
DirectoryFlushed ==
    /\ lingering # {}
    /\ lingering' = {}
    /\ UNCHANGED <<aborted, write, landed, temp, disk>>

\* The process of every active writer in W dies: temp files stay behind.
WritersDie(W) ==
    write' = [n \in Attempts |-> IF n \in W /\ Writing(n) THEN "dead" ELSE write[n]]

\* The machine loses power and comes back with some directory entry.
PowerLoss ==
    /\ "power" \in Faults
    /\ WritersDie(Attempts)
    /\ \E v \in lingering \cup {disk} : disk' = Recovered(v)
    /\ lingering' = {}
    /\ UNCHANGED <<aborted, landed, temp>>

\* One writing process is killed; the others go on.
WriterKilled(n) ==
    /\ "crash" \in Faults
    /\ Writing(n)
    /\ WritersDie({n})
    /\ UNCHANGED <<aborted, landed, temp, disk, lingering>>

\* The owner of attempt n gives up.
WriterAborted(n) ==
    /\ n \in Abortable
    /\ AbortSignal(n)
    /\ UNCHANGED writerVars

WriterNext ==
    \/ \E n \in Attempts :
        \/ BeginWrite(n) /\ UNCHANGED aborted
        \/ FsOpLands(n)
        \/ FsOpFails(n)
        \/ WriterContinues(n)
        \/ CleanUp(n)
        \/ WriterKilled(n)
        \/ WriterAborted(n)
    \/ DirectoryFlushed
    \/ PowerLoss

\* File operations complete and the event loop runs; failures, aborts, the
\* directory flush and the power supply promise nothing.
WriterFairness ==
    \A n \in Attempts :
        /\ WF_<<aborted, writerVars>>(FsOpLands(n) \/ FsOpFails(n))
        /\ WF_<<aborted, writerVars>>(WriterContinues(n))
        /\ WF_<<aborted, writerVars>>(CleanUp(n))

FileInit == SignalInit /\ WriterInit

WriterSpec ==
    FileInit /\ [][WriterNext]_<<aborted, writerVars>> /\ WriterFairness

------------------------------------------------------------------------------
(* Properties.                                                             *)

\* The type of the writer's state.
WriterTypeOK ==
    /\ aborted \subseteq Attempts
    /\ write \in [Attempts -> FsOps \cup Endings \cup {"unborn", "cleanup"}]
    /\ landed \in [Attempts -> BOOLEAN]
    /\ temp \in [Attempts -> TempStates]
    /\ disk \in Versions
    /\ lingering \subseteq Versions

\* Whatever fails, whoever dies and whenever the power goes, the cache file is
\* absent or a complete envelope, and so is every version a power loss could
\* bring back: fsync precedes rename in every path (writeCacheAtomic).
TargetAlwaysWhole == \A v \in lingering \cup {disk} : v.data = "whole"

\* A write that reports a failure has published nothing, also when the abort arrives
\* while its rename is running: every version on disk, now or after a power loss,
\* comes from a write that reports committed, is about to, or died before it could
\* (writeCacheAtomic looks at the signal before the rename and not after it).
CommitReportIsTrue ==
    \A v \in lingering \cup {disk} :
        \/ v = NoFile
        \/ write[v.gen] \in {"committed", "dead"}
        \/ write[v.gen] = "rename" /\ landed[v.gen]

\* A write that ended leaves no temp file behind, unless rm itself failed or the
\* process died (nothing ever removes the temp file of a dead process).
NoTempResidue ==
    \A n \in Attempts :
        \/ temp[n] = "none"
        \/ Writing(n)
        \/ write[n] = "dead"
        \/ (write[n] = "notCommitted" /\ "rm" \in Faults)

\* An aborted write issues no further operation: it only cleans up and ends.
AbortStopsWrite ==
    [][\A n \in aborted : write'[n] # write[n] => write'[n] \notin FsOps
      ]_<<aborted, writerVars>>

==============================================================================
