------------------------ MODULE CatalogHalves_proofs -------------------------
(***************************************************************************)
(* The halves of a catalog attempt, each on its own: for every set of      *)
(* attempts and every way the seams answer, the types of SyncAttempt and   *)
(* its state invariants; for every number of writers and every set of      *)
(* faults, the types of CacheWriter, that the cache file is whole whatever *)
(* happens, that the commit report is true, and that no ended write leaves *)
(* a temp file.                                                            *)
(***************************************************************************)
EXTENDS SyncAttempt, CacheWriter, TLAPS

(* SyncAttempt.  An attempt only ever touches its own part of the state,   *)
(* so everything is shown of the attempt that takes the step; OneAttempt   *)
(* says that the others keep what they had.                                *)

syncAll == <<aborted, syncVars>>

\* What the await points know about one attempt.
Awaiting(a) ==
    /\ seam[a] = "unborn" => cause[a] = "none" /\ owed[a] = {} /\ outcome[a] = "none"
    /\ Running(a) => race[a] # "none" /\ outcome[a] = "none"
    /\ ~Running(a) => race[a] = "none"
    \* while nothing was cancelled only the awaited seam owes an answer
    /\ Running(a) /\ cause[a] = "none" =>
           owed[a] = IF race[a] = "pending" THEN {seam[a]} ELSE {}
    /\ race[a] = "cancelled" => cause[a] # "none"
    \* the owner's abort reaches the fused signal of a running attempt
    /\ Running(a) /\ a \in aborted => cause[a] # "none"

Honest(a) ==
    /\ outcome[a] = "ok" => cause[a] = "none" /\ owed[a] = {}
    /\ outcome[a] \in {"TIMEOUT", "ABORTED"} => outcome[a] = cause[a]
    /\ outcome[a] = "FETCH_FAILED" => cause[a] = "none"
    /\ deadline[a] => Running(a)
    /\ Running(a) /\ ~deadline[a] => cause[a] # "none"

SyncInv == SyncTypeOK /\ \A a \in Attempts : Awaiting(a) /\ Honest(a)

\* The state of attempt b is what it was.
SameAttempt(b) ==
    /\ seam'[b] = seam[b] /\ race'[b] = race[b] /\ owed'[b] = owed[b]
    /\ cause'[b] = cause[b] /\ deadline'[b] = deadline[b] /\ outcome'[b] = outcome[b]
    /\ (b \in aborted' <=> b \in aborted)

LEMMA SameAttemptKeeps ==
  ASSUME NEW b \in Attempts, Awaiting(b), Honest(b), SameAttempt(b)
  PROVE  Awaiting(b)' /\ Honest(b)'
  BY DEF Awaiting, Honest, SameAttempt, Running

LEMMA SyncInitHolds == SignalInit /\ SyncInit => SyncInv
  BY DEF SignalInit, SyncInit, SyncInv, SyncTypeOK, Awaiting, Honest, Seams, RaceStates,
         Causes, Outcomes, SourceCodes, Running

\* The acting attempt, action by action: what a step leaves it with, from the
\* invariant of that attempt alone, is enough for the invariant of all.
LEMMA OneAttempt ==
  ASSUME SyncInv, NEW a \in Attempts, SyncTypeOK',
         \A b \in Attempts \ {a} : SameAttempt(b), Awaiting(a)', Honest(a)'
  PROVE  SyncInv'
  BY SameAttemptKeeps DEF SyncInv

\* The two endings of a step keep the types of what they change.
LEMMA ReturnTypes ==
  ASSUME SyncTypeOK, NEW a \in Attempts, NEW code \in Outcomes, ReturnWith(a, code),
         cause' \in [Attempts -> Causes], UNCHANGED aborted
  PROVE  SyncTypeOK'
  BY DEF SyncTypeOK, ReturnWith, RaceStates

LEMMA AskTypes ==
  ASSUME SyncTypeOK, NEW a \in Attempts, NEW s \in Seams, Ask(a, s),
         UNCHANGED <<aborted, cause>>, deadline' \in [Attempts -> BOOLEAN]
  PROVE  SyncTypeOK'
  BY DEF SyncTypeOK, Ask, RaceStates

LEMMA BeginTypes ==
  ASSUME SyncTypeOK, NEW a \in Attempts, BeginAttempt(a)
  PROVE  SyncTypeOK'
  <1>1. CASE a \in aborted
    <2>1. cause' \in [Attempts -> Causes]
      BY <1>1 DEF BeginAttempt, SyncTypeOK, Causes
    <2>2. "ABORTED" \in Outcomes
      BY DEF Outcomes, Causes
    <2> QED BY <1>1, <2>1, <2>2, ReturnTypes DEF BeginAttempt
  <1>2. CASE a \notin aborted
    <2>1. deadline' \in [Attempts -> BOOLEAN]
      BY <1>2 DEF BeginAttempt, SyncTypeOK
    <2>2. "key" \in Seams
      BY DEF Seams
    <2> QED BY <1>2, <2>1, <2>2, AskTypes DEF BeginAttempt
  <1> QED BY <1>1, <1>2

LEMMA BeginKeeps ==
  ASSUME SyncInv, NEW a \in Attempts, BeginAttempt(a)
  PROVE  SyncInv'
  <1>1. SyncTypeOK'
    BY BeginTypes DEF SyncInv
  <1>2. \A b \in Attempts \ {a} : SameAttempt(b)
    BY DEF SyncInv, SyncTypeOK, BeginAttempt, ReturnWith, Ask, SameAttempt
  <1>3. Awaiting(a)' /\ Honest(a)'
    <2> USE DEF SyncInv, SyncTypeOK, BeginAttempt, Awaiting, Honest, Running, Seams
    <2>1. CASE a \in aborted
      BY <2>1 DEF ReturnWith
    <2>2. CASE a \notin aborted
      BY <2>2 DEF Ask
    <2> QED BY <2>1, <2>2
  <1> QED BY <1>1, <1>2, <1>3, OneAttempt

LEMMA SettleTypes ==
  ASSUME SyncTypeOK, NEW a \in Attempts, NEW s \in Seams, NEW answer \in Answers,
         SeamSettles(a, s, answer)
  PROVE  SyncTypeOK'
  BY AnswersAssumption DEF SyncTypeOK, SeamSettles, RaceStates

LEMMA SettleKeeps ==
  ASSUME SyncInv, NEW a \in Attempts, NEW s \in Seams, NEW answer \in Answers,
         SeamSettles(a, s, answer)
  PROVE  SyncInv'
  <1>1. SyncTypeOK'
    BY SettleTypes DEF SyncInv
  <1>2. \A b \in Attempts \ {a} : SameAttempt(b)
    BY DEF SyncInv, SyncTypeOK, SeamSettles, SameAttempt
  <1>3. Awaiting(a)' /\ Honest(a)'
    BY AnswersAssumption
       DEF SyncInv, SyncTypeOK, SeamSettles, Awaiting, Honest, Running, Seams
  <1> QED BY <1>1, <1>2, <1>3, OneAttempt

LEMMA DeadlineTypes ==
  ASSUME SyncTypeOK, NEW a \in Attempts, DeadlineFires(a)
  PROVE  SyncTypeOK'
  BY DEF SyncTypeOK, DeadlineFires, Fuse, RaceStates, Causes

LEMMA DeadlineKeeps ==
  ASSUME SyncInv, NEW a \in Attempts, DeadlineFires(a)
  PROVE  SyncInv'
  <1>1. SyncTypeOK'
    BY DeadlineTypes DEF SyncInv
  <1>2. \A b \in Attempts \ {a} : SameAttempt(b)
    BY DEF SyncInv, SyncTypeOK, DeadlineFires, Fuse, SameAttempt
  <1>3. Awaiting(a)' /\ Honest(a)'
    BY DEF SyncInv, SyncTypeOK, DeadlineFires, Fuse, Awaiting, Honest, Running, Seams
  <1> QED BY <1>1, <1>2, <1>3, OneAttempt

LEMMA OwnerTypes ==
  ASSUME SyncTypeOK, NEW a \in Attempts, OwnerAborts(a)
  PROVE  SyncTypeOK'
  BY DEF SyncTypeOK, OwnerAborts, AbortSignal, Abortable, Fuse, RaceStates, Causes

LEMMA OwnerKeeps ==
  ASSUME SyncInv, NEW a \in Attempts, OwnerAborts(a)
  PROVE  SyncInv'
  <1>1. SyncTypeOK'
    BY OwnerTypes DEF SyncInv
  <1>2. \A b \in Attempts \ {a} : SameAttempt(b)
    BY DEF SyncInv, SyncTypeOK, OwnerAborts, AbortSignal, Fuse, SameAttempt
  <1>3. Awaiting(a)' /\ Honest(a)'
    BY DEF SyncInv, SyncTypeOK, OwnerAborts, AbortSignal, Fuse, Awaiting, Honest,
           Running, Seams
  <1> QED BY <1>1, <1>2, <1>3, OneAttempt

\* Every code the function can end with is an outcome.
LEMMA CodeTypes ==
  ASSUME SyncTypeOK, NEW a \in Attempts
  PROVE  /\ cause[a] \in Outcomes
         /\ AnswerCode(seam[a]) \in Outcomes /\ AnswerCode("key") \in Outcomes
         /\ ThrownCode(a) \in Outcomes /\ "ok" \in Outcomes
  BY DEF SyncTypeOK, Outcomes, Causes, SourceCodes, AnswerCode, ThrownCode

\* A resumed attempt returns with a code or asks the next seam.
LEMMA ContinueEndings ==
  ASSUME SyncTypeOK, NEW a \in Attempts, AttemptContinues(a)
  PROVE  \/ \E code \in Outcomes : ReturnWith(a, code)
         \/ /\ race[a] = "good" /\ cause[a] = "none"
            /\ \E s \in Seams : Ask(a, s) /\ UNCHANGED deadline
  <1>1. CASE ContinueWithValue(a)
    <2>1. seam[a] # "liveText" => NextSeam[seam[a]] \in Seams
      BY DEF AttemptContinues, Running, NextSeam, Seams
    <2> QED BY <1>1, <2>1, CodeTypes DEF ContinueWithValue
  <1>2. CASE ContinueWithBadValue(a)
    BY <1>2, CodeTypes DEF ContinueWithBadValue
  <1>3. CASE ContinueWithError(a)
    BY <1>3, CodeTypes DEF ContinueWithError
  <1>4. CASE ContinueCancelled(a)
    BY <1>4, CodeTypes DEF ContinueCancelled
  <1>5. CASE ContinueThrowing(a)
    BY <1>5, CodeTypes DEF ContinueThrowing
  <1> QED BY <1>1, <1>2, <1>3, <1>4, <1>5 DEF AttemptContinues

LEMMA ContinueTypes ==
  ASSUME SyncTypeOK, NEW a \in Attempts, AttemptContinues(a)
  PROVE  SyncTypeOK'
  <1>1. UNCHANGED <<aborted, cause>>
    BY DEF AttemptContinues
  <1>2. CASE \E code \in Outcomes : ReturnWith(a, code)
    BY <1>1, <1>2, ReturnTypes DEF SyncTypeOK
  <1>3. CASE \E s \in Seams : Ask(a, s) /\ UNCHANGED deadline
    BY <1>1, <1>3, AskTypes DEF SyncTypeOK
  <1> QED BY <1>2, <1>3, ContinueEndings

LEMMA AttemptContinuesKeeps ==
  ASSUME SyncInv, NEW a \in Attempts, AttemptContinues(a)
  PROVE  SyncInv'
  <1>1. SyncTypeOK'
    BY ContinueTypes DEF SyncInv
  <1>2. \A b \in Attempts \ {a} : SameAttempt(b)
    BY ContinueEndings DEF SyncInv, SyncTypeOK, AttemptContinues, ReturnWith, Ask,
                           SameAttempt
  <1>3. Awaiting(a)' /\ Honest(a)'
    <2>1. /\ SyncTypeOK /\ Running(a) /\ Awaiting(a) /\ Honest(a)
          /\ UNCHANGED <<aborted, cause>>
      BY DEF SyncInv, AttemptContinues
    <2>2. CASE ContinueWithValue(a)
      <3>1. CASE cause[a] # "none"
        BY <2>1, <2>2, <3>1 DEF ContinueWithValue, SyncTypeOK, ReturnWith, Awaiting,
                                Honest, Running, Seams, Causes
      <3>2. CASE cause[a] = "none" /\ seam[a] = "liveText"
        BY <2>1, <2>2, <3>2 DEF ContinueWithValue, SyncTypeOK, ReturnWith, Awaiting,
                                Honest, Running, Seams
      <3>3. CASE cause[a] = "none" /\ seam[a] # "liveText"
        <4> DEFINE s == NextSeam[seam[a]]
        <4>1. s \in Seams /\ Ask(a, s) /\ UNCHANGED deadline
          BY <2>1, <2>2, <3>3 DEF ContinueWithValue, Running, NextSeam, Seams
        <4>2. owed[a] = {}
          BY <2>1, <2>2, <3>3 DEF ContinueWithValue, Awaiting
        <4> HIDE DEF s
        <4>3. seam'[a] = s /\ race'[a] = "pending" /\ owed'[a] = {s}
          BY <2>1, <4>1, <4>2 DEF SyncTypeOK, Ask
        <4>4. outcome'[a] = outcome[a] /\ cause'[a] = cause[a] /\ deadline'[a] = deadline[a]
               /\ aborted' = aborted
          BY <2>1, <4>1 DEF Ask
        <4> QED
          BY <2>1, <3>3, <4>1, <4>3, <4>4 DEF Awaiting, Honest, Running, Seams
      <3> QED BY <3>1, <3>2, <3>3
    <2>3. CASE ContinueWithBadValue(a)
      BY <2>1, <2>3 DEF ContinueWithBadValue, AnswerCode, SyncTypeOK, ReturnWith,
                        Awaiting,
                        Honest, Running, Seams
    <2>4. CASE ContinueWithError(a)
      BY <2>1, <2>4 DEF ContinueWithError, AnswerCode, ThrownCode, SyncTypeOK, ReturnWith,
                        Awaiting, Honest, Running, Seams, Causes
    <2>5. CASE ContinueCancelled(a)
      BY <2>1, <2>5 DEF ContinueCancelled, SyncTypeOK, ReturnWith, Awaiting, Honest,
                        Running, Seams, Causes
    <2>6. CASE ContinueThrowing(a)
      BY <2>1, <2>6 DEF ContinueThrowing, ThrownCode, SyncTypeOK, ReturnWith, Awaiting,
                        Honest, Running, Seams, Causes
    <2> QED BY <2>2, <2>3, <2>4, <2>5, <2>6 DEF AttemptContinues
  <1> QED BY <1>1, <1>2, <1>3, OneAttempt

LEMMA SyncStutterKeeps == SyncInv /\ UNCHANGED syncAll => SyncInv'
  BY DEF SyncInv, SyncTypeOK, Awaiting, Honest, Running, syncAll, syncVars

\* The invariant behind the three properties of src/sync.ts.
THEOREM SyncInvariance == SyncSpec => []SyncInv
  <1>1. SyncInv /\ [SyncNext]_syncAll => SyncInv'
    BY BeginKeeps, SettleKeeps, DeadlineKeeps, OwnerKeeps, AttemptContinuesKeeps,
       SyncStutterKeeps
       DEF SyncNext
  <1> QED BY SyncInitHolds, <1>1, PTL DEF SyncSpec, AttemptInit, syncAll

\* An ok attempt saw no cancellation and waits for no answer, for every set of
\* attempts (attemptReconcile, src/sync.ts).
THEOREM OkHolds == SyncSpec => []OkIsUncancelledAndComplete
  <1>1. SyncInv => OkIsUncancelledAndComplete
    BY DEF SyncInv, Honest, OkIsUncancelledAndComplete
  <1> QED BY SyncInvariance, <1>1, PTL

\* A cancellation is reported under its first reason (src/cancellation.ts).
THEOREM CodeHolds == SyncSpec => []CodeTellsTheCause
  <1>1. SyncInv => CodeTellsTheCause
    BY DEF SyncInv, Honest, CodeTellsTheCause
  <1> QED BY SyncInvariance, <1>1, PTL

\* No deadline timer outlives its attempt (the finally block of src/sync.ts).
THEOREM DeadlineHolds == SyncSpec => []DeadlineIsOwned
  <1>1. SyncInv => DeadlineIsOwned
    BY DEF SyncInv, Honest, DeadlineIsOwned
  <1> QED BY SyncInvariance, <1>1, PTL

LEMMA OnlyAskingOwes ==
  ASSUME SyncInv, NEW a \in Attempts, NEW b \in Attempts,
         \/ BeginAttempt(b)
         \/ \E s \in Seams, answer \in Answers : SeamSettles(b, s, answer)
         \/ DeadlineFires(b)
         \/ OwnerAborts(b)
         \/ AttemptContinues(b),
         owed'[a] \ owed[a] # {}
  PROVE  cause[a] = "none" /\ a \notin aborted
  <1>1. SyncTypeOK /\ Awaiting(b)
    BY DEF SyncInv
  <1>2. CASE BeginAttempt(b)
    BY <1>1, <1>2 DEF BeginAttempt, ReturnWith, Ask, SyncTypeOK, Awaiting
  <1>3. CASE \E s \in Seams, answer \in Answers : SeamSettles(b, s, answer)
    BY <1>1, <1>3 DEF SeamSettles, SyncTypeOK
  <1>4. CASE DeadlineFires(b)
    BY <1>4 DEF DeadlineFires
  <1>5. CASE OwnerAborts(b)
    BY <1>5 DEF OwnerAborts
  <1>6. CASE AttemptContinues(b)
    <2>1. CASE \E code \in Outcomes : ReturnWith(b, code)
      BY <2>1 DEF ReturnWith
    <2>2. CASE /\ race[b] = "good" /\ cause[b] = "none"
               /\ \E s \in Seams : Ask(b, s) /\ UNCHANGED deadline
      <3>1. a = b
        BY <1>1, <2>2 DEF Ask, SyncTypeOK
      <3> QED BY <1>1, <1>6, <2>2, <3>1 DEF AttemptContinues, Awaiting
    <2> QED BY <1>1, <1>6, <2>1, <2>2, ContinueEndings
  <1> QED BY <1>2, <1>3, <1>4, <1>5, <1>6

\* No seam is asked after the fused signal aborted (the throwIfCancelled before
\* each seam of src/sync.ts).
THEOREM NoSeamHolds == SyncSpec => NoSeamAfterCancel
  <1>1. SyncInv /\ [SyncNext]_syncAll =>
            [\A a \in Attempts : owed'[a] \ owed[a] # {} =>
                cause[a] = "none" /\ a \notin aborted]_syncAll
    BY OnlyAskingOwes DEF SyncNext
  <1> QED BY SyncInvariance, <1>1, PTL DEF SyncSpec, NoSeamAfterCancel, syncAll

------------------------------------------------------------------------------
(* CacheWriter.                                                            *)

writerAll == <<aborted, writerVars>>

\* What the operation issued says about the temp file of a write: the fsync is
\* behind a close, and a rename that has not landed yet publishes flushed bytes.
Ordered(n) ==
    /\ write[n] \in {"unborn", "mkdir", "committed"} => temp[n] = "none"
    /\ write[n] = "sync" /\ landed[n] => temp[n] = "flushed"
    /\ write[n] = "close" => temp[n] = "flushed"
    /\ write[n] = "rename" => temp[n] = IF landed[n] THEN "none" ELSE "flushed"
    /\ write[n] = "notCommitted" => temp[n] = "none" \/ "rm" \in Faults

\* A version some write has published, or no file at all.
PublishedBy(v) ==
    \/ v = NoFile
    \/ /\ v.gen \in Attempts
       /\ \/ write[v.gen] \in {"committed", "dead"}
          \/ write[v.gen] = "rename" /\ landed[v.gen]

Entries == lingering \cup {disk}

WriterInv ==
    /\ WriterTypeOK
    /\ \A n \in Attempts : Ordered(n)
    /\ \A v \in Entries : v.data = "whole" /\ PublishedBy(v)

SameWrite(n) == write'[n] = write[n] /\ landed'[n] = landed[n] /\ temp'[n] = temp[n]

\* What a write that published something may still do without losing that fact.
StaysPublished(n) ==
    \/ SameWrite(n)
    \/ write[n] \notin {"committed", "dead", "rename"}
    \/ write[n] = "rename" /\ ~landed[n]
    \/ write'[n] \in {"committed", "dead"}

LEMMA SameWriteKeeps ==
  ASSUME NEW n \in Attempts, Ordered(n), SameWrite(n)
  PROVE  Ordered(n)'
  BY DEF Ordered, SameWrite

LEMMA EntryType == WriterTypeOK => \A v \in Entries : v \in Versions
  BY DEF WriterTypeOK, Entries

LEMMA PublishedKeeps ==
  ASSUME WriterTypeOK, NEW v \in Versions, PublishedBy(v),
         \A n \in Attempts : StaysPublished(n)
  PROVE  PublishedBy(v)'
  <1>1. CASE v = NoFile
    BY <1>1 DEF PublishedBy
  <1>2. CASE v # NoFile
    BY <1>2 DEF PublishedBy, StaysPublished, SameWrite
  <1> QED BY <1>1, <1>2

\* A step that publishes nothing: what is left to show of it.
LEMMA NothingPublished ==
  ASSUME WriterInv, WriterTypeOK', \A n \in Attempts : Ordered(n)',
         \A n \in Attempts : StaysPublished(n), Entries' \subseteq Entries
  PROVE  WriterInv'
  BY PublishedKeeps, EntryType DEF WriterInv

\* A step of one write on its own part of the state.
LEMMA OneWriter ==
  ASSUME WriterInv, WriterTypeOK', NEW n \in Attempts,
         \A m \in Attempts \ {n} : SameWrite(m), Ordered(n)', StaysPublished(n),
         UNCHANGED <<disk, lingering>>
  PROVE  WriterInv'
  <1>1. \A m \in Attempts : Ordered(m)' /\ StaysPublished(m)
    BY SameWriteKeeps DEF WriterInv, StaysPublished
  <1> QED BY <1>1, NothingPublished DEF Entries

LEMMA IssueTypes ==
  ASSUME WriterTypeOK, NEW n \in Attempts,
         NEW op \in FsOps \cup Endings \cup {"unborn", "cleanup"}, Issue(n, op),
         aborted' = aborted, temp' \in [Attempts -> TempStates],
         UNCHANGED <<disk, lingering>>
  PROVE  /\ WriterTypeOK'
         /\ write'[n] = op /\ landed'[n] = FALSE
         /\ \A m \in Attempts \ {n} : write'[m] = write[m] /\ landed'[m] = landed[m]
  BY DEF WriterTypeOK, Issue

LEMMA BeginWriteKeeps ==
  ASSUME WriterInv, NEW n \in Attempts, BeginWrite(n), UNCHANGED aborted
  PROVE  WriterInv'
  <1>1. WriterTypeOK /\ Ordered(n) /\ write[n] = "unborn"
    BY DEF WriterInv, BeginWrite
  <1>2. PICK op \in {"mkdir", "notCommitted"} : Issue(n, op)
    BY DEF BeginWrite
  <1>3. op \in FsOps \cup Endings \cup {"unborn", "cleanup"}
    BY DEF FsOps, Endings
  <1>4. UNCHANGED <<temp, disk, lingering>> /\ temp' \in [Attempts -> TempStates]
    BY <1>1 DEF BeginWrite, WriterTypeOK
  <1>5. /\ WriterTypeOK' /\ write'[n] = op /\ landed'[n] = FALSE
        /\ \A m \in Attempts \ {n} : write'[m] = write[m] /\ landed'[m] = landed[m]
    BY <1>1, <1>2, <1>3, <1>4, IssueTypes
  <1>6. Ordered(n)' /\ StaysPublished(n) /\ \A m \in Attempts \ {n} : SameWrite(m)
    BY <1>1, <1>4, <1>5 DEF Ordered, StaysPublished, SameWrite
  <1> QED BY <1>4, <1>5, <1>6, OneWriter

LEMMA FailKeeps ==
  ASSUME WriterInv, NEW n \in Attempts, FsOpFails(n)
  PROVE  WriterInv'
  <1>1. WriterTypeOK /\ write[n] \in FsOps /\ ~landed[n] /\ Issue(n, "cleanup")
    BY DEF WriterInv, FsOpFails
  <1>2. UNCHANGED <<aborted, temp, disk, lingering>> /\ temp' \in [Attempts -> TempStates]
    BY <1>1 DEF FsOpFails, WriterTypeOK
  <1>3. /\ WriterTypeOK' /\ write'[n] = "cleanup"
        /\ \A m \in Attempts \ {n} : write'[m] = write[m] /\ landed'[m] = landed[m]
    BY <1>1, <1>2, IssueTypes
  <1>4. Ordered(n)' /\ StaysPublished(n) /\ \A m \in Attempts \ {n} : SameWrite(m)
    BY <1>1, <1>2, <1>3 DEF Ordered, StaysPublished, SameWrite, FsOps
  <1> QED BY <1>2, <1>3, <1>4, OneWriter

LEMMA WriterContinuesKeeps ==
  ASSUME WriterInv, NEW n \in Attempts, WriterContinues(n)
  PROVE  WriterInv'
  <1>1. WriterTypeOK /\ Ordered(n) /\ write[n] \in FsOps /\ landed[n]
    BY DEF WriterInv, WriterContinues
  <1>2. UNCHANGED <<aborted, temp, disk, lingering>> /\ temp' \in [Attempts -> TempStates]
    BY <1>1 DEF WriterContinues, WriterTypeOK
  <1> DEFINE next == IF write[n] = "rename" THEN "committed"
                     ELSE IF n \in aborted THEN "cleanup" ELSE NextOp[write[n]]
  <1>3. Issue(n, next) /\ next \in FsOps \cup Endings \cup {"unborn", "cleanup"}
    BY <1>1 DEF WriterContinues, NextOp, FsOps, Endings
  <1>4. /\ WriterTypeOK' /\ write'[n] = next /\ landed'[n] = FALSE
        /\ \A m \in Attempts \ {n} : write'[m] = write[m] /\ landed'[m] = landed[m]
    BY <1>1, <1>2, <1>3, IssueTypes
  <1>5. temp'[n] = temp[n] /\ \A m \in Attempts \ {n} : SameWrite(m)
    BY <1>2, <1>4 DEF SameWrite
  <1>6. Ordered(n)' /\ StaysPublished(n)
    BY <1>1, <1>4, <1>5 DEF Ordered, StaysPublished, FsOps, NextOp
  <1> QED BY <1>2, <1>4, <1>5, <1>6, OneWriter

LEMMA CleanUpKeeps ==
  ASSUME WriterInv, NEW n \in Attempts, CleanUp(n)
  PROVE  WriterInv'
  <1>1. WriterTypeOK /\ write[n] = "cleanup" /\ Issue(n, "notCommitted")
    BY DEF WriterInv, CleanUp
  <1>2. /\ UNCHANGED <<aborted, disk, lingering>> /\ temp' \in [Attempts -> TempStates]
        /\ temp'[n] = "none" \/ "rm" \in Faults
        /\ \A m \in Attempts \ {n} : temp'[m] = temp[m]
    BY <1>1 DEF CleanUp, WriterTypeOK, TempStates
  <1>3. /\ WriterTypeOK' /\ write'[n] = "notCommitted"
        /\ \A m \in Attempts \ {n} : write'[m] = write[m] /\ landed'[m] = landed[m]
    BY <1>1, <1>2, IssueTypes DEF Endings
  <1>4. Ordered(n)' /\ StaysPublished(n) /\ \A m \in Attempts \ {n} : SameWrite(m)
    BY <1>1, <1>2, <1>3 DEF Ordered, StaysPublished, SameWrite
  <1> QED BY <1>2, <1>3, <1>4, OneWriter

\* A landing operation: the rename is the one that publishes, and what it
\* publishes was flushed.
LEMMA LandKeeps ==
  ASSUME WriterInv, NEW n \in Attempts, FsOpLands(n)
  PROVE  WriterInv'
  <1>1. WriterTypeOK /\ Ordered(n) /\ write[n] \in FsOps /\ ~landed[n]
    BY DEF WriterInv, FsOpLands
  <1>2. /\ UNCHANGED <<aborted, write>> /\ landed'[n] = TRUE /\ temp'[n] = TempAfter(n)
        /\ landed' \in [Attempts -> BOOLEAN] /\ temp' \in [Attempts -> TempStates]
        /\ \A m \in Attempts \ {n} : SameWrite(m)
    BY <1>1 DEF FsOpLands, WriterTypeOK, SameWrite, TempAfter, TempStates
  <1>3. Ordered(n)' /\ StaysPublished(n)
    BY <1>1, <1>2 DEF Ordered, StaysPublished, FsOps, TempAfter
  <1>4. CASE write[n] # "rename"
    <2>1. UNCHANGED <<disk, lingering>>
      BY <1>4 DEF FsOpLands
    <2>2. WriterTypeOK'
      BY <1>1, <1>2, <2>1 DEF WriterTypeOK
    <2> QED BY <1>2, <1>3, <2>1, <2>2, OneWriter
  <1>5. CASE write[n] = "rename"
    <2>1. disk' = Published(n) /\ lingering' = lingering \cup {disk}
      BY <1>5 DEF FsOpLands
    <2>2. Published(n) = [gen |-> n, data |-> "whole"]
      BY <1>1, <1>5 DEF Published, Ordered
    <2>3. disk' \in Versions /\ disk'.data = "whole" /\ disk'.gen = n
      BY <2>1, <2>2 DEF Versions
    <2>4. WriterTypeOK'
      BY <1>1, <1>2, <2>1, <2>3 DEF WriterTypeOK
    <2>5. PublishedBy(disk)'
      BY <1>2, <1>5, <2>3 DEF PublishedBy
    <2>6. \A m \in Attempts : Ordered(m)' /\ StaysPublished(m)
      BY <1>2, <1>3, SameWriteKeeps DEF WriterInv, StaysPublished
    <2>7. \A v \in Entries : v \in Versions /\ v.data = "whole" /\ PublishedBy(v)'
      BY <1>1, <2>6, PublishedKeeps, EntryType DEF WriterInv
    <2>8. Entries' = Entries \cup {disk'}
      BY <2>1 DEF Entries
    <2> QED BY <2>3, <2>4, <2>5, <2>6, <2>7, <2>8 DEF WriterInv
  <1> QED BY <1>4, <1>5

\* Death of writers: whatever they had published stays published.
LEMMA DeathKeeps ==
  ASSUME WriterTypeOK, \A n \in Attempts : Ordered(n), NEW W, WritersDie(W),
         UNCHANGED <<landed, temp>>
  PROVE  /\ write' \in [Attempts -> FsOps \cup Endings \cup {"unborn", "cleanup"}]
         /\ \A n \in Attempts : Ordered(n)' /\ StaysPublished(n)
  <1>1. write' \in [Attempts -> FsOps \cup Endings \cup {"unborn", "cleanup"}]
    BY DEF WritersDie, WriterTypeOK, Endings
  <1>2. ASSUME NEW n \in Attempts
        PROVE  Ordered(n)' /\ StaysPublished(n)
    <2>1. CASE SameWrite(n)
      BY <2>1, SameWriteKeeps DEF StaysPublished
    <2>2. CASE write'[n] = "dead"
      BY <2>2 DEF Ordered, StaysPublished
    <2> QED BY <2>1, <2>2 DEF WritersDie, SameWrite
  <1> QED BY <1>1, <1>2

LEMMA PowerLossKeeps ==
  ASSUME WriterInv, PowerLoss
  PROVE  WriterInv'
  <1>1. WriterTypeOK /\ WritersDie(Attempts) /\ UNCHANGED <<aborted, landed, temp>>
    BY DEF WriterInv, PowerLoss
  <1>2. disk' \in Entries /\ lingering' = {}
    BY DEF WriterInv, PowerLoss, Entries, Recovered
  <1>3. WriterTypeOK' /\ Entries' \subseteq Entries
    BY <1>1, <1>2, DeathKeeps, EntryType DEF WriterInv, WriterTypeOK, Entries
  <1> QED BY <1>1, <1>3, DeathKeeps, NothingPublished DEF WriterInv

LEMMA KillKeeps ==
  ASSUME WriterInv, NEW W, WritersDie(W),
         UNCHANGED <<aborted, landed, temp, disk, lingering>>
  PROVE  WriterInv'
  <1>1. WriterTypeOK' /\ Entries' \subseteq Entries
    BY DeathKeeps DEF WriterInv, WriterTypeOK, Entries
  <1> QED BY <1>1, DeathKeeps, NothingPublished DEF WriterInv

LEMMA FlushKeeps ==
  ASSUME WriterInv, DirectoryFlushed
  PROVE  WriterInv'
  <1>1. \A n \in Attempts : SameWrite(n)
    BY DEF DirectoryFlushed, SameWrite
  <1>2. WriterTypeOK' /\ Entries' \subseteq Entries
    BY DEF WriterInv, WriterTypeOK, DirectoryFlushed, Entries
  <1> QED BY <1>1, <1>2, SameWriteKeeps, NothingPublished DEF WriterInv, StaysPublished

\* A step of somebody else, which may abort owners.
LEMMA OthersKeep ==
  ASSUME WriterInv, aborted' \subseteq Attempts, UNCHANGED writerVars
  PROVE  WriterInv'
  <1>1. \A n \in Attempts : SameWrite(n)
    BY DEF writerVars, SameWrite
  <1>2. WriterTypeOK' /\ Entries' \subseteq Entries
    BY DEF WriterInv, WriterTypeOK, writerVars, Entries
  <1> QED BY <1>1, <1>2, SameWriteKeeps, NothingPublished DEF WriterInv, StaysPublished

LEMMA WriterInitHolds == SignalInit /\ WriterInit => WriterInv
  BY DEF SignalInit, WriterInit, WriterInv, WriterTypeOK, Ordered, PublishedBy, Entries,
         Versions, NoFile, TempStates

\* The invariant behind the three state properties of src/cache.ts.
THEOREM WriterInvariance == WriterSpec => []WriterInv
  <1>1. WriterInv /\ [WriterNext]_writerAll => WriterInv'
    <2> SUFFICES ASSUME WriterInv, [WriterNext]_writerAll
                 PROVE  WriterInv'
      OBVIOUS
    <2>1. aborted \subseteq Attempts
      BY DEF WriterInv, WriterTypeOK
    <2>2. ASSUME NEW n \in Attempts, BeginWrite(n), UNCHANGED aborted
          PROVE  WriterInv'
      BY <2>2, BeginWriteKeeps
    <2>3. ASSUME NEW n \in Attempts, FsOpLands(n)
          PROVE  WriterInv'
      BY <2>3, LandKeeps
    <2>4. ASSUME NEW n \in Attempts, FsOpFails(n)
          PROVE  WriterInv'
      BY <2>4, FailKeeps
    <2>5. ASSUME NEW n \in Attempts, WriterContinues(n)
          PROVE  WriterInv'
      BY <2>5, WriterContinuesKeeps
    <2>6. ASSUME NEW n \in Attempts, CleanUp(n)
          PROVE  WriterInv'
      BY <2>6, CleanUpKeeps
    <2>7. ASSUME NEW n \in Attempts, WriterKilled(n)
          PROVE  WriterInv'
      BY <2>7, KillKeeps DEF WriterKilled
    <2>8. ASSUME NEW n \in Attempts, WriterAborted(n)
          PROVE  WriterInv'
      BY <2>1, <2>8, OthersKeep DEF WriterAborted, AbortSignal
    <2>9. CASE DirectoryFlushed
      BY <2>9, FlushKeeps
    <2>10. CASE PowerLoss
      BY <2>10, PowerLossKeeps
    <2>11. CASE UNCHANGED writerAll
      BY <2>1, <2>11, OthersKeep DEF writerAll
    <2> QED
      BY <2>2, <2>3, <2>4, <2>5, <2>6, <2>7, <2>8, <2>9, <2>10, <2>11 DEF WriterNext
  <1> QED BY WriterInitHolds, <1>1, PTL DEF WriterSpec, FileInit, writerAll

\* The cache file is absent or a complete envelope, for every number of writers,
\* every fault and every interleaving (writeCacheAtomic, src/cache.ts).
THEOREM WholeHolds == WriterSpec => []TargetAlwaysWhole
  <1>1. WriterInv => TargetAlwaysWhole
    BY DEF WriterInv, Entries, TargetAlwaysWhole
  <1> QED BY WriterInvariance, <1>1, PTL

\* Only a write that reports its commit, or died before it could, has published
\* (the order of rename and report in src/cache.ts).
THEOREM CommitReportHolds == WriterSpec => []CommitReportIsTrue
  <1>1. WriterInv => CommitReportIsTrue
    BY DEF WriterInv, Entries, PublishedBy, CommitReportIsTrue
  <1> QED BY WriterInvariance, <1>1, PTL

\* A write that ended has left no temp file, unless rm failed (the catch block of
\* src/cache.ts).
THEOREM NoResidueHolds == WriterSpec => []NoTempResidue
  <1>1. WriterInv => NoTempResidue
    BY DEF WriterInv, WriterTypeOK, Ordered, NoTempResidue, Writing, FsOps, Endings
  <1> QED BY WriterInvariance, <1>1, PTL

LEMMA AbortedStops ==
  ASSUME WriterInv, WriterNext, NEW n \in aborted, write'[n] # write[n]
  PROVE  write'[n] \notin FsOps
  <1>1. WriterTypeOK /\ n \in Attempts
    BY DEF WriterInv, WriterTypeOK
  <1>2. ASSUME NEW m \in Attempts, NEW op, Issue(m, op), m = n => op \notin FsOps
        PROVE  write'[n] \notin FsOps
    BY <1>1, <1>2 DEF Issue, WriterTypeOK
  <1>3. ASSUME NEW m \in Attempts, BeginWrite(m)
        PROVE  write'[n] \notin FsOps
    <2>1. "notCommitted" \notin FsOps
      BY DEF FsOps
    <2> QED BY <1>2, <1>3, <2>1 DEF BeginWrite
  <1>4. ASSUME NEW m \in Attempts, FsOpFails(m) \/ WriterContinues(m) \/ CleanUp(m)
        PROVE  write'[n] \notin FsOps
    <2>1. {"cleanup", "committed", "notCommitted"} \cap FsOps = {}
      BY DEF FsOps
    <2> QED BY <1>2, <1>4, <2>1 DEF FsOpFails, WriterContinues, CleanUp
  <1>5. ASSUME NEW W, WritersDie(W)
        PROVE  write'[n] \notin FsOps
    BY <1>1, <1>5 DEF WritersDie, FsOps
  <1>6. ~UNCHANGED write
    OBVIOUS
  <1> QED
    BY <1>3, <1>4, <1>5, <1>6 DEF WriterNext, FsOpLands, WriterKilled, WriterAborted,
                              writerVars, DirectoryFlushed, PowerLoss

\* An aborted write issues no further file operation (the looks at the signal
\* between the operations of src/cache.ts).
THEOREM AbortStopsHolds == WriterSpec => AbortStopsWrite
  <1>1. WriterInv /\ [WriterNext]_writerAll =>
            [\A n \in aborted : write'[n] # write[n] => write'[n] \notin FsOps]_writerAll
    BY AbortedStops
  <1> QED BY WriterInvariance, <1>1, PTL DEF WriterSpec, AbortStopsWrite, writerAll
==============================================================================
