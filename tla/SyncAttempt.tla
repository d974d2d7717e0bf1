----------------------------- MODULE SyncAttempt -----------------------------
(***************************************************************************)
(* attemptReconcile (src/sync.ts) on top of raceCancellation and           *)
(* throwIfCancelled (src/cancellation.ts): one refresh attempt asks five   *)
(* asynchronous seams in a fixed order under one fused abort signal, the   *)
(* first of "deadline" and "owner" that fires being the signal's reason.   *)
(*                                                                         *)
(* An awaited seam has three moments, each an action here because another  *)
(* callback may run between them: the promise settles (SeamSettles), the   *)
(* fused signal aborts (DeadlineFires, OwnerAborts), and the function      *)
(* resumes after its await (AttemptContinues).  A seam owes nobody an      *)
(* answer: it may settle late, after its race was lost, or never.          *)
(***************************************************************************)
EXTENDS OwnerSignal

CONSTANT Answers           \* the ways a seam of the environment may settle

ASSUME AnswersAssumption == Answers \subseteq {"good", "bad", "error"}

VARIABLES
    seam,        \* attempt -> the seam awaited, "unborn" or "returned"
    race,        \* attempt -> how the race for that seam stands
    owed,        \* attempt -> seams asked whose promise has not settled
    cause,       \* attempt -> reason of the fused signal, "none" if not aborted
    deadline,    \* attempt -> is the deadline timer armed?
    outcome      \* attempt -> what attemptReconcile returned, or "none"

syncVars == <<seam, race, owed, cause, deadline, outcome>>

Seams == {"key", "mdFetch", "mdText", "liveFetch", "liveText"}

Causes == {"none", "TIMEOUT", "ABORTED"}

\* "race.value.ok", "race.value not usable", "race.error", "race.cancelled"
RaceStates == {"none", "pending", "good", "bad", "error", "cancelled"}

\* The failure codes, one per class of SYNC_FAILURE_CODES the lifecycle and
\* the status tell apart (the HTTP statuses of a source are one class).
SourceCodes == {"CREDENTIAL", "HTTP", "PARSE"}

Outcomes == {"none", "ok", "FETCH_FAILED"} \cup SourceCodes \cup (Causes \ {"none"})

Running(a) == seam[a] \in Seams

SyncInit ==
    /\ seam = [a \in Attempts |-> "unborn"]
    /\ race = [a \in Attempts |-> "none"]
    /\ owed = [a \in Attempts |-> {}]
    /\ cause = [a \in Attempts |-> "none"]
    /\ deadline = [a \in Attempts |-> FALSE]
    /\ outcome = [a \in Attempts |-> "none"]

------------------------------------------------------------------------------
(* The shared endings of a step of the function.                           *)

\* Every return and throw passes the finally block: the deadline is cleared.
ReturnWith(a, code) ==
    /\ seam' = [seam EXCEPT ![a] = "returned"]
    /\ race' = [race EXCEPT ![a] = "none"]
    /\ outcome' = [outcome EXCEPT ![a] = code]
    /\ deadline' = [deadline EXCEPT ![a] = FALSE]
    /\ UNCHANGED owed

\* raceCancellation(seam s): the promise exists, its race is open.
Ask(a, s) ==
    /\ seam' = [seam EXCEPT ![a] = s]
    /\ race' = [race EXCEPT ![a] = "pending"]
    /\ owed' = [owed EXCEPT ![a] = @ \cup {s}]
    /\ UNCHANGED outcome

NextSeam == [key |-> "mdFetch", mdFetch |-> "mdText",
             mdText |-> "liveFetch", liveFetch |-> "liveText"]

\* The code of an answer that is itself a failure: a rejected key, a response
\* that is not ok, a body that does not parse (or names no live endpoint).
AnswerCode(s) ==
    IF s = "key" THEN "CREDENTIAL"
    ELSE IF s \in {"mdFetch", "liveFetch"} THEN "HTTP" ELSE "PARSE"

\* Wrong variant: every thrown value is a network failure.
ThrownCodeUnclassified(a) == "FETCH_FAILED"

\* The code of a thrown value: the cancellation when there is one.
ThrownCode(a) == IF cause[a] = "none" THEN "FETCH_FAILED" ELSE cause[a]

------------------------------------------------------------------------------
(* The actions.                                                            *)

\* attemptReconcile is called: the deadline is armed first, and an owner that
\* is already aborted stops it before the credential seam is asked.
BeginAttempt(a) ==
    /\ seam[a] = "unborn"
    /\ IF a \in aborted
       THEN /\ cause' = [cause EXCEPT ![a] = "ABORTED"]
            /\ ReturnWith(a, "ABORTED")
       ELSE /\ Ask(a, "key")
            /\ deadline' = [deadline EXCEPT ![a] = TRUE]
            /\ UNCHANGED cause
    /\ UNCHANGED aborted

\* A promise settles.  The race takes the first settlement only (the
\* "finished" flag): an answer that lost its race is dropped.
SeamSettles(a, s, answer) ==
    /\ s \in owed[a]
    /\ answer = "bad" => s # "key"
    /\ owed' = [owed EXCEPT ![a] = @ \ {s}]
    /\ race' = IF seam[a] = s /\ race[a] = "pending"
               THEN [race EXCEPT ![a] = answer] ELSE race
    /\ UNCHANGED <<aborted, seam, cause, deadline, outcome>>

\* Wrong variant: the signal is only handed to fetch, nobody races it.
FuseUnraced(a, why) ==
    /\ cause' = IF Running(a) /\ cause[a] = "none"
                THEN [cause EXCEPT ![a] = why] ELSE cause
    /\ UNCHANGED race

\* The fused signal aborts: it keeps its first reason, and its listener loses
\* or wins the open race at once.
Fuse(a, why) ==
    /\ cause' = IF Running(a) /\ cause[a] = "none"
                THEN [cause EXCEPT ![a] = why] ELSE cause
    /\ race' = IF race[a] = "pending"
               THEN [race EXCEPT ![a] = "cancelled"] ELSE race

\* The timer of timeoutMs fires: the attempt's own controller is aborted.
DeadlineFires(a) ==
    /\ deadline[a]
    /\ deadline' = [deadline EXCEPT ![a] = FALSE]
    /\ Fuse(a, "TIMEOUT")
    /\ UNCHANGED <<aborted, seam, owed, outcome>>

\* The owner aborts its controller (the lifecycle's disposal).
OwnerAborts(a) ==
    /\ a \in Abortable
    /\ AbortSignal(a)
    /\ Fuse(a, "ABORTED")
    /\ UNCHANGED <<seam, owed, deadline, outcome>>

\* Wrong variant: no throwIfCancelled between an answer and its use.
ContinueWithValueUnguarded(a) ==
    /\ race[a] = "good"
    /\ IF seam[a] = "liveText" THEN ReturnWith(a, "ok")
       ELSE Ask(a, NextSeam[seam[a]]) /\ UNCHANGED deadline

\* The function resumes after its await with the value of a won race: a usable
\* value is followed by throwIfCancelled and the next seam, or by the result.
ContinueWithValue(a) ==
    /\ race[a] = "good"
    /\ IF cause[a] # "none" THEN ReturnWith(a, cause[a])
       ELSE IF seam[a] = "liveText" THEN ReturnWith(a, "ok")
       ELSE Ask(a, NextSeam[seam[a]]) /\ UNCHANGED deadline

\* ... and throws on its way from that value to the next await or the result:
\* reconcile, or a seam that throws instead of returning a promise.
ContinueThrowing(a) ==
    /\ race[a] = "good"
    /\ ReturnWith(a, ThrownCode(a))

\* ... with a value that is a failure of its own: returned as it is, before
\* any look at the signal.
ContinueWithBadValue(a) ==
    /\ race[a] = "bad"
    /\ ReturnWith(a, AnswerCode(seam[a]))

\* ... with a rejection: the credential's is classified, the others are thrown.
ContinueWithError(a) ==
    /\ race[a] = "error"
    /\ ReturnWith(a, IF seam[a] = "key" THEN AnswerCode("key") ELSE ThrownCode(a))

\* ... with the cancellation that won the race.
ContinueCancelled(a) ==
    /\ race[a] = "cancelled"
    /\ ReturnWith(a, cause[a])

\* The process dies: its promises, timers and suspended functions are gone, and
\* what they had answered.
AttemptsDie ==
    /\ seam' = [a \in Attempts |-> IF Running(a) THEN "returned" ELSE seam[a]]
    /\ race' = [a \in Attempts |-> "none"]
    /\ owed' = [a \in Attempts |-> {}]
    /\ cause' = [a \in Attempts |-> "none"]
    /\ deadline' = [a \in Attempts |-> FALSE]
    /\ outcome' = [a \in Attempts |-> "none"]

AttemptContinues(a) ==
    /\ Running(a)
    /\ \/ ContinueWithValue(a)
       \/ ContinueThrowing(a)
       \/ ContinueWithBadValue(a)
       \/ ContinueWithError(a)
       \/ ContinueCancelled(a)
    /\ UNCHANGED <<aborted, cause>>

SyncNext ==
    \E a \in Attempts :
        \/ BeginAttempt(a)
        \/ \E s \in Seams, answer \in Answers : SeamSettles(a, s, answer)
        \/ DeadlineFires(a)
        \/ OwnerAborts(a)
        \/ AttemptContinues(a)

\* Microtasks run and a real timer fires; no seam is ever obliged to answer.
SyncFairness ==
    \A a \in Attempts : WF_<<aborted, syncVars>>(AttemptContinues(a))
                     /\ WF_<<aborted, syncVars>>(DeadlineFires(a))

AttemptInit == SignalInit /\ SyncInit

SyncSpec ==
    AttemptInit /\ [][SyncNext]_<<aborted, syncVars>> /\ SyncFairness

------------------------------------------------------------------------------
(* Properties.                                                             *)

\* The type of the attempt's state.
SyncTypeOK ==
    /\ aborted \subseteq Attempts
    /\ seam \in [Attempts -> Seams \cup {"unborn", "returned"}]
    /\ race \in [Attempts -> RaceStates]
    /\ owed \in [Attempts -> SUBSET Seams]
    /\ cause \in [Attempts -> Causes]
    /\ deadline \in [Attempts -> BOOLEAN]
    /\ outcome \in [Attempts -> Outcomes]

\* "the reconcile result is returned only when both sources validated and the
\* signal never aborted": of that, the second half.  An ok attempt saw no cancellation
\* at any moment of its run and waits for no answer (src/sync.ts, the throwIfCancelled
\* calls).
OkIsUncancelledAndComplete ==
    \A a \in Attempts : outcome[a] = "ok" => cause[a] = "none" /\ owed[a] = {}

\* A cancellation is reported under the reason that came first, and a thrown
\* error of a cancelled attempt is never reported as a network failure: TIMEOUT
\* and ABORTED are the signal's reason, FETCH_FAILED means there was none.
CodeTellsTheCause ==
    \A a \in Attempts :
        /\ outcome[a] \in {"TIMEOUT", "ABORTED"} => outcome[a] = cause[a]
        /\ outcome[a] = "FETCH_FAILED" => cause[a] = "none"

\* The deadline timer belongs to a running attempt: none outlives its attempt,
\* and a running attempt whose timer is gone has already been cancelled.
DeadlineIsOwned ==
    \A a \in Attempts :
        /\ deadline[a] => Running(a)
        /\ Running(a) /\ ~deadline[a] => cause[a] # "none"

\* Once the fused signal has aborted, no further seam is asked: no key lookup
\* and no request starts for an attempt its owner or its deadline has ended
\* (the throwIfCancelled before every seam).
NoSeamAfterCancel ==
    [][\A a \in Attempts : owed'[a] \ owed[a] # {} =>
            cause[a] = "none" /\ a \notin aborted]_<<aborted, syncVars>>

==============================================================================
