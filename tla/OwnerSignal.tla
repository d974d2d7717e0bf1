----------------------------- MODULE OwnerSignal -----------------------------
(***************************************************************************)
(* The cancellation signal an owner hands to one refresh attempt: the      *)
(* lifecycle creates one AbortController per attempt (src/lifecycle.ts,    *)
(* refresh) and the same signal reaches the network half (attemptReconcile)*)
(* and the disk half (writeCacheAtomic).  An AbortController is aborted    *)
(* at most once and never un-aborted.                                      *)
(***************************************************************************)
CONSTANT Attempts          \* one identity per refresh attempt

VARIABLE aborted           \* the attempts whose owner signal is aborted

SignalInit == aborted = {}

\* The attempts whose owner signal may still be aborted.
Abortable == Attempts \ aborted

\* controller.abort() of attempt a: idempotent.
AbortSignal(a) == aborted' = aborted \cup {a}
==============================================================================
