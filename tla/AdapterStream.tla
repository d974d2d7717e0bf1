---------------------------- MODULE AdapterStream -----------------------------
(***************************************************************************)
(* OpenCodeGoAdapter.stream (src/adapter.ts) with the translator it        *)
(* iterates (toStreamChunks, src/stream.ts): several requests against a    *)
(* catalog that is swapped under them, an SDK that may stall for ever, a   *)
(* caller that aborts, a consumer that stops, and the idle watchdog.       *)
(*                                                                         *)
(* External, modelled from their use here: idleWatchdog (its timer runs    *)
(* while a next() is pending; its signal keeps the first reason it was     *)
(* aborted for; its next() may reject once the signal is aborted) and      *)
(* pi-ai's event stream.                                                   *)
(***************************************************************************)
EXTENDS Naturals

CONSTANTS
    Requests,       \* the calls of stream()
    MaxCatalog,     \* bound: how many catalogs there have been
    Listing,        \* the catalogs that list the model asked for
    MaxDeltas       \* bound: events before the terminal one

ASSUME StreamAssumption ==
    /\ MaxCatalog \in Nat \ {0} /\ MaxDeltas \in Nat
    /\ Listing \subseteq 1..MaxCatalog

VARIABLES
    catalog,        \* the lifecycle's current catalog, by identity
    memo,           \* the catalog of the adapter's memoised snapshot, 0 for none
    phase,          \* request -> what its generator awaits, or holds out
    pinned,         \* request -> the catalog of the snapshot it captured
    begun,          \* request -> the catalog when its body began (history)
    sent,           \* request -> the catalog whose entry and collection went upstream
    caller,         \* request -> is options.signal aborted?
    signal,         \* request -> the reason the watchdog's signal is aborted for
    events,         \* request -> where toStreamChunks is
    deltas,         \* request -> the deltas pi-ai has sent
    sdk,            \* request -> pi-ai's upstream request
    chunk,          \* request -> the last chunk yielded
    outcome         \* request -> how the stream ended

requestVars == <<phase, pinned, begun, sent, caller, signal, events, deltas, sdk, chunk, outcome>>
vars == <<catalog, memo, requestVars>>

Phases == {"idle", "called", "key", "context", "next", "yielded", "teardown", "ended"}
Reasons == {"live", "caller", "timeout", "consumer"}
Places == {"unborn", "pulling", "atDelta", "atUsage", "atFinish", "over"}
Chunks == {"none", "delta", "usage", "finish"}
Codes == {"NO_KEY", "UNKNOWN_MODEL", "UNSUPPORTED", "STREAM_CLOSED", "INVALID_REQUEST",
          "ABORTED", "TIMEOUT"}
Outcomes == Codes \cup {"none", "done", "stopped"}

Init ==
    /\ catalog = 1 /\ memo = 0
    /\ phase = [r \in Requests |-> "idle"]
    /\ pinned = [r \in Requests |-> 0]
    /\ begun = [r \in Requests |-> 0]
    /\ sent = [r \in Requests |-> 0]
    /\ caller = [r \in Requests |-> FALSE]
    /\ signal = [r \in Requests |-> "live"]
    /\ events = [r \in Requests |-> "unborn"]
    /\ deltas = [r \in Requests |-> 0]
    /\ sdk = [r \in Requests |-> "none"]
    /\ chunk = [r \in Requests |-> "none"]
    /\ outcome = [r \in Requests |-> "none"]

Goto(r, p) == phase' = [phase EXCEPT ![r] = p]
Translator(r, p) == events' = [events EXCEPT ![r] = p]

\* current(): the memoised snapshot serves the catalog it was built from only.
Current == IF memo = catalog THEN memo ELSE catalog

\* The request is over; both finally blocks abort the consumer's controller.
Ends(r, o) ==
    /\ Goto(r, "ended")
    /\ outcome' = [outcome EXCEPT ![r] = o]
    /\ signal' = [signal EXCEPT ![r] = IF @ = "live" THEN "consumer" ELSE @]

\* Wrong variant: the caller is asked before the watchdog.
ToldCallerFirst(r, code) ==
    IF caller[r] THEN "ABORTED" ELSE IF signal[r] = "timeout" THEN "TIMEOUT" ELSE code

\* The catch block: what an error becomes.
Told(r, code) ==
    IF signal[r] = "timeout" THEN "TIMEOUT" ELSE IF caller[r] THEN "ABORTED" ELSE code

------------------------------------------------------------------------------
(* Before the upstream request.                                            *)

\* stream() is called: an async generator runs nothing before its first next().
Called(r) ==
    /\ phase[r] = "idle"
    /\ Goto(r, "called")
    /\ UNCHANGED <<catalog, memo, pinned, begun, sent, caller, signal, events, deltas, sdk,
                   chunk, outcome>>

\* The first next(): the snapshot is captured, and the key asked for.
Begin(r) ==
    /\ phase[r] = "called"
    /\ pinned' = [pinned EXCEPT ![r] = Current]
    /\ memo' = Current
    /\ begun' = [begun EXCEPT ![r] = catalog]
    /\ Goto(r, "key")
    /\ UNCHANGED <<catalog, sent, caller, signal, events, deltas, sdk, chunk, outcome>>

\* Thrown outside the try block: nothing is created yet, nothing is mapped.
Refuse(r, code) ==
    /\ Goto(r, "ended")
    /\ outcome' = [outcome EXCEPT ![r] = code]

\* The key is resolved, or not: a model the snapshot does not list, or an option the
\* adapter cannot express, is refused before the watchdog is created.
KeySettles(r) ==
    /\ phase[r] = "key"
    /\ \/ Refuse(r, "NO_KEY") /\ UNCHANGED signal
       \/ pinned[r] \notin Listing /\ Refuse(r, "UNKNOWN_MODEL") /\ UNCHANGED signal
       \/ pinned[r] \in Listing /\ Refuse(r, "UNSUPPORTED") /\ UNCHANGED signal
       \/ /\ pinned[r] \in Listing
          /\ signal' = [signal EXCEPT ![r] = IF caller[r] THEN "caller" ELSE "live"]
          /\ Goto(r, "context") /\ UNCHANGED outcome
    /\ UNCHANGED <<catalog, memo, pinned, begun, sent, caller, events, deltas, sdk, chunk>>

\* toPiContext refuses the messages, or an attachment cannot be read.
ContextFails(r) ==
    /\ phase[r] = "context"
    /\ Ends(r, Told(r, "UNSUPPORTED"))
    /\ UNCHANGED <<catalog, memo, pinned, begun, sent, caller, events, deltas, sdk, chunk>>

\* Wrong variant: the snapshot is taken again after the awaits.
OpenedOnCurrent(r) ==
    /\ phase[r] = "context"
    /\ sent' = [sent EXCEPT ![r] = catalog]
    /\ sdk' = [sdk EXCEPT ![r] = "open"]
    /\ Goto(r, "next") /\ Translator(r, "pulling")
    /\ UNCHANGED <<catalog, memo, pinned, begun, caller, signal, deltas, chunk, outcome>>

\* streamSimple on the captured snapshot, and the first watchdog.next().
Opened(r) ==
    /\ phase[r] = "context"
    /\ sent' = [sent EXCEPT ![r] = pinned[r]]
    /\ sdk' = [sdk EXCEPT ![r] = "open"]
    /\ Goto(r, "next") /\ Translator(r, "pulling")
    /\ UNCHANGED <<catalog, memo, pinned, begun, caller, signal, deltas, chunk, outcome>>

------------------------------------------------------------------------------
(* One pending next(): the translator settles it, or the watchdog does.    *)

Pulling(r) == phase[r] = "next" /\ events[r] = "pulling" /\ sdk[r] = "open"

\* The translator yields c: past the idle deadline it is dropped for the timeout.
Result(r, c) ==
    \/ /\ signal[r] # "timeout"
       /\ Goto(r, "yielded")
       /\ chunk' = [chunk EXCEPT ![r] = c]
       /\ UNCHANGED <<signal, outcome>>
    \/ signal[r] = "timeout" /\ Ends(r, "TIMEOUT") /\ UNCHANGED chunk

\* A text, reasoning or tool-call event becomes one chunk.
Delta(r) ==
    /\ Pulling(r)
    /\ deltas[r] < MaxDeltas
    /\ deltas' = [deltas EXCEPT ![r] = @ + 1]
    /\ Translator(r, "atDelta") /\ Result(r, "delta")
    /\ UNCHANGED <<catalog, memo, pinned, begun, sent, caller, sdk>>

\* done or error: pi-ai is finished, and the usage chunk comes first.
Terminal(r) ==
    /\ Pulling(r)
    /\ sdk' = [sdk EXCEPT ![r] = "closed"]
    /\ Translator(r, "atUsage") /\ Result(r, "usage")
    /\ UNCHANGED <<catalog, memo, pinned, begun, sent, caller, deltas>>

\* Wrong variant: a source that just ends is taken for a normal end.
BrokenOffQuietly(r) ==
    /\ Pulling(r)
    /\ sdk' = [sdk EXCEPT ![r] = "closed"]
    /\ Translator(r, "over")
    /\ IF signal[r] = "timeout" THEN Ends(r, "TIMEOUT") ELSE Ends(r, "done")
    /\ UNCHANGED <<catalog, memo, pinned, begun, sent, caller, deltas, chunk>>

\* The source ends without a terminal event: toStreamChunks throws.
BrokenOff(r) ==
    /\ Pulling(r)
    /\ sdk' = [sdk EXCEPT ![r] = "closed"]
    /\ Translator(r, "over")
    /\ Ends(r, Told(r, "STREAM_CLOSED"))
    /\ UNCHANGED <<catalog, memo, pinned, begun, sent, caller, deltas, chunk>>

\* The arguments of a tool call are not an object: it throws with pi-ai still open.
Malformed(r) ==
    /\ Pulling(r)
    /\ Translator(r, "over")
    /\ Ends(r, Told(r, "INVALID_REQUEST"))
    /\ UNCHANGED <<catalog, memo, pinned, begun, sent, caller, deltas, sdk, chunk>>

\* After the usage chunk the finish chunk needs no event.
Finishes(r) ==
    /\ phase[r] = "next" /\ events[r] = "atUsage"
    /\ Translator(r, "atFinish") /\ Result(r, "finish")
    /\ UNCHANGED <<catalog, memo, pinned, begun, sent, caller, deltas, sdk>>

\* ... and then the translator returns: result.done.
Exhausted(r) ==
    /\ phase[r] = "next" /\ events[r] = "atFinish"
    /\ Translator(r, "over")
    /\ Ends(r, IF signal[r] = "timeout" THEN "TIMEOUT" ELSE "done")
    /\ UNCHANGED <<catalog, memo, pinned, begun, sent, caller, deltas, sdk, chunk>>

\* Wrong variant: the timer runs for the first next() only.
TimerFiresOnce(r) ==
    /\ phase[r] = "next" /\ events[r] \in {"pulling", "atFinish"}
    /\ chunk[r] = "none"
    /\ signal[r] = "live"
    /\ signal' = [signal EXCEPT ![r] = "timeout"]
    /\ UNCHANGED <<catalog, memo, phase, pinned, begun, sent, caller, events, deltas, sdk,
                   chunk, outcome>>

\* The idle timer of this next() fires: it waits for pi-ai, or for its return().
TimerFires(r) ==
    /\ phase[r] = "next" /\ events[r] \in {"pulling", "atFinish"}
    /\ signal[r] = "live"
    /\ signal' = [signal EXCEPT ![r] = "timeout"]
    /\ UNCHANGED <<catalog, memo, phase, pinned, begun, sent, caller, events, deltas, sdk,
                   chunk, outcome>>

\* watchdog.next rejects for the aborted signal; iterator.return() is queued behind
\* a translator that awaits pi-ai, and the generator awaits it.
Rejects(r) ==
    /\ phase[r] = "next" /\ signal[r] # "live"
    /\ \/ /\ events[r] = "pulling"
          /\ Goto(r, "teardown") /\ UNCHANGED <<events, signal, outcome>>
       \/ /\ events[r] # "pulling"
          /\ Translator(r, "over") /\ Ends(r, Told(r, "ABORTED"))
    /\ UNCHANGED <<catalog, memo, pinned, begun, sent, caller, deltas, sdk, chunk>>

\* pi-ai sends something, or ends: the queued return() runs and the error is told.
TornDown(r) ==
    /\ phase[r] = "teardown"
    /\ \E s \in {"open", "closed"} : sdk' = [sdk EXCEPT ![r] = s]
    /\ Translator(r, "over")
    /\ Ends(r, Told(r, "ABORTED"))
    /\ UNCHANGED <<catalog, memo, pinned, begun, sent, caller, deltas, chunk>>

------------------------------------------------------------------------------
(* The consumer, the caller, pi-ai and the rest of the Host.               *)

\* The consumer takes the chunk and asks for the next one.
Pull(r) ==
    /\ phase[r] = "yielded"
    /\ Goto(r, "next")
    /\ Translator(r, IF events[r] = "atDelta" THEN "pulling" ELSE events[r])
    /\ UNCHANGED <<catalog, memo, pinned, begun, sent, caller, signal, deltas, sdk, chunk,
                   outcome>>

\* Wrong variant: a stopped stream leaves its controller alone.
StopQuietly(r) ==
    /\ phase[r] = "yielded"
    /\ Translator(r, "over")
    /\ Goto(r, "ended") /\ outcome' = [outcome EXCEPT ![r] = "stopped"]
    /\ UNCHANGED <<catalog, memo, pinned, begun, sent, caller, signal, deltas, sdk, chunk>>

\* The consumer calls return(): the translator is at a yield and returns at once.
Stop(r) ==
    /\ phase[r] = "yielded"
    /\ Translator(r, "over")
    /\ Ends(r, "stopped")
    /\ UNCHANGED <<catalog, memo, pinned, begun, sent, caller, deltas, sdk, chunk>>

\* options.signal is aborted; the watchdog's signal follows once there is one.
CallerAborts(r) ==
    /\ phase[r] \notin {"idle", "ended"} /\ ~caller[r]
    /\ caller' = [caller EXCEPT ![r] = TRUE]
    /\ signal' = [signal EXCEPT ![r] =
                    IF @ = "live" /\ phase[r] \notin {"called", "key"} THEN "caller" ELSE @]
    /\ UNCHANGED <<catalog, memo, phase, pinned, begun, sent, events, deltas, sdk, chunk, outcome>>

\* pi-ai gives up the upstream request of an ended stream: its signal is aborted.
SdkStops(r) ==
    /\ phase[r] = "ended" /\ sdk[r] = "open" /\ signal[r] # "live"
    /\ sdk' = [sdk EXCEPT ![r] = "closed"]
    /\ UNCHANGED <<catalog, memo, phase, pinned, begun, sent, caller, signal, events, deltas,
                   chunk, outcome>>

\* A refresh commits: the lifecycle serves another catalog.
CatalogSwaps ==
    /\ catalog < MaxCatalog
    /\ catalog' = catalog + 1
    /\ UNCHANGED <<memo, requestVars>>

\* listModels or resolveModel looks at the current snapshot.
Looks == memo' = Current /\ UNCHANGED <<catalog, requestVars>>

Prepares(r) == Begin(r) \/ KeySettles(r) \/ ContextFails(r) \/ Opened(r)

SdkSpeaks(r) == Delta(r) \/ Terminal(r) \/ BrokenOff(r) \/ Malformed(r)

Settles(r) == Finishes(r) \/ Exhausted(r) \/ Rejects(r)

Next ==
    \/ \E r \in Requests :
          \/ Called(r) \/ Prepares(r) \/ SdkSpeaks(r) \/ Settles(r) \/ Pull(r) \/ Stop(r)
          \/ TimerFires(r) \/ TornDown(r) \/ CallerAborts(r) \/ SdkStops(r)
    \/ CatalogSwaps \/ Looks

\* The timer of a pending next() fires and promises settle; pi-ai owes an answer to
\* an aborted signal and nothing else; keys, attachments and consumers owe nothing.
Fairness ==
    \A r \in Requests :
        WF_vars(TimerFires(r)) /\ WF_vars(Settles(r)) /\ WF_vars(TornDown(r))

Spec == Init /\ [][Next]_vars /\ Fairness

------------------------------------------------------------------------------
(* Properties.                                                             *)

\* The type of the state.
TypeOK ==
    /\ catalog \in 1..MaxCatalog /\ memo \in 0..MaxCatalog
    /\ phase \in [Requests -> Phases]
    /\ pinned \in [Requests -> 0..MaxCatalog]
    /\ begun \in [Requests -> 0..MaxCatalog]
    /\ sent \in [Requests -> 0..MaxCatalog]
    /\ caller \in [Requests -> BOOLEAN]
    /\ signal \in [Requests -> Reasons]
    /\ events \in [Requests -> Places]
    /\ deltas \in [Requests -> 0..MaxDeltas]
    /\ sdk \in [Requests -> {"none", "open", "closed"}]
    /\ chunk \in [Requests -> Chunks]
    /\ outcome \in [Requests -> Outcomes]

\* What goes upstream is the catalog of the moment the request began: neither a swap
\* while the key or the attachments are awaited, nor a snapshot another request left
\* in the adapter changes it (current, stream).
RequestKeepsItsCatalog == \A r \in Requests : sent[r] \in {0, begun[r]}

\* A stream that is over leaves no upstream request running unaborted, whichever of
\* its exits it took (the two finally blocks).
UpstreamIsStopped ==
    \A r \in Requests : phase[r] = "ended" /\ sdk[r] = "open" => signal[r] # "live"

\* The idle timeout is told as such whatever the caller or pi-ai do afterwards, and
\* no chunk is handed out once it has fired; ABORTED is told only of an aborted
\* caller (the check after next, the catch block).
TimeoutIsTold ==
    \A r \in Requests :
        /\ phase[r] = "ended" => (outcome[r] = "TIMEOUT" <=> signal[r] = "timeout")
        /\ phase[r] = "yielded" => signal[r] # "timeout"
        /\ outcome[r] = "ABORTED" => caller[r]

\* A stream ends normally only behind its finish chunk, and a source's or a tool
\* call's failure is never thrown behind it (toStreamChunks).
DoneMeansFinished ==
    \A r \in Requests :
        /\ outcome[r] = "done" => chunk[r] = "finish"
        /\ chunk[r] = "finish" => outcome[r] \in {"none", "done", "stopped", "ABORTED", "TIMEOUT"}

\* The consumer's pending next() settles although pi-ai may stall at any event: the
\* idle timer of that very next() ends it, or the stream is over (watchdog.next).
NextSettles ==
    \A r \in Requests : phase[r] = "next" ~> phase[r] \in {"yielded", "ended"}
===============================================================================
