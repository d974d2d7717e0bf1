------------------------- MODULE AdapterStream_proofs -------------------------
(***************************************************************************)
(* For every set of requests and every bound: the types of AdapterStream,  *)
(* that a request keeps its catalog, that no exit leaves the upstream      *)
(* request running, and that timeouts and normal ends are told as such.    *)
(***************************************************************************)
EXTENDS AdapterStream, TLAPS

Unopened == {"idle", "called", "key", "context"}

\* Up to the upstream request, and the catalog that goes up with it.
Opening(r) ==
    /\ phase[r] \in Unopened => sent[r] = 0 /\ sdk[r] = "none" /\ events[r] = "unborn"
    /\ pinned[r] = begun[r]
    /\ sent[r] \in {0, begun[r]}

\* Which reason the signal may have at which point.
Signalled(r) ==
    /\ phase[r] \in {"idle", "called", "key"} => signal[r] = "live"
    /\ signal[r] = "caller" => caller[r]
    /\ signal[r] = "consumer" => phase[r] = "ended"
    /\ signal[r] = "timeout" => phase[r] \in {"next", "teardown", "ended"}
    /\ phase[r] = "teardown" => signal[r] # "live"
    /\ phase[r] = "ended" /\ sdk[r] = "open" => signal[r] # "live"

\* What has been told, and why.
Telling(r) ==
    /\ phase[r] # "ended" => outcome[r] = "none"
    /\ phase[r] = "ended" => (outcome[r] = "TIMEOUT" <=> signal[r] = "timeout")
    /\ outcome[r] = "ABORTED" => caller[r]

\* The finish chunk belongs to the last place of the translator.
Finishing(r) ==
    /\ phase[r] = "teardown" => events[r] = "pulling"
    /\ phase[r] # "ended" => (chunk[r] = "finish" <=> events[r] = "atFinish")
    /\ outcome[r] = "done" => chunk[r] = "finish"
    /\ chunk[r] = "finish" => outcome[r] \in {"none", "done", "stopped", "ABORTED", "TIMEOUT"}

Own(r) == Opening(r) /\ Signalled(r) /\ Telling(r) /\ Finishing(r)

StreamInv == TypeOK /\ \A r \in Requests : Own(r)

\* A step of somebody else, as r sees it.
Untouched(r) ==
    /\ phase'[r] = phase[r] /\ pinned'[r] = pinned[r] /\ begun'[r] = begun[r]
    /\ sent'[r] = sent[r] /\ caller'[r] = caller[r] /\ signal'[r] = signal[r]
    /\ events'[r] = events[r] /\ sdk'[r] = sdk[r] /\ chunk'[r] = chunk[r]
    /\ outcome'[r] = outcome[r]

RequestStep(r) ==
    \/ Called(r) \/ Prepares(r) \/ SdkSpeaks(r) \/ Settles(r) \/ Pull(r) \/ Stop(r)
    \/ TimerFires(r) \/ TornDown(r) \/ CallerAborts(r) \/ SdkStops(r)

\* What r knows of itself outlives the others' steps.
LEMMA UntouchedKeeps ==
  ASSUME NEW r \in Requests, Own(r), Untouched(r)
  PROVE  Own(r)'
  BY DEF Own, Untouched, Opening, Signalled, Telling, Finishing

\* A memoised snapshot of another catalog is not served (current).
LEMMA CurrentIsCatalog == Current = catalog
  BY DEF Current

\* The end of a request, and of nobody else's.
Ended(r, o) ==
    /\ phase' \in [Requests -> Phases] /\ outcome' \in [Requests -> Outcomes]
    /\ signal' \in [Requests -> Reasons]
    /\ phase'[r] = "ended" /\ outcome'[r] = o
    /\ signal'[r] = IF signal[r] = "live" THEN "consumer" ELSE signal[r]
    /\ \A q \in Requests \ {r} : /\ phase'[q] = phase[q] /\ outcome'[q] = outcome[q]
                                 /\ signal'[q] = signal[q]

\* What Ends writes.
LEMMA EndsWrites ==
  ASSUME TypeOK, NEW r \in Requests, NEW o \in Outcomes, Ends(r, o)
  PROVE  Ended(r, o)
  BY DEF TypeOK, Ends, Ended, Goto, Phases, Reasons

\* What Goto writes.
LEMMA GotoWrites ==
  ASSUME TypeOK, NEW r \in Requests, NEW p \in Phases, Goto(r, p)
  PROVE  /\ phase' \in [Requests -> Phases] /\ phase'[r] = p
         /\ \A q \in Requests \ {r} : phase'[q] = phase[q]
  BY DEF TypeOK, Goto

\* The other variables of a step: typed, and only r's own entry changed.
Frame(r) ==
    /\ TypeOK'
    /\ \A q \in Requests \ {r} : Untouched(q)

\* So a step needs looking at for its own request only.
LEMMA OneRequest ==
  ASSUME StreamInv, NEW r \in Requests, Frame(r), Own(r)'
  PROVE  StreamInv'
  BY UntouchedKeeps DEF StreamInv, Frame

\* A chunk handed out, or dropped for the timeout.
Handed(r, c) ==
    /\ phase' \in [Requests -> Phases] /\ outcome' \in [Requests -> Outcomes]
    /\ signal' \in [Requests -> Reasons]
    /\ chunk' = [chunk EXCEPT ![r] = c] \/ chunk' = chunk
    /\ signal'[r] = signal[r]
    /\ \/ /\ signal[r] # "timeout" /\ phase'[r] = "yielded" /\ chunk'[r] = c
          /\ outcome'[r] = outcome[r]
       \/ /\ signal[r] = "timeout" /\ phase'[r] = "ended" /\ chunk'[r] = chunk[r]
          /\ outcome'[r] = "TIMEOUT"
    /\ \A q \in Requests \ {r} : /\ phase'[q] = phase[q] /\ outcome'[q] = outcome[q]
                                 /\ signal'[q] = signal[q]

\* What Result writes.
LEMMA ResultWrites ==
  ASSUME TypeOK, NEW r \in Requests, NEW c \in Chunks, Result(r, c)
  PROVE  Handed(r, c)
  <1>1. CASE signal[r] # "timeout" /\ Goto(r, "yielded")
             /\ chunk' = [chunk EXCEPT ![r] = c] /\ UNCHANGED <<signal, outcome>>
    BY <1>1, GotoWrites DEF TypeOK, Phases, Handed
  <1>2. CASE signal[r] = "timeout" /\ Ends(r, "TIMEOUT") /\ UNCHANGED chunk
    <2>1. Ended(r, "TIMEOUT")
      BY <1>2, EndsWrites DEF Outcomes, Codes
    <2> QED BY <1>2, <2>1 DEF Ended, Handed
  <1> QED BY <1>1, <1>2 DEF Result

\* The call itself starts nothing.
LEMMA CalledKeeps ==
  ASSUME StreamInv, NEW r \in Requests, Called(r)
  PROVE  Frame(r) /\ Own(r)'
  <1>1. TypeOK /\ Own(r)
    BY DEF StreamInv
  <1>2. Frame(r)
    BY <1>1 DEF Frame, TypeOK, Untouched, Called, Goto, Phases
  <1>3. Own(r)'
    BY <1>1 DEF TypeOK, Own, Opening, Signalled, Telling, Finishing, Unopened,
       Called, Goto
  <1> QED BY <1>2, <1>3

\* The upstream request goes up on the captured snapshot.
LEMMA OpenedKeeps ==
  ASSUME StreamInv, NEW r \in Requests, Opened(r)
  PROVE  Frame(r) /\ Own(r)'
  <1>1. TypeOK /\ Own(r)
    BY DEF StreamInv
  <1>2. Frame(r)
    BY <1>1 DEF Frame, TypeOK, Untouched, Opened, Goto, Translator, Phases, Places
  <1>3. Own(r)'
    BY <1>1 DEF TypeOK, Own, Opening, Signalled, Telling, Finishing, Unopened,
       Opened, Goto, Translator
  <1> QED BY <1>2, <1>3

\* The next next() is pending.
LEMMA PullKeeps ==
  ASSUME StreamInv, NEW r \in Requests, Pull(r)
  PROVE  Frame(r) /\ Own(r)'
  <1>1. TypeOK /\ Own(r)
    BY DEF StreamInv
  <1>2. Frame(r)
    BY <1>1 DEF Frame, TypeOK, Untouched, Pull, Goto, Translator, Phases, Places
  <1>3. Own(r)'
    BY <1>1 DEF TypeOK, Own, Opening, Signalled, Telling, Finishing, Unopened,
       Pull, Goto, Translator
  <1> QED BY <1>2, <1>3

\* The idle timer aborts a live signal.
LEMMA TimerFiresKeeps ==
  ASSUME StreamInv, NEW r \in Requests, TimerFires(r)
  PROVE  Frame(r) /\ Own(r)'
  <1>1. TypeOK /\ Own(r)
    BY DEF StreamInv
  <1>2. Frame(r)
    BY <1>1 DEF Frame, TypeOK, Untouched, TimerFires, Reasons
  <1>3. Own(r)'
    BY <1>1 DEF TypeOK, Own, Opening, Signalled, Telling, Finishing, Unopened,
       TimerFires
  <1> QED BY <1>2, <1>3

\* The caller aborts.
LEMMA CallerAbortsKeeps ==
  ASSUME StreamInv, NEW r \in Requests, CallerAborts(r)
  PROVE  Frame(r) /\ Own(r)'
  <1>1. TypeOK /\ Own(r)
    BY DEF StreamInv
  <1>2. Frame(r)
    BY <1>1 DEF Frame, TypeOK, Untouched, CallerAborts, Reasons
  <1>3. Own(r)'
    BY <1>1 DEF TypeOK, Own, Opening, Signalled, Telling, Finishing, Unopened,
       CallerAborts
  <1> QED BY <1>2, <1>3

\* pi-ai gives an ended request up.
LEMMA SdkStopsKeeps ==
  ASSUME StreamInv, NEW r \in Requests, SdkStops(r)
  PROVE  Frame(r) /\ Own(r)'
  <1>1. TypeOK /\ Own(r)
    BY DEF StreamInv
  <1>2. Frame(r)
    BY <1>1 DEF Frame, TypeOK, Untouched, SdkStops
  <1>3. Own(r)'
    BY <1>1 DEF TypeOK, Own, Opening, Signalled, Telling, Finishing, Unopened, SdkStops
  <1> QED BY <1>2, <1>3

\* The snapshot captured is the catalog's of the moment.
LEMMA BeginKeeps ==
  ASSUME StreamInv, NEW r \in Requests, Begin(r)
  PROVE  Frame(r) /\ Own(r)'
  <1>1. TypeOK /\ Own(r)
    BY DEF StreamInv
  <1>2. Current = catalog /\ Current \in 1..MaxCatalog
    BY <1>1, CurrentIsCatalog DEF TypeOK
  <1>3. Frame(r)
    BY <1>1, <1>2, StreamAssumption DEF Frame, TypeOK, Untouched, Begin, Goto, Phases
  <1>4. Own(r)'
    BY <1>1, <1>2 DEF TypeOK, Own, Opening, Signalled, Telling, Finishing,
       Unopened, Begin, Goto
  <1> QED BY <1>3, <1>4

\* A refusal before the watchdog is created, or the watchdog.
LEMMA KeySettlesKeeps ==
  ASSUME StreamInv, NEW r \in Requests, KeySettles(r)
  PROVE  Frame(r) /\ Own(r)'
  <1>1. TypeOK /\ Own(r)
    BY DEF StreamInv
  <1>2. UNCHANGED <<catalog, memo, pinned, begun, sent, caller, events, deltas, sdk, chunk>>
    BY DEF KeySettles
  <1>3. ASSUME NEW code \in {"NO_KEY", "UNKNOWN_MODEL", "UNSUPPORTED"}, Refuse(r, code),
               UNCHANGED signal
        PROVE  Frame(r) /\ Own(r)'
    <2>1. Frame(r)
      BY <1>1, <1>2, <1>3 DEF Frame, TypeOK, Untouched, Refuse, Goto, Phases,
         Outcomes, Codes
    <2>2. Own(r)'
      BY <1>1, <1>2, <1>3 DEF TypeOK, Own, Opening, Signalled, Telling, Finishing,
         Unopened, Refuse, Goto, KeySettles
    <2> QED BY <2>1, <2>2
  <1>4. ASSUME signal' = [signal EXCEPT ![r] = IF caller[r] THEN "caller" ELSE "live"],
               Goto(r, "context"), UNCHANGED outcome
        PROVE  Frame(r) /\ Own(r)'
    <2>1. Frame(r)
      BY <1>1, <1>2, <1>4 DEF Frame, TypeOK, Untouched, Goto, Phases, Reasons
    <2>2. Own(r)'
      BY <1>1, <1>2, <1>4 DEF TypeOK, Own, Opening, Signalled, Telling, Finishing,
         Unopened, Goto, KeySettles
    <2> QED BY <2>1, <2>2
  <1> QED BY <1>3, <1>4 DEF KeySettles

\* The context cannot be built.
LEMMA ContextFailsKeeps ==
  ASSUME StreamInv, NEW r \in Requests, ContextFails(r)
  PROVE  Frame(r) /\ Own(r)'
  <1> DEFINE o == Told(r, "UNSUPPORTED")
  <1>1. TypeOK /\ Own(r)
    BY DEF StreamInv
  <1>2. o \in Outcomes
    BY DEF Told, Outcomes, Codes
  <1>3. Ends(r, o)
    BY DEF ContextFails
  <1> HIDE DEF o
  <1>4. Ended(r, o)
    BY <1>1, <1>2, <1>3, EndsWrites
  <1>5. Frame(r)
    BY <1>1, <1>4 DEF Frame, TypeOK, Untouched, Ended, ContextFails, Translator, Places
  <1>6. Own(r)'
    BY <1>1, <1>4 DEF TypeOK, Own, Opening, Signalled, Telling, Finishing,
       Unopened, Ended, o, Told, ContextFails,
       Translator, Pulling, Reasons
  <1> QED BY <1>5, <1>6

\* The source ends without a terminal event.
LEMMA BrokenOffKeeps ==
  ASSUME StreamInv, NEW r \in Requests, BrokenOff(r)
  PROVE  Frame(r) /\ Own(r)'
  <1> DEFINE o == Told(r, "STREAM_CLOSED")
  <1>1. TypeOK /\ Own(r)
    BY DEF StreamInv
  <1>2. o \in Outcomes
    BY DEF Told, Outcomes, Codes
  <1>3. Ends(r, o)
    BY DEF BrokenOff
  <1> HIDE DEF o
  <1>4. Ended(r, o)
    BY <1>1, <1>2, <1>3, EndsWrites
  <1>5. Frame(r)
    BY <1>1, <1>4 DEF Frame, TypeOK, Untouched, Ended, BrokenOff, Translator, Places
  <1>6. Own(r)'
    BY <1>1, <1>4 DEF TypeOK, Own, Opening, Signalled, Telling, Finishing,
       Unopened, Ended, o, Told, BrokenOff,
       Translator, Pulling, Reasons
  <1> QED BY <1>5, <1>6

\* A tool call's arguments are no object.
LEMMA MalformedKeeps ==
  ASSUME StreamInv, NEW r \in Requests, Malformed(r)
  PROVE  Frame(r) /\ Own(r)'
  <1> DEFINE o == Told(r, "INVALID_REQUEST")
  <1>1. TypeOK /\ Own(r)
    BY DEF StreamInv
  <1>2. o \in Outcomes
    BY DEF Told, Outcomes, Codes
  <1>3. Ends(r, o)
    BY DEF Malformed
  <1> HIDE DEF o
  <1>4. Ended(r, o)
    BY <1>1, <1>2, <1>3, EndsWrites
  <1>5. Frame(r)
    BY <1>1, <1>4 DEF Frame, TypeOK, Untouched, Ended, Malformed, Translator, Places
  <1>6. Own(r)'
    BY <1>1, <1>4 DEF TypeOK, Own, Opening, Signalled, Telling, Finishing,
       Unopened, Ended, o, Told, Malformed,
       Translator, Pulling, Reasons
  <1> QED BY <1>5, <1>6

\* The translator is done: behind its finish chunk, or past the deadline.
LEMMA ExhaustedKeeps ==
  ASSUME StreamInv, NEW r \in Requests, Exhausted(r)
  PROVE  Frame(r) /\ Own(r)'
  <1> DEFINE o == IF signal[r] = "timeout" THEN "TIMEOUT" ELSE "done"
  <1>1. TypeOK /\ Own(r)
    BY DEF StreamInv
  <1>2. o \in Outcomes
    BY DEF Told, Outcomes, Codes
  <1>3. Ends(r, o)
    BY DEF Exhausted
  <1> HIDE DEF o
  <1>4. Ended(r, o)
    BY <1>1, <1>2, <1>3, EndsWrites
  <1>5. Frame(r)
    BY <1>1, <1>4 DEF Frame, TypeOK, Untouched, Ended, Exhausted, Translator, Places
  <1>6. Own(r)'
    BY <1>1, <1>4 DEF TypeOK, Own, Opening, Signalled, Telling, Finishing,
       Unopened, Ended, o, Told, Exhausted,
       Translator, Pulling, Reasons
  <1> QED BY <1>5, <1>6

\* The queued return() runs.
LEMMA TornDownKeeps ==
  ASSUME StreamInv, NEW r \in Requests, TornDown(r)
  PROVE  Frame(r) /\ Own(r)'
  <1> DEFINE o == Told(r, "ABORTED")
  <1>1. TypeOK /\ Own(r)
    BY DEF StreamInv
  <1>2. o \in Outcomes
    BY DEF Told, Outcomes, Codes
  <1>3. Ends(r, o)
    BY DEF TornDown
  <1> HIDE DEF o
  <1>4. Ended(r, o)
    BY <1>1, <1>2, <1>3, EndsWrites
  <1>5. Frame(r)
    BY <1>1, <1>4 DEF Frame, TypeOK, Untouched, Ended, TornDown, Translator, Places
  <1>6. Own(r)'
    BY <1>1, <1>4 DEF TypeOK, Own, Opening, Signalled, Telling, Finishing,
       Unopened, Ended, o, Told, TornDown,
       Translator, Pulling, Reasons
  <1> QED BY <1>5, <1>6

\* The consumer stops at a chunk.
LEMMA StopKeeps ==
  ASSUME StreamInv, NEW r \in Requests, Stop(r)
  PROVE  Frame(r) /\ Own(r)'
  <1> DEFINE o == "stopped"
  <1>1. TypeOK /\ Own(r)
    BY DEF StreamInv
  <1>2. o \in Outcomes
    BY DEF Told, Outcomes, Codes
  <1>3. Ends(r, o)
    BY DEF Stop
  <1> HIDE DEF o
  <1>4. Ended(r, o)
    BY <1>1, <1>2, <1>3, EndsWrites
  <1>5. Frame(r)
    BY <1>1, <1>4 DEF Frame, TypeOK, Untouched, Ended, Stop, Translator, Places
  <1>6. Own(r)'
    BY <1>1, <1>4 DEF TypeOK, Own, Opening, Signalled, Telling, Finishing,
       Unopened, Ended, o, Told, Stop,
       Translator, Pulling, Reasons
  <1> QED BY <1>5, <1>6

\* A delta.
LEMMA DeltaKeeps ==
  ASSUME StreamInv, NEW r \in Requests, Delta(r)
  PROVE  Frame(r) /\ Own(r)'
  <1>1. TypeOK /\ Own(r)
    BY DEF StreamInv
  <1>2. Result(r, "delta")
    BY DEF Delta
  <1>3. Handed(r, "delta")
    BY <1>1, <1>2, ResultWrites DEF Chunks
  <1>4. Frame(r)
    <2>1. deltas[r] \in Nat /\ deltas[r] + 1 \in 0..MaxDeltas
      BY <1>1, StreamAssumption DEF TypeOK, Delta
    <2>2. deltas' \in [Requests -> 0..MaxDeltas]
      BY <1>1, <2>1 DEF TypeOK, Delta
    <2> QED BY <1>1, <1>3, <2>2 DEF Frame, TypeOK, Untouched, Handed, Delta,
           Translator, Places, Chunks
  <1>5. Own(r)'
    BY <1>1, <1>3 DEF TypeOK, Own, Opening, Signalled, Telling, Finishing,
       Unopened, Handed, Delta,
       Translator, Pulling
  <1> QED BY <1>4, <1>5

\* The terminal event and its usage chunk.
LEMMA TerminalKeeps ==
  ASSUME StreamInv, NEW r \in Requests, Terminal(r)
  PROVE  Frame(r) /\ Own(r)'
  <1>1. TypeOK /\ Own(r)
    BY DEF StreamInv
  <1>2. Result(r, "usage")
    BY DEF Terminal
  <1>3. Handed(r, "usage")
    BY <1>1, <1>2, ResultWrites DEF Chunks
  <1>4. Frame(r)
    BY <1>1, <1>3 DEF Frame, TypeOK, Untouched, Handed, Terminal, Translator,
       Places, Chunks
  <1>5. Own(r)'
    BY <1>1, <1>3 DEF TypeOK, Own, Opening, Signalled, Telling, Finishing,
       Unopened, Handed, Terminal,
       Translator, Pulling
  <1> QED BY <1>4, <1>5

\* The finish chunk.
LEMMA FinishesKeeps ==
  ASSUME StreamInv, NEW r \in Requests, Finishes(r)
  PROVE  Frame(r) /\ Own(r)'
  <1>1. TypeOK /\ Own(r)
    BY DEF StreamInv
  <1>2. Result(r, "finish")
    BY DEF Finishes
  <1>3. Handed(r, "finish")
    BY <1>1, <1>2, ResultWrites DEF Chunks
  <1>4. Frame(r)
    BY <1>1, <1>3 DEF Frame, TypeOK, Untouched, Handed, Finishes, Translator,
       Places, Chunks
  <1>5. Own(r)'
    BY <1>1, <1>3 DEF TypeOK, Own, Opening, Signalled, Telling, Finishing,
       Unopened, Handed, Finishes,
       Translator, Pulling
  <1> QED BY <1>4, <1>5

\* watchdog.next rejects: into the tear-down, or straight out.
LEMMA RejectsKeeps ==
  ASSUME StreamInv, NEW r \in Requests, Rejects(r)
  PROVE  Frame(r) /\ Own(r)'
  <1>1. TypeOK /\ Own(r)
    BY DEF StreamInv
  <1>2. /\ UNCHANGED <<catalog, memo, pinned, begun, sent, caller, deltas, sdk, chunk>>
        /\ phase[r] = "next" /\ signal[r] # "live"
    BY DEF Rejects
  <1>3. ASSUME events[r] = "pulling", Goto(r, "teardown"),
               UNCHANGED <<events, signal, outcome>>
        PROVE  Frame(r) /\ Own(r)'
    <2>1. Frame(r)
      BY <1>1, <1>2, <1>3 DEF Frame, TypeOK, Untouched, Goto, Phases
    <2>2. Own(r)'
      BY <1>1, <1>2, <1>3 DEF TypeOK, Own, Opening, Signalled, Telling, Finishing,
         Unopened, Goto
    <2> QED BY <2>1, <2>2
  <1>4. ASSUME Translator(r, "over"), Ends(r, Told(r, "ABORTED"))
        PROVE  Frame(r) /\ Own(r)'
    <2> DEFINE o == Told(r, "ABORTED")
    <2>1. o \in Outcomes
      BY DEF Told, Outcomes, Codes
    <2>2. Ends(r, o)
      BY <1>4
    <2> HIDE DEF o
    <2>3. Ended(r, o)
      BY <1>1, <2>1, <2>2, EndsWrites
    <2>4. Frame(r)
      BY <1>1, <1>2, <1>4, <2>3 DEF Frame, TypeOK, Untouched, Ended, Translator, Places
    <2>5. Own(r)'
      BY <1>1, <1>2, <1>4, <2>3 DEF TypeOK, Own, Opening, Signalled, Telling,
         Finishing, Unopened,
         Ended, o, Told, Translator, Reasons
    <2> QED BY <2>4, <2>5
  <1> QED BY <1>3, <1>4 DEF Rejects

\* Another catalog, or another look at it, is no request's concern.
LEMMA CatalogStepKeeps ==
  ASSUME StreamInv, CatalogSwaps \/ Looks
  PROVE  StreamInv'
  <1>1. TypeOK'
    BY CurrentIsCatalog, StreamAssumption DEF StreamInv, TypeOK, CatalogSwaps,
       Looks, requestVars
  <1>2. ASSUME NEW r \in Requests PROVE Own(r)'
    <2>1. Untouched(r)
      BY DEF CatalogSwaps, Looks, requestVars, Untouched
    <2> QED BY <2>1, UntouchedKeeps DEF StreamInv
  <1> QED BY <1>1, <1>2 DEF StreamInv

\* Init establishes the invariant, every step keeps it.
LEMMA InitHolds == Init => StreamInv
  <1> SUFFICES ASSUME Init PROVE StreamInv
    OBVIOUS
  <1>1. TypeOK
    BY StreamAssumption DEF Init, TypeOK, Phases, Reasons, Places, Chunks,
       Outcomes, Codes
  <1>2. ASSUME NEW r \in Requests PROVE Own(r)
    BY DEF Init, Own, Opening, Signalled, Telling, Finishing, Unopened
  <1> QED BY <1>1, <1>2 DEF StreamInv

\* One case per action, each a lemma above.
LEMMA StepKeeps == StreamInv /\ [Next]_vars => StreamInv'
  <1> SUFFICES ASSUME StreamInv, [Next]_vars PROVE StreamInv'
    OBVIOUS
  <1>1. ASSUME NEW r \in Requests, RequestStep(r) PROVE StreamInv'
    <2>1. Frame(r) /\ Own(r)'
      <3>1. CASE Prepares(r)
        BY <3>1, BeginKeeps, KeySettlesKeeps, ContextFailsKeeps,
           OpenedKeeps DEF Prepares
      <3>2. CASE SdkSpeaks(r)
        BY <3>2, DeltaKeeps, TerminalKeeps, BrokenOffKeeps, MalformedKeeps DEF SdkSpeaks
      <3>3. CASE Settles(r)
        BY <3>3, FinishesKeeps, ExhaustedKeeps, RejectsKeeps DEF Settles
      <3>4. CASE Called(r) \/ Pull(r) \/ Stop(r)
        BY <3>4, CalledKeeps, PullKeeps, StopKeeps
      <3>5. CASE TimerFires(r) \/ TornDown(r) \/ CallerAborts(r) \/ SdkStops(r)
        BY <3>5, TimerFiresKeeps, TornDownKeeps, CallerAbortsKeeps, SdkStopsKeeps
      <3> QED BY <1>1, <3>1, <3>2, <3>3, <3>4, <3>5 DEF RequestStep
    <2> QED BY <2>1, OneRequest
  <1>2. CASE CatalogSwaps \/ Looks
    BY <1>2, CatalogStepKeeps
  <1>3. CASE UNCHANGED vars
    <2>1. TypeOK'
      BY <1>3 DEF StreamInv, TypeOK, vars, requestVars
    <2>2. ASSUME NEW r \in Requests PROVE Own(r)'
      <3>1. Untouched(r)
        BY <1>3 DEF vars, requestVars, Untouched
      <3> QED BY <3>1, UntouchedKeeps DEF StreamInv
    <2> QED BY <2>1, <2>2 DEF StreamInv
  <1> QED BY <1>1, <1>2, <1>3 DEF Next, RequestStep

\* The inductive invariant.
LEMMA StreamInvAlways == Spec => []StreamInv
  BY InitHolds, StepKeeps, PTL DEF Spec

\* Every variable keeps its type.
THEOREM TypeCorrect == Spec => []TypeOK
  <1>1. StreamInv => TypeOK
    BY DEF StreamInv
  <1> QED BY <1>1, StreamInvAlways, PTL

\* Whatever swaps while a request waits, the catalog that goes upstream is the one of
\* the moment the request began (stream).
THEOREM CatalogIsKept == Spec => []RequestKeepsItsCatalog
  <1>1. StreamInv => RequestKeepsItsCatalog
    BY DEF StreamInv, Own, Opening, RequestKeepsItsCatalog
  <1> QED BY <1>1, StreamInvAlways, PTL

\* No exit of a stream leaves its upstream request running unaborted (the two
\* finally blocks).
THEOREM NoUpstreamIsLeft == Spec => []UpstreamIsStopped
  <1>1. StreamInv => UpstreamIsStopped
    BY DEF StreamInv, Own, Signalled, UpstreamIsStopped
  <1> QED BY <1>1, StreamInvAlways, PTL

\* A stream is told a timeout exactly when its idle timer was the first to abort it,
\* and ABORTED only when its caller did (the check after next, the catch block).
THEOREM TimeoutsAreTold == Spec => []TimeoutIsTold
  <1>1. StreamInv => TimeoutIsTold
    BY DEF StreamInv, Own, Signalled, Telling, TimeoutIsTold
  <1> QED BY <1>1, StreamInvAlways, PTL

\* Behind the finish chunk a stream ends normally, or for its consumer, its caller or
\* its timer; and it ends normally nowhere else (toStreamChunks).
THEOREM DoneBehindFinish == Spec => []DoneMeansFinished
  <1>1. StreamInv => DoneMeansFinished
    BY DEF StreamInv, Own, Finishing, DoneMeansFinished
  <1> QED BY <1>1, StreamInvAlways, PTL

===============================================================================
