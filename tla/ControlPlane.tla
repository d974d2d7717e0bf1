----------------------------- MODULE ControlPlane ------------------------------
(***************************************************************************)
(* The control plane end to end: the Connect card (src/client), the        *)
(* same-origin routes it fetches (src/web-routes.ts), the control seam     *)
(* behind them (src/control.ts, src/control-wiring.ts) and the doctor      *)
(* (src/doctor.ts), over a plugin that comes and goes and whose source    *)
(* yields another reference now and then (PluginSource, which HostWiring   *)
(* implements), a network that loses requests and replies, and other       *)
(* writers of the same credential.                                         *)
(*                                                                         *)
(* One card at a time: it leaves the page and comes back, and what its     *)
(* earlier requests started on the host goes on.  An unmounted card's      *)
(* handler sets state nobody shows and reads a status nobody sees; that is *)
(* left out.  External, modelled from their use here: the credentials      *)
(* service (it settles; a write it rejects may have been stored), fetch,   *)
(* and the web server (no route while the plugin is not mounted).  What a  *)
(* notice or the outcome of a test says is left out.                       *)
(***************************************************************************)
EXTENDS Naturals

CONSTANTS
    Refs,           \* the credential references a configuration may name
    Calls           \* bound: the control calls there can be at a time

ASSUME ControlAssumption == Calls \subseteq Nat \ {0} /\ Refs # {}

VARIABLES
    mounted,        \* is the plugin mounted, or still being torn down?
    apiKeyEnv,      \* the reference current() yields
    store,          \* reference -> does the credentials service hold a key for it?
    captured,       \* did the control seam capture a credentials service at the mount?
    call,           \* call -> what the card asked and where the host is with it
    shown,          \* is the card mounted?
    phase,          \* what it says of the credential
    input,          \* does its key input hold a key?
    doing,          \* the handler that runs; busy while it is not "idle"
    notice,         \* does it show a notice?
    reading,        \* the call its mount read waits for, or none
    acting,         \* the call its handler waits for, or none
    trusted         \* nothing but the card changed the credential since it last asked (history)

Plugin == INSTANCE PluginSource

cardVars == <<shown, phase, input, doing, notice, reading, acting>>
pluginVars == <<mounted, apiKeyEnv>>
vars == <<pluginVars, store, captured, call, cardVars, trusted>>

None == 0
Kinds == {"status", "connect", "disconnect", "doctor"}
Steps == {"free", "sent", "describing", "storing", "key", "fetch", "replied"}
Replies == {"none", "error", "yes", "no", "connected", "disconnected", "refused", "outcome"}

AnyRef == CHOOSE ref \in Refs : TRUE

\* Where a call is, what it asks, the reference its seam read, and its reply.
Free == [at |-> "free", kind |-> "status", ref |-> AnyRef, reply |-> "none"]

Init ==
    /\ Plugin!Init
    /\ store \in [Refs -> BOOLEAN] /\ captured = FALSE
    /\ call = [c \in Calls |-> Free]
    /\ shown = FALSE /\ phase = "loading" /\ input = FALSE /\ doing = "idle"
    /\ notice = FALSE /\ reading = None /\ acting = None /\ trusted = FALSE

\* Is a key stored for the reference the plugin reads now?
Configured == store[apiKeyEnv]

\* What a step of anybody but the card's own calls does to its trust.
Noticed == trusted' = (trusted /\ apiKeyEnv' = apiKeyEnv /\ Configured' = Configured)

Awaited(c) == c \in {reading, acting}

\* What a step of a call does to it: only the card's present calls are its own.
NoticedUnlessOwn(c) == IF c = acting THEN UNCHANGED trusted ELSE Noticed

------------------------------------------------------------------------------
(* The host side of a call.                                                *)

\* The reply goes to whoever waits for it.
Reply(c, r) ==
    call' = [call EXCEPT ![c] = IF Awaited(c) THEN [Free EXCEPT !.at = "replied", !.reply = r]
                                              ELSE Free]

AtHost(c, at) == call' = [call EXCEPT ![c].at = at, ![c].ref = apiKeyEnv]

hostSide == <<store, captured, cardVars>>

\* controlHandler: the method and trust gates, the bounded body, then the seam, which
\* reads the configuration once, before it awaits anything.
Arrives(c) ==
    /\ call[c].at = "sent"
    /\ \/ Reply(c, "error")     \* refused, too long, or no route while the plugin is away
       \/ /\ mounted
          /\ AtHost(c, IF call[c].kind = "doctor" THEN "key" ELSE "describing")
    /\ UNCHANGED <<pluginVars, hostSide, trusted>>

\* credentials.describe answers, for a seam that captured a service; what the seam then
\* does depends on whether the store may be written from here.
Described(c) ==
    /\ call[c].at = "describing"
    /\ UNCHANGED <<pluginVars, hostSide, trusted>>
    /\ \/ Reply(c, "error")
       \/ /\ call[c].kind = "status"
          /\ Reply(c, IF captured /\ store[call[c].ref] THEN "yes" ELSE "no")
       \/ /\ call[c].kind # "status"
          /\ Reply(c, "refused")    \* not writable, or a key that is not canonical
       \/ /\ call[c].kind # "status" /\ captured
          /\ call' = [call EXCEPT ![c].at = "storing"]

\* credentials.set and unset settle, for the reference read when the call began.
Stores(c) ==
    /\ call[c].at = "storing"
    /\ LET on == call[c].kind = "connect"
           done == [store EXCEPT ![call[c].ref] = on]
       IN \/ store' = done /\ Reply(c, IF on THEN "connected" ELSE "disconnected")
          \/ store' \in {store, done} /\ Reply(c, "refused")
    /\ UNCHANGED <<pluginVars, captured, cardVars>>
    /\ NoticedUnlessOwn(c)

\* runDoctor: the key, then the request and its body; each may settle, or never do.
DoctorSeam(c) ==
    /\ \/ call[c].at = "key" /\ store[call[c].ref] /\ call' = [call EXCEPT ![c].at = "fetch"]
       \/ call[c].at \in {"key", "fetch"} /\ Reply(c, "outcome")
    /\ UNCHANGED <<pluginVars, hostSide, trusted>>

\* Wrong variant: the key is resolved before the deadline is set.
DeadlineAfterKey(c) ==
    /\ call[c].at = "fetch"
    /\ Reply(c, "outcome")
    /\ UNCHANGED <<pluginVars, hostSide, trusted>>

\* The doctor's deadline: it covers every seam, and settles the race the seam is in.
DoctorDeadline(c) ==
    /\ call[c].at \in {"key", "fetch"}
    /\ Reply(c, "outcome")
    /\ UNCHANGED <<pluginVars, hostSide, trusted>>

------------------------------------------------------------------------------
(* The card.                                                               *)

\* The first free call is as good as any.
Fresh(c) == call[c] = Free /\ \A d \in Calls : call[d] = Free => c <= d

Request(c, kind) == call' = [call EXCEPT ![c] = [Free EXCEPT !.at = "sent", !.kind = kind]]

\* The card's effect: a fresh card asks for the status.
Mounts(c) ==
    /\ ~shown /\ Fresh(c)
    /\ shown' = TRUE /\ phase' = "loading" /\ input' = FALSE /\ doing' = "idle"
    /\ notice' = FALSE /\ acting' = None
    /\ Request(c, "status") /\ reading' = c
    /\ trusted' = TRUE
    /\ UNCHANGED <<pluginVars, store, captured>>

\* What is left of a call nobody waits for any more: the host goes on with a write; what
\* becomes of a read concerns nobody.
Abandoned(c) ==
    IF call[c].at # "replied" /\ call[c].kind \in {"connect", "disconnect"} THEN call[c] ELSE Free

\* The cleanup cancels the reads.
Unmounts ==
    /\ shown /\ shown' = FALSE
    /\ call' = [c \in Calls |-> IF Awaited(c) THEN Abandoned(c) ELSE call[c]]
    /\ reading' = None /\ acting' = None
    /\ phase' = "loading" /\ input' = FALSE /\ doing' = "idle" /\ notice' = FALSE
    /\ trusted' = FALSE
    /\ UNCHANGED <<pluginVars, store, captured>>

Types ==
    /\ shown /\ doing = "idle" /\ ~input
    /\ input' = TRUE
    /\ UNCHANGED <<pluginVars, store, captured, call, shown, phase, doing, notice, reading,
                   acting, trusted>>

\* setBusy(true), and the request is sent.
Starts(c, kind, what) ==
    /\ shown /\ doing = "idle" /\ Fresh(c)
    /\ doing' = what /\ acting' = c
    /\ Request(c, kind)
    /\ UNCHANGED <<pluginVars, store, captured, shown, phase, input, reading>>

\* handleConnect and handleDisconnect: the mount read may still be out.
Connects(c) ==
    /\ input
    /\ Starts(c, "connect", "connecting")
    /\ notice' = FALSE /\ trusted' = (reading = None)

Disconnects(c) ==
    /\ phase = "connected"
    /\ Starts(c, "disconnect", "disconnecting")
    /\ notice' = FALSE /\ trusted' = (reading = None)

\* Wrong variant: the test clears the notice as well.
TestsClearing(c) ==
    /\ Starts(c, "doctor", "testing")
    /\ notice' = FALSE /\ UNCHANGED trusted

\* handleTest keeps the notice: it is all that says that the phase may be wrong.
Tests(c) ==
    /\ Starts(c, "doctor", "testing")
    /\ UNCHANGED <<notice, trusted>>

Tell(r) == phase' = IF r = "yes" THEN "connected" ELSE "disconnected"

\* The mount read is answered, or its fetch rejects.
MountReadSettles(answer) ==
    /\ reading # None
    /\ Tell(answer)
    /\ notice' = (notice \/ answer = "error")
    /\ call' = [call EXCEPT ![reading] = Abandoned(reading)] /\ reading' = None
    /\ UNCHANGED <<pluginVars, store, captured, shown, input, doing, acting, trusted>>

\* setBusy(false).
Finishes ==
    /\ doing' = "idle" /\ acting' = None
    /\ call' = [call EXCEPT ![acting] = Abandoned(acting)]

\* An action is answered: a stored or removed key is followed by a read of the status, all
\* else is told; the input is cleared whatever the answer was.
ActionSettles(answer) ==
    /\ doing \in {"connecting", "disconnecting", "testing"}
    /\ input' = FALSE
    /\ UNCHANGED <<pluginVars, store, captured, shown, phase, reading, trusted>>
    /\ IF answer \in {"connected", "disconnected"}
       THEN /\ Request(acting, "status")
            /\ doing' = "refreshing" /\ UNCHANGED <<acting, notice>>
       ELSE /\ Finishes
            /\ notice' = (notice \/ doing # "testing")

\* refreshStatus inside the handler: a status that cannot be read is told as a failure.
RefreshSettles(answer) ==
    /\ doing = "refreshing"
    /\ Finishes
    /\ IF answer = "error"
       THEN notice' = TRUE /\ UNCHANGED phase
       ELSE Tell(answer) /\ UNCHANGED notice
    /\ UNCHANGED <<pluginVars, store, captured, shown, input, reading, trusted>>

Settles(c, answer) ==
    \/ c = reading /\ MountReadSettles(answer)
    \/ c = acting /\ (ActionSettles(answer) \/ RefreshSettles(answer))

\* The reply arrives.
Answered(c) == call[c].at = "replied" /\ Settles(c, call[c].reply)

\* fetch rejects while the request or its reply is under way: the host may go on.
Loses(c) == call[c].at # "free" /\ Settles(c, "error")

------------------------------------------------------------------------------
(* Everybody else.                                                         *)

\* mountControl captures the credentials service there is at the mount, if there is one.
PluginMounts ==
    /\ Plugin!Mounts
    /\ captured' \in BOOLEAN /\ trusted' = FALSE
    /\ UNCHANGED <<store, call, cardVars>>

\* The end of the teardown; a call that has reached the seam goes on.  The routes may be
\* withdrawn earlier: Arrives answers with an error at any time.
PluginUnmounts ==
    /\ Plugin!Unmounts
    /\ UNCHANGED <<store, captured, call, cardVars, trusted>>

\* The source yields another reference.
SourceChanges ==
    /\ Plugin!Changes
    /\ UNCHANGED <<store, captured, call, cardVars>> /\ Noticed

\* Another tab, the Models page or a command writes a credential.
RivalWrites ==
    /\ \E ref \in Refs : store' = [store EXCEPT ![ref] = ~@]
    /\ UNCHANGED <<pluginVars, captured, call, cardVars>> /\ Noticed

CallSteps(c) ==
    \/ Arrives(c) \/ Described(c) \/ Stores(c) \/ DoctorSeam(c) \/ DoctorDeadline(c)
    \/ Answered(c) \/ Loses(c)

CardSteps(c) == Mounts(c) \/ Connects(c) \/ Disconnects(c) \/ Tests(c)

Next ==
    \/ \E c \in Calls : CallSteps(c) \/ CardSteps(c)
    \/ Unmounts \/ Types
    \/ PluginMounts \/ PluginUnmounts \/ SourceChanges \/ RivalWrites

\* The network delivers or fails, the credentials service settles and the host's timers
\* fire; nothing makes a seam of the doctor settle.
Fairness ==
    \A c \in Calls : /\ WF_vars(Arrives(c)) /\ WF_vars(Described(c)) /\ WF_vars(Stores(c))
                     /\ WF_vars(DoctorDeadline(c)) /\ WF_vars(Answered(c))

Spec == Init /\ [][Next]_vars /\ Fairness

------------------------------------------------------------------------------

TypeOK ==
    /\ mounted \in BOOLEAN /\ apiKeyEnv \in Refs
    /\ store \in [Refs -> BOOLEAN] /\ captured \in BOOLEAN
    /\ call \in [Calls -> [at: Steps, kind: Kinds, ref: Refs,
                           reply: Replies]]
    /\ shown \in BOOLEAN /\ phase \in {"loading", "connected", "disconnected"}
    /\ input \in BOOLEAN /\ notice \in BOOLEAN /\ trusted \in BOOLEAN
    /\ doing \in {"idle", "connecting", "disconnecting", "testing", "refreshing"}
    /\ reading \in Calls \cup {None} /\ acting \in Calls \cup {None}

\* A card that has an answer, is not busy and shows no notice says what the credential is
\* for the reference the plugin reads, through every lost request and failed write: unless
\* somebody else changed it, the reference or the plugin since the card last asked (a key
\* its own abandoned request stored late counts), or the mount read was still out when an
\* action began (connect-card.tsx), or the seam was mounted without a credentials service.
CardTellsTheCredential ==
    /\ shown /\ doing = "idle" /\ ~notice /\ phase # "loading" /\ trusted /\ captured
    => (phase = "connected") = Configured

\* A handler of the card ends, whatever the doctor's key lookup, its request or its body
\* do: the buttons come back.
BusyEnds == doing # "idle" ~> doing = "idle"
================================================================================
