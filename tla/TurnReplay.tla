------------------------------ MODULE TurnReplay -------------------------------
(***************************************************************************)
(* A conversation through the adapter's translations: pi-ai's events become*)
(* harness blocks and a replay state (toStreamChunks, src/stream.ts;       *)
(* toReplayState, src/replay-state.ts), the harness keeps them as history, *)
(* and each later request rebuilds every earlier turn from that history    *)
(* (toPiContext, src/context.ts; toPiAssistant, src/replay.ts), or refuses.*)
(*                                                                         *)
(* The blocks of a turn interleave: each has an index, and a delta or an   *)
(* end may come for any open one.  A text is known by its index, a piece of*)
(* a tool call's arguments by its index and number.  External, modelled    *)
(* from their use here: pi-ai (every block has ended before `done`), and   *)
(* the harness, which keeps the blocks that ended in the order of their    *)
(* indices, with the replay state of a finish that carries one.            *)
(***************************************************************************)
EXTENDS Naturals, Sequences, FiniteSets

CONSTANTS
    MaxBlocks,      \* bound: blocks of a turn
    MaxDeltas,      \* bound: pieces of a tool call's arguments
    MaxTurns        \* bound: turns of the conversation

ASSUME TurnAssumption == MaxBlocks \in Nat /\ MaxDeltas \in Nat /\ MaxTurns \in Nat

VARIABLES
    at,             \* what the conversation is doing
    native,         \* the model's blocks, as pi-ai has them
    rawArguments,   \* index -> the pieces the translator has gathered
    blocks,         \* index -> the block its block-end published, or Missing
    history,        \* the assistant messages the harness keeps
    origin          \* the native message each of them came from, or NoNative (history)

vars == <<at, native, rawArguments, blocks, history, origin>>

Missing == [type |-> "none"]
NoReplay == [stopReason |-> "none", blocks |-> <<>>]
NoNative == [stopReason |-> "none", content |-> <<>>]
Types == {"text", "reasoning", "tool-call"}
Places == {"idle", "streaming", "INVALID_REQUEST", "INVALID_REPLAY_STATE"}
StopReasons == {"stop", "length", "toolUse"}

Indices == 1 .. MaxBlocks
Unsigned == 0

Init ==
    /\ at = "idle" /\ native = <<>>
    /\ rawArguments = [i \in Indices |-> <<>>]
    /\ blocks = [i \in Indices |-> Missing]
    /\ history = <<>> /\ origin = <<>>

------------------------------------------------------------------------------
(* A turn comes in (src/stream.ts).                                        *)

\* The first n pieces of call i; the end event's assembled arguments.
Pieces(i, n) == [k \in 1 .. n |-> <<i, k>>]
Assembled(i) == << <<i, 0>> >>

\* What the wire delivered of call i: its pieces, or nothing but the assembled object.
Delivered(i) == IF native[i].sent > 0 THEN Pieces(i, native[i].sent) ELSE Assembled(i)

\* isJsonObject: a call's own text is what the model meant it to be; pieces of several
\* calls strung together are no JSON.
IsJsonObject(text) ==
    \E i \in DOMAIN native : text = Delivered(i) /\ native[i].object

Open(i) == i \in DOMAIN native /\ ~native[i].ended

\* A block starts; for a tool call nothing has been gathered.
Starts(type, signature, object) ==
    /\ at = "streaming" /\ Len(native) < MaxBlocks
    /\ native' = Append(native, [type |-> type, signature |-> signature, object |-> object,
                                 sent |-> 0, ended |-> FALSE])
    /\ rawArguments' = [rawArguments EXCEPT ![Len(native) + 1] = <<>>]
    /\ UNCHANGED <<at, blocks, history, origin>>

\* Wrong variant: a piece goes to the call that started last.
DeltaToLast(i) ==
    /\ at = "streaming" /\ Open(i) /\ native[i].type = "tool-call" /\ native[i].sent < MaxDeltas
    /\ native' = [native EXCEPT ![i].sent = @ + 1]
    /\ rawArguments' = [rawArguments EXCEPT ![Len(native)] = Append(@, <<i, native[i].sent + 1>>)]
    /\ UNCHANGED <<at, blocks, history, origin>>

\* A piece of a tool call's arguments.
Delta(i) ==
    /\ at = "streaming" /\ Open(i) /\ native[i].type = "tool-call" /\ native[i].sent < MaxDeltas
    /\ native' = [native EXCEPT ![i].sent = @ + 1]
    /\ rawArguments' = [rawArguments EXCEPT ![i] = Append(@, <<i, native[i].sent + 1>>)]
    /\ UNCHANGED <<at, blocks, history, origin>>

Publish(i, block) == blocks' = [blocks EXCEPT ![i] = block]

\* A text or reasoning block ends.
TextEnds(i) ==
    /\ at = "streaming" /\ Open(i) /\ native[i].type # "tool-call"
    /\ native' = [native EXCEPT ![i].ended = TRUE]
    /\ Publish(i, [type |-> native[i].type, text |-> i])
    /\ UNCHANGED <<at, rawArguments, history, origin>>

\* Which arguments a tool call is published with: the pieces, or for want of any the
\* assembled object.
ArgumentsOf(i) == IF rawArguments[i] # <<>> THEN rawArguments[i] ELSE Assembled(i)

CallBlock(i) ==
    [type |-> "tool-call", arguments |-> ArgumentsOf(i), object |-> IsJsonObject(ArgumentsOf(i))]

\* Wrong variant: the arguments are published unread.
CallEndsUnread(i) ==
    /\ at = "streaming" /\ Open(i) /\ native[i].type = "tool-call"
    /\ native' = [native EXCEPT ![i].ended = TRUE]
    /\ rawArguments' = [rawArguments EXCEPT ![i] = <<>>]
    /\ Publish(i, CallBlock(i))
    /\ UNCHANGED <<at, history, origin>>

\* A tool call ends; arguments that are no JSON object throw out of the stream.
CallEnds(i) ==
    /\ at = "streaming" /\ Open(i) /\ native[i].type = "tool-call"
    /\ native' = [native EXCEPT ![i].ended = TRUE]
    /\ rawArguments' = [rawArguments EXCEPT ![i] = <<>>]
    /\ IF IsJsonObject(ArgumentsOf(i))
       THEN Publish(i, CallBlock(i)) /\ UNCHANGED at
       ELSE at' = "INVALID_REQUEST" /\ UNCHANGED blocks
    /\ UNCHANGED <<history, origin>>

\* Wrong variant: reasoning without a signature is not worth a block.
ReplayStateOfSigned(stop) ==
    [stopReason |-> stop,
     blocks |-> SelectSeq([i \in DOMAIN native |->
                              [type |-> native[i].type, signature |-> native[i].signature]],
                          LAMBDA b : b.type = "reasoning" => b.signature # Unsigned)]

\* toReplayState: the shape and the signatures of the final message, block by block.
ReplayState(stop) ==
    [stopReason |-> stop,
     blocks |-> [i \in DOMAIN native |->
                    [type |-> native[i].type, signature |-> native[i].signature]]]

\* What the harness has: the blocks that ended, in the order of their indices.
Ended == {i \in DOMAIN native : blocks[i] # Missing}
Rank(i) == Cardinality({j \in Ended : j <= i})
Content == [k \in 1 .. Cardinality(Ended) |-> blocks[CHOOSE i \in Ended : Rank(i) = k]]

Keeps(replay, meant) ==
    /\ history' = Append(history, [content |-> Content, replay |-> replay])
    /\ origin' = Append(origin, meant)

EndsTurn ==
    /\ at' = "idle" /\ native' = <<>>
    /\ rawArguments' = [i \in Indices |-> <<>>]
    /\ blocks' = [i \in Indices |-> Missing]

\* The native message a later request has to carry: what was sent, as it was signed.
Meant(stop) ==
    [stopReason |-> stop,
     content |-> [i \in DOMAIN native |->
                    [type |-> native[i].type, signature |-> native[i].signature,
                     value |-> IF native[i].type = "tool-call" THEN Delivered(i) ELSE i]]]

\* mapFinishReason: does a completed turn finish as a failure?
FinishesAsError(stop, overflow) == overflow \/ (stop = "stop" /\ native = <<>>)

\* done: the finish carries the replay state whatever its reason; a turn that finished as a
\* failure may be kept or dropped.
Done(stop, overflow) ==
    /\ at = "streaming" /\ \A i \in DOMAIN native : native[i].ended
    /\ EndsTurn
    /\ \/ Keeps(ReplayState(stop), Meant(stop))
       \/ FinishesAsError(stop, overflow) /\ UNCHANGED <<history, origin>>

\* An error event, a stream that closes, a caller's abort, the watchdog, or the throw of a
\* tool call's end: no replay state; the blocks that ended may be kept.
Fails ==
    /\ at \in {"streaming", "INVALID_REQUEST"}
    /\ EndsTurn
    /\ Keeps(NoReplay, NoNative) \/ UNCHANGED <<history, origin>>

------------------------------------------------------------------------------
(* The next request goes out (src/context.ts, src/replay.ts).              *)

Refused == [stopReason |-> "refused", content |-> <<>>]

\* parseArguments: durable arguments are an object, or the history is broken.
Parses(message) == \A i \in DOMAIN message.content :
    message.content[i].type = "tool-call" => message.content[i].object

Value(block) == IF block.type = "tool-call" THEN block.arguments ELSE block.text

\* foreignAssistant: the blocks without what only their model understands.
ForeignAssistant(message) ==
    LET content == message.content
    IN  [stopReason |-> IF \E i \in DOMAIN content : content[i].type = "tool-call"
                        THEN "toolUse" ELSE "stop",
         content |-> [i \in DOMAIN content |->
                        [type |-> content[i].type, signature |-> Unsigned,
                         value |-> Value(content[i])]]]

\* replayedAssistant: refuses unless the replay state fits the blocks one by one.  The
\* provider, model, kind, version and api it compares as well are those of every turn
\* of this adapter, which the history here consists of.
Fits(message) ==
    /\ Len(message.replay.blocks) = Len(message.content)
    /\ \A i \in DOMAIN message.content : message.replay.blocks[i].type = message.content[i].type

ReplayedAssistant(message) ==
    [stopReason |-> message.replay.stopReason,
     content |-> [i \in DOMAIN message.content |->
                    [type |-> message.content[i].type,
                     signature |-> message.replay.blocks[i].signature,
                     value |-> Value(message.content[i])]]]

\* toPiAssistant.
ToPiAssistant(message) ==
    IF ~Parses(message) THEN Refused
    ELSE IF message.replay = NoReplay THEN ForeignAssistant(message)
    ELSE IF Fits(message) THEN ReplayedAssistant(message)
    ELSE Refused

\* toPiContext over the whole history: one message refused, and nothing is sent.
Generate ==
    /\ at = "idle" /\ Len(history) < MaxTurns
    /\ at' = IF \E t \in DOMAIN history : ToPiAssistant(history[t]) = Refused
             THEN "INVALID_REPLAY_STATE" ELSE "streaming"
    /\ UNCHANGED <<native, rawArguments, blocks, history, origin>>

Next ==
    \/ Generate
    \/ \E type \in Types, signed \in BOOLEAN, object \in BOOLEAN :
        /\ type # "tool-call" => object
        /\ Starts(type, IF signed THEN Len(native) + 1 ELSE Unsigned, object)
    \/ \E i \in DOMAIN native : Delta(i) \/ TextEnds(i) \/ CallEnds(i)
    \/ \E stop \in StopReasons, overflow \in BOOLEAN : Done(stop, overflow)
    \/ Fails

Spec == Init /\ [][Next]_vars

------------------------------------------------------------------------------

\* The type of the conversation's state.
TypeOK ==
    /\ at \in Places
    /\ native \in Seq([type: Types, signature: Nat, object: BOOLEAN, sent: 0 .. MaxDeltas,
                       ended: BOOLEAN])
    /\ Len(native) <= MaxBlocks /\ Len(history) = Len(origin)
    /\ DOMAIN rawArguments = Indices /\ DOMAIN blocks = Indices

\* However the calls of a turn interleave, each is published with its own pieces in their
\* order, and the turn is thrown away for a call's arguments only if those of one of its
\* calls are no object (toStreamChunks).
ArgumentsAreVerbatim ==
    /\ \A i \in DOMAIN native :
        native[i].type = "tool-call" /\ blocks[i] # Missing => blocks[i].arguments = Delivered(i)
    /\ at = "INVALID_REQUEST" => \E i \in DOMAIN native :
        native[i].type = "tool-call" /\ native[i].ended /\ ~native[i].object

\* No turn the adapter ever produced, completed, cut short or failed, makes a later request
\* fail on its history.
ConversationContinues == at # "INVALID_REPLAY_STATE"

\* A completed turn comes back to the model as it left it: every block in its place, with
\* its own signature, the arguments as they were sent, and the stop reason.
TurnsRoundTrip ==
    \A t \in DOMAIN history : origin[t] # NoNative => ToPiAssistant(history[t]) = origin[t]
================================================================================
